----------------------------- MODULE MeshProofs -----------------------------
(***************************************************************************)
(* Theorems about Mesh, for any peers, topics, connections, thresholds and *)
(* mesh sizes that ConfigBuilder::build accepts.                           *)
(***************************************************************************)
EXTENDS Mesh, SequenceTheorems, FiniteSetTheorems, FunctionTheorems,
        TLAPS

(***************************************************************************)
(* Lemmas about the helpers.                                               *)
(***************************************************************************)

(* get_random_peers returns peers of the set it is given.                  *)
LEMMA RandomPeersSubset ==
  ASSUME NEW n, NEW S, NEW R \in RandomPeers(n, S)
  PROVE  R \subseteq S
BY DEF RandomPeers

(* Closing one of a peer's connections leaves it the others, in order.     *)
LEMMA RemoveAtSeq ==
  ASSUME NEW S, NEW s \in Seq(S), NEW i \in 1..Len(s)
  PROVE  /\ RemoveAt(s, i) \in Seq(S)
         /\ Len(RemoveAt(s, i)) = Len(s) - 1
         /\ \A j \in 1..(Len(s) - 1) :
              RemoveAt(s, i)[j] = IF j < i THEN s[j] ELSE s[j + 1]
<1> DEFINE a == SubSeq(s, 1, i - 1)
           b == SubSeq(s, i + 1, Len(s))
<1>0. Len(s) \in Nat /\ \A k \in 1..Len(s) : s[k] \in S
  BY ElementOfSeq, LenProperties
<1>1. /\ a \in Seq(S) /\ Len(a) = i - 1
      /\ \A j \in 1..(i - 1) : a[j] = s[j]
  <2>1. 1 \in Int /\ i - 1 \in Int /\ \A k \in 1..(i - 1) : s[k] \in S
    BY <1>0
  <2>. QED  BY <2>1, <1>0, SubSeqProperties
<1>2. /\ b \in Seq(S) /\ Len(b) = Len(s) - i
      /\ \A j \in 1..(Len(s) - i) : b[j] = s[i + j]
  <2>1. i + 1 \in Int /\ Len(s) \in Int
        /\ \A k \in (i + 1)..Len(s) : s[k] \in S
    BY <1>0
  <2>2. /\ b \in Seq(S)
        /\ Len(b) = IF i + 1 <= Len(s) THEN Len(s) - (i + 1) + 1 ELSE 0
        /\ \A j \in 1..(Len(s) - (i + 1) + 1) : b[j] = s[(i + 1) + j - 1]
    BY <2>1, SubSeqProperties
  <2>. QED  BY <2>2, <1>0
<1>3. /\ a \o b \in Seq(S) /\ Len(a \o b) = Len(a) + Len(b)
      /\ \A j \in 1..(Len(a) + Len(b)) :
           (a \o b)[j] = IF j <= Len(a) THEN a[j] ELSE b[j - Len(a)]
  BY <1>1, <1>2, ConcatProperties
<1>4. RemoveAt(s, i) = a \o b
  BY DEF RemoveAt
<1> HIDE DEF a, b
<1>5. ASSUME NEW j \in 1..(Len(s) - 1)
      PROVE  (a \o b)[j] = IF j < i THEN s[j] ELSE s[j + 1]
  <2>1. CASE j < i
    BY <2>1, <1>0, <1>1, <1>2, <1>3
  <2>2. CASE ~(j < i)
    <3>1. j - Len(a) \in 1..(Len(s) - i) /\ i + (j - Len(a)) = j + 1
      BY <2>2, <1>0, <1>1
    <3>2. (a \o b)[j] = b[j - Len(a)]
      BY <2>2, <1>0, <1>1, <1>2, <1>3
    <3>3. b[j - Len(a)] = s[i + (j - Len(a))]
      BY <3>1, <1>2
    <3>. QED  BY <3>1, <3>2, <3>3, <2>2
  <2>. QED  BY <2>1, <2>2
<1>. QED  BY <1>0, <1>1, <1>2, <1>3, <1>4, <1>5

(* The peers a heartbeat removes from an overfull mesh are its peers.      *)
LEMMA ExcessSubset ==
  ASSUME NEW m, NEW X \in Excesses(m)
  PROVE  X \subseteq m
<1>1. ASSUME NEW s \in RemovalOrders(m)
      PROVE  RemovedInOrder(m, s) \subseteq m
  BY <1>1 DEF RemovalOrders, RemovedInOrder
<1>. QED  BY <1>1 DEF Excesses

(* get_random_peers returns at most as many peers as it is asked for.      *)
LEMMA RandomPeersBound ==
  ASSUME NEW n \in Nat, NEW S, IsFiniteSet(S), NEW R \in RandomPeers(n, S)
  PROVE  IsFiniteSet(R) /\ Cardinality(R) \in Nat /\ Cardinality(R) <= n
<1>1. IsFiniteSet(R) /\ Cardinality(R) \in Nat
  BY RandomPeersSubset, FS_Subset, FS_CardinalityType
<1>. QED  BY <1>1 DEF RandomPeers

(* Removing the excess never brings the outbound peers of a mesh below     *)
(* mesh_outbound_min: each one removed was within the spare ones.          *)
LEMMA OutboundRetained ==
  ASSUME NEW m, IsFiniteSet(m), NEW X \in Excesses(m), X \cap outbound # {}
  PROVE  Cardinality((m \ X) \cap outbound) >= MeshOutboundMin
<1> DEFINE n == Cardinality(m)
<1>0. n \in Nat
  BY FS_CardinalityType
<1>1. PICK s \in RemovalOrders(m) : X = RemovedInOrder(m, s)
  BY DEF Excesses
<1> DEFINE spare == Cardinality(m \cap outbound) - MeshOutboundMin
           upto(i) == {j \in 1..i : s[j] \in outbound}
           J == {i \in 1..n : /\ s[i] \in X \cap outbound
                              /\ Cardinality(upto(i)) <= spare}
<1>2. s \in [1..n -> m]
  BY <1>1 DEF RemovalOrders
<1>3. /\ \A p \in X \cap outbound : \E i \in J : s[i] = p
      /\ J # {}
  BY <1>1 DEF RemovedInOrder
<1>4. ASSUME NEW i \in J
      PROVE  /\ IsFiniteSet(upto(i))
             /\ Cardinality(upto(i)) \in 1..spare
             /\ spare \in Nat
  <2>0. i \in 1..n /\ s[i] \in outbound
    OBVIOUS
  <2>1. IsFiniteSet(upto(i)) /\ i \in upto(i)
    <3>1. i \in upto(i) /\ IsFiniteSet(1..i)
      BY <1>0, <2>0, FS_Interval
    <3>2. upto(i) \in SUBSET (1..i)
      OBVIOUS
    <3>. QED  BY <3>1, <3>2, FS_Subset
  <2>2. Cardinality(upto(i)) \in Nat /\ Cardinality(upto(i)) # 0
    BY <2>1, FS_CardinalityType, FS_EmptySet
  <2>3. Cardinality(upto(i)) <= spare /\ spare \in Int
    BY FS_Intersection, FS_CardinalityType, ConfigAssumption
  <2>. QED  BY <2>1, <2>2, <2>3
<1>5. ASSUME NEW i \in J, NEW j \in J, i < j
      PROVE  Cardinality(upto(i)) # Cardinality(upto(j))
  <2>1. upto(i) \subseteq upto(j) /\ j \in upto(j) /\ j \notin upto(i)
    BY <1>0, <1>5
  <2>. QED  BY <2>1, <1>4, FS_Subset
<1>6. /\ IsFiniteSet(J) /\ Cardinality(J) \in Nat
      /\ Cardinality(J) <= spare /\ spare \in Nat
  <2> DEFINE f == [i \in J |-> Cardinality(upto(i))]
  <2>1. spare \in Nat /\ J \subseteq Nat
    <3>1. J \subseteq Nat
      BY <1>0
    <3>. QED  BY <3>1, <1>3, <1>4
  <2>2. f \in [J -> 1..spare]
    BY <1>4
  <2> HIDE DEF J, upto, spare
  <2>3. \A i, j \in J : f[i] = f[j] => i = j
    BY <2>1, <1>5
  <2>4. f \in Injection(J, 1..spare)
    BY <2>2, <2>3 DEF Injection, IsInjective
  <2>5. IsFiniteSet(1..spare) /\ Cardinality(1..spare) = spare
    BY <2>1, FS_Interval
  <2>. QED  BY <2>1, <2>4, <2>5, FS_Injection, FS_CardinalityType
<1>7. /\ IsFiniteSet(X \cap outbound)
      /\ Cardinality(X \cap outbound) <= Cardinality(J)
  <2> DEFINE f == [i \in J |-> s[i]]
  <2>1. f \in Surjection(J, X \cap outbound)
    BY <1>3 DEF Surjection
  <2>. QED  BY <2>1, <1>6, FS_Surjection
<1> DEFINE M == m \cap outbound
<1>8. /\ IsFiniteSet(M) /\ Cardinality(M) \in Nat
      /\ Cardinality(M \ (X \cap outbound))
           = Cardinality(M) - Cardinality(M \cap (X \cap outbound))
  BY FS_Intersection, FS_Difference, FS_CardinalityType
<1>9. /\ Cardinality(M \cap (X \cap outbound)) <= Cardinality(X \cap outbound)
       /\ Cardinality(M \cap (X \cap outbound)) \in Nat
       /\ Cardinality(X \cap outbound) \in Nat
  BY <1>7, FS_Intersection, FS_CardinalityType
<1>10. (m \ X) \cap outbound = M \ (X \cap outbound)
  OBVIOUS
<1> HIDE DEF M, J, upto, n
<1>11. Cardinality(M \ (X \cap outbound)) >= MeshOutboundMin
  BY <1>6, <1>7, <1>8, <1>9, ConfigAssumption DEF M
<1>. QED  BY <1>10, <1>11

(* A set of naturals that is not empty has a least element.                *)
LEMMA LeastNat ==
  ASSUME NEW T \in SUBSET Nat, T # {}
  PROVE  \E x \in T : \A y \in T : x <= y
<1>1. PICK x \in T : \A y \in T : ~(<<y, x>> \in OpToRel(<, Nat))
  BY NatLessThanWellFounded, WFMin
<1>2. \A y \in T : ~(y < x)
  BY <1>1 DEF OpToRel
<1>. QED  BY <1>2

(* The c first elements of a finite set of numbers: there are no more than *)
(* c of them, and no fewer if the set has that many.                       *)
LEMMA FirstFew ==
  ASSUME NEW n \in Nat, NEW R \in SUBSET (1..n), NEW c \in Nat
  PROVE  LET K == {k \in R : Cardinality({j \in R : j < k}) < c}
         IN  /\ IsFiniteSet(R) /\ Cardinality(R) \in Nat
             /\ IsFiniteSet(K) /\ Cardinality(K) \in Nat
             /\ Cardinality(K) <= c
             /\ Cardinality(R) >= c => Cardinality(K) >= c
<1> DEFINE below(k) == {j \in R : j < k}
           K == {k \in R : Cardinality(below(k)) < c}
<1>0. \A k \in R : k \in Nat
  OBVIOUS
<1>1. IsFiniteSet(R) /\ Cardinality(R) \in Nat
  <2>1. IsFiniteSet(1..n)
    BY FS_Interval
  <2>. QED  BY <2>1, FS_Subset, FS_CardinalityType
<1>2. ASSUME NEW k \in R
      PROVE  IsFiniteSet(below(k)) /\ Cardinality(below(k)) \in Nat
  <2>1. below(k) \in SUBSET R
    OBVIOUS
  <2>. QED  BY <2>1, <1>1, FS_Subset, FS_CardinalityType
<1>3. IsFiniteSet(K) /\ Cardinality(K) \in Nat
  <2>1. K \in SUBSET R
    OBVIOUS
  <2>. QED  BY <2>1, <1>1, FS_Subset, FS_CardinalityType
<1>4. Cardinality(K) <= c
  <2> DEFINE f == [k \in K |-> Cardinality(below(k)) + 1]
  <2>1. f \in [K -> 1..c]
    <3> SUFFICES ASSUME NEW k \in K PROVE Cardinality(below(k)) + 1 \in 1..c
      OBVIOUS
    <3>1. Cardinality(below(k)) \in Nat
      BY <1>2
    <3>2. Cardinality(below(k)) < c
      OBVIOUS
    <3> HIDE DEF below, K
    <3>. QED  BY <3>1, <3>2
  <2>2. ASSUME NEW i \in K, NEW j \in K, i < j PROVE f[i] # f[j]
    <3>1. below(i) \in SUBSET below(j) /\ i \in below(j) /\ i \notin below(i)
      <4>1. i \in Nat /\ j \in Nat /\ i \in R
        BY <1>0
      <4>2. ASSUME NEW k \in R, k < i PROVE k < j
        <5>1. k \in Nat
          BY <1>0
        <5>. QED  BY <5>1, <4>1, <4>2, <2>2
      <4>3. ~(i < i)
        BY <4>1
      <4>. QED  BY <2>2, <4>1, <4>2, <4>3, Zenon
    <3>2. Cardinality(below(i)) # Cardinality(below(j))
      BY <3>1, <1>2, FS_Subset
    <3> HIDE DEF below
    <3>. QED  BY <3>2, <1>2
  <2>3. \A i, j \in K : f[i] = f[j] => i = j
    <3> HIDE DEF f
    <3>1. \A i \in K : i \in Nat
      OBVIOUS
    <3> HIDE DEF K
    <3>. QED  BY <2>2, <3>1
  <2> HIDE DEF f, K
  <2>4. f \in Injection(K, 1..c)
    BY <2>1, <2>3 DEF Injection, IsInjective
  <2>5. IsFiniteSet(1..c) /\ Cardinality(1..c) = c
    BY FS_Interval
  <2>. QED  BY <2>4, <2>5, FS_Injection
<1>5. ASSUME Cardinality(R) >= c, ~(Cardinality(K) >= c) PROVE FALSE
  <2>1. R \ K # {} /\ R \ K \in SUBSET Nat
    <3>1. R # K
      BY <1>5, <1>1, <1>3
    <3>2. K \subseteq R
      OBVIOUS
    <3> HIDE DEF K
    <3>. QED  BY <3>1, <3>2, <1>0
  <2> HIDE DEF K
  <2>2. PICK k \in R \ K : \A j \in R \ K : k <= j
    BY <2>1, LeastNat
  <2>3. below(k) \in SUBSET K
    <3>1. ASSUME NEW j \in R, j < k PROVE j \in K
      <4>1. j \in Nat /\ k \in Nat
        BY <1>0
      <4>. QED  BY <4>1, <3>1, <2>2
    <3>. QED  BY <3>1
  <2>4. Cardinality(below(k)) <= Cardinality(K)
    BY <2>3, <1>3, FS_Subset
  <2>5. Cardinality(below(k)) < c
    BY <2>4, <1>2, <1>3, <1>5
  <2>. QED  BY <2>2, <2>5 DEF K
<1>. QED  BY <1>1, <1>3, <1>4, <1>5

(* When a mesh is overfull, removing the excess leaves mesh_n peers: the   *)
(* outbound peers that have to stay are at most mesh_outbound_min, so that *)
(* enough others can go.                                                   *)
LEMMA ExcessSize ==
  ASSUME NEW m, IsFiniteSet(m), NEW X \in Excesses(m),
         Cardinality(m) > MeshNHigh
  PROVE  Cardinality(m \ X) = MeshN
<1> DEFINE n == Cardinality(m)
           c == n - MeshN
<1>0. n \in Nat /\ c \in Nat /\ c <= n
  BY FS_CardinalityType, ConfigAssumption
<1>1. PICK s \in RemovalOrders(m) : X = RemovedInOrder(m, s)
  BY DEF Excesses
<1> DEFINE have    == Cardinality(m \cap outbound)
           spare   == have - MeshOutboundMin
           upto(i) == {j \in 1..i : s[j] \in outbound}
           stays(i) == s[i] \in outbound /\ ~(Cardinality(upto(i)) <= spare)
           Q == {i \in 1..n : stays(i)}
           R == {i \in 1..n : ~stays(i)}
           K == {k \in R : Cardinality({j \in R : j < k}) < c}
           O == {i \in 1..n : s[i] \in outbound}
<1>2. /\ s \in [1..n -> m]
      /\ \A i, j \in 1..n : s[i] = s[j] => i = j
  BY <1>1 DEF RemovalOrders
<1>3. X = {s[i] : i \in K}
  <2>1. R = {i \in 1..n : s[i] \in outbound => Cardinality(upto(i)) <= spare}
    OBVIOUS
  <2>. QED  BY <1>1, <2>1 DEF RemovedInOrder
<1>4. IsFiniteSet(1..n) /\ Cardinality(1..n) = n
  BY <1>0, FS_Interval
<1>5. have \in Nat /\ IsFiniteSet(m \cap outbound)
  BY FS_Intersection, FS_CardinalityType
<1>6. IsFiniteSet(O) /\ Cardinality(O) \in Nat /\ Cardinality(O) <= have
  <2> DEFINE f == [i \in O |-> s[i]]
  <2>1. f \in [O -> m \cap outbound]
    BY <1>2
  <2>2. \A i, j \in O : f[i] = f[j] => i = j
    BY <1>2
  <2> HIDE DEF f, O
  <2>3. f \in Injection(O, m \cap outbound)
    BY <2>1, <2>2 DEF Injection, IsInjective
  <2>. QED  BY <2>3, <1>5, FS_Injection, FS_CardinalityType
<1>7. ASSUME NEW i \in O
      PROVE  /\ IsFiniteSet(upto(i)) /\ i \in upto(i) /\ i \in Nat
             /\ Cardinality(upto(i)) \in 1..have
  <2>1. i \in 1..n /\ i \in Nat /\ s[i] \in outbound
    BY <1>0
  <2>2. upto(i) \in SUBSET O /\ i \in upto(i)
    <3>1. ASSUME NEW j \in 1..i PROVE j \in 1..n
      BY <1>0, <2>1
    <3>. QED  BY <2>1, <3>1
  <2> HIDE DEF O, upto
  <2>3. IsFiniteSet(upto(i)) /\ Cardinality(upto(i)) <= Cardinality(O)
    BY <2>2, <1>6, FS_Subset
  <2>4. Cardinality(upto(i)) \in Nat /\ Cardinality(upto(i)) # 0
    BY <2>2, <2>3, FS_CardinalityType, FS_EmptySet
  <2>. QED  BY <2>1, <2>2, <2>3, <2>4, <1>5, <1>6
<1>8. IsFiniteSet(Q) /\ Cardinality(Q) \in Nat
      /\ Cardinality(Q) <= MeshOutboundMin
  <2>0. Q \in SUBSET O
    OBVIOUS
  <2>1. IsFiniteSet(Q) /\ Cardinality(Q) \in Nat
        /\ Cardinality(Q) <= Cardinality(O)
    BY <2>0, <1>6, FS_Subset, FS_CardinalityType
  <2>2. CASE have <= MeshOutboundMin
    <3> HIDE DEF Q, O, have
    <3>. QED  BY <2>1, <2>2, <1>5, <1>6, ConfigAssumption
  <2>3. CASE ~(have <= MeshOutboundMin)
    <3> DEFINE g == [i \in Q |-> Cardinality(upto(i)) - spare]
    <3>1. spare \in Nat /\ have = spare + MeshOutboundMin
      BY <2>3, <1>5, ConfigAssumption
    <3>2. g \in [Q -> 1..MeshOutboundMin]
      <4> SUFFICES ASSUME NEW i \in Q
                   PROVE  Cardinality(upto(i)) - spare \in 1..MeshOutboundMin
        OBVIOUS
      <4>1. Cardinality(upto(i)) \in 1..have
        BY <2>0, <1>7
      <4>2. ~(Cardinality(upto(i)) <= spare)
        OBVIOUS
      <4> HIDE DEF Q, O, upto, have, spare
      <4>. QED  BY <4>1, <4>2, <3>1, <1>5, ConfigAssumption
    <3>3. ASSUME NEW i \in Q, NEW j \in Q, i < j PROVE g[i] # g[j]
      <4>0. /\ i \in O /\ j \in O /\ i \in Nat /\ j \in Nat
            /\ IsFiniteSet(upto(i)) /\ IsFiniteSet(upto(j))
            /\ Cardinality(upto(i)) \in Nat /\ Cardinality(upto(j)) \in Nat
            /\ j \in upto(j)
        BY <2>0, <1>5, <1>7
      <4>1. upto(i) \in SUBSET upto(j) /\ j \notin upto(i)
        <5>1. ASSUME NEW k \in 1..i PROVE k \in 1..j /\ k # j
          BY <4>0, <3>3
        <5>. QED  BY <5>1
      <4> HIDE DEF Q, O, upto, have, spare
      <4>2. Cardinality(upto(i)) # Cardinality(upto(j))
        BY <4>0, <4>1, FS_Subset
      <4>. QED  BY <4>0, <4>2, <3>1
    <3>4. \A i \in Q : i \in Nat
      BY <1>0
    <3> HIDE DEF g, Q
    <3>5. \A i, j \in Q : g[i] = g[j] => i = j
      BY <3>3, <3>4
    <3>6. g \in Injection(Q, 1..MeshOutboundMin)
      BY <3>2, <3>5 DEF Injection, IsInjective
    <3>7. IsFiniteSet(1..MeshOutboundMin)
          /\ Cardinality(1..MeshOutboundMin) = MeshOutboundMin
      BY FS_Interval, ConfigAssumption
    <3>. QED  BY <2>1, <3>6, <3>7, FS_Injection
  <2>. QED  BY <2>2, <2>3
<1>9. R \in SUBSET (1..n) /\ Cardinality(R) >= c
  <2>1. R = (1..n) \ Q /\ (1..n) \cap Q = Q
    OBVIOUS
  <2> HIDE DEF R, Q
  <2> HIDE DEF n
  <2> DEFINE I == 1..n
  <2> HIDE DEF I
  <2>a. Cardinality(I \ Q) = Cardinality(I) - Cardinality(I \cap Q)
    BY <1>4, FS_Difference DEF I
  <2>2. Cardinality(R) = n - Cardinality(Q)
    BY <2>1, <2>a, <1>4 DEF I
  <2>3. n - Cardinality(Q) >= n - MeshN
    BY <1>0, <1>8, ConfigAssumption
  <2>. QED  BY <2>1, <2>2, <2>3
<1> HIDE DEF R
<1>10. IsFiniteSet(K) /\ Cardinality(K) = c
  <2>1. /\ IsFiniteSet(K) /\ Cardinality(K) \in Nat
        /\ Cardinality(K) <= c
        /\ Cardinality(R) >= c => Cardinality(K) >= c
    <3> HIDE DEF n, c
    <3>. QED  BY <1>0, <1>9, FirstFew
  <2> HIDE DEF K, c
  <2>. QED  BY <2>1, <1>0, <1>9
<1>11. X \in SUBSET m /\ IsFiniteSet(X) /\ Cardinality(X) = c
  <2> DEFINE f == [i \in K |-> s[i]]
  <2>0. K \subseteq 1..n
    BY <1>9
  <2> HIDE DEF K, n, c
  <2>1. f \in Surjection(K, X)
    BY <1>3 DEF Surjection
  <2>2. f \in [K -> X] /\ \A i, j \in K : f[i] = f[j] => i = j
    BY <1>2, <1>3, <2>0
  <2>3. X \in SUBSET m
    BY <1>2, <1>3, <2>0
  <2> HIDE DEF f
  <2>4. f \in Injection(K, X)
    BY <2>2 DEF Injection, IsInjective
  <2>. QED  BY <2>1, <2>3, <2>4, <1>10, FS_Surjection
<1>12. m \cap X = X
  BY <1>11
<1>13. Cardinality(m \ X) = n - c
  <2>1. Cardinality(m \ X) = Cardinality(m) - Cardinality(m \cap X)
    BY FS_Difference
  <2>. QED  BY <1>11, <1>12, <2>1
<1> HIDE DEF n
<1>. QED  BY <1>13, <1>0, ConfigAssumption

(* What a heartbeat does to the mesh of one topic: it only removes peers   *)
(* of the mesh and only adds gossipsub peers of the topic that were not    *)
(* backing off, and no peer is both grafted and pruned.                    *)
LEMMA MeshOutcomeSets ==
  ASSUME TypeOK, NEW t \in Topics, NEW bo, NEW o \in MeshOutcomes(t, bo)
  PROVE  /\ o.mesh \subseteq mesh[t] \cup o.graft
         /\ o.graft \subseteq GossipPeers(t)
         /\ o.graft \subseteq o.mesh
         /\ o.prune \subseteq mesh[t] \ o.mesh
         /\ mesh[t] \subseteq o.mesh \cup o.prune
         /\ \A p \in o.graft : <<t, p>> \notin bo /\ p \notin explicit
         /\ t \notin subscribed => o.mesh = mesh[t]
         /\ \/ o.mesh \ outbound \subseteq mesh[t]
            \/ Cardinality(o.mesh \ outbound) <= MeshNHigh
<1>1. CASE t \notin subscribed
  BY <1>1 DEF MeshOutcomes
<1>2. CASE t \in subscribed
  <2> DEFINE kept == Kept(mesh[t])
  <2>1. PICK low \in LowFills(t, kept, bo) : o \in ExcessOutcomes(t, low, bo)
    BY <1>2 DEF MeshOutcomes
  <2>2. PICK out \in Excesses(kept \cup low) :
               o \in OutboundOutcomes(t, low, out, bo)
    BY <2>1 DEF ExcessOutcomes
  <2> DEFINE trim == (kept \cup low) \ out
  <2>3. PICK more \in OutboundFills(t, trim, bo) :
          o = [mesh  |-> trim \cup more,
               graft |-> low \cup more,
               prune |-> (mesh[t] \ kept) \cup out]
    BY <2>2 DEF OutboundOutcomes
  <2>4. /\ kept \subseteq mesh[t]
        /\ low \subseteq Addable(t, kept, bo)
    BY RandomPeersSubset DEF Kept, LowFills
  <2>5. more \subseteq Addable(t, trim, bo)
    BY RandomPeersSubset DEF OutboundFills
  <2>6. out \subseteq kept \cup low
    BY ExcessSubset
  <2>7. /\ IsFiniteSet(kept) /\ Cardinality(kept) \in Nat
        /\ IsFiniteSet(Addable(t, kept, bo))
    <3>1. kept \subseteq Peers /\ Addable(t, kept, bo) \subseteq Peers
      BY DEF Kept, Addable, GossipPeers, TypeOK
    <3>. QED  BY <3>1, FS_Subset, FS_CardinalityType, EnvironmentAssumption
  <2>8. low # {} => out = {} /\ Cardinality(kept \cup low) <= MeshNHigh
    <3> SUFFICES ASSUME low # {}
                 PROVE  out = {} /\ Cardinality(kept \cup low) <= MeshNHigh
      OBVIOUS
    <3>1. Cardinality(kept) < MeshNLow
      BY DEF LowFills
    <3>2. MeshN - Cardinality(kept) \in Nat
      BY <3>1, <2>7, ConfigAssumption
    <3>3. low \in RandomPeers(MeshN - Cardinality(kept), Addable(t, kept, bo))
      BY <3>1 DEF LowFills
    <3>4. /\ IsFiniteSet(low) /\ Cardinality(low) \in Nat
          /\ Cardinality(low) <= MeshN - Cardinality(kept)
      BY <3>2, <3>3, <2>7, RandomPeersBound
    <3>5. /\ Cardinality(kept \cup low) =
               Cardinality(kept) + Cardinality(low) - Cardinality(kept \cap low)
          /\ Cardinality(kept \cap low) \in Nat
          /\ Cardinality(kept \cup low) \in Nat
      BY <3>4, <2>7, FS_Union, FS_Intersection, FS_CardinalityType
    <3>6. /\ Cardinality(kept \cup low) <= MeshNHigh
          /\ ~(Cardinality(kept \cup low) > MeshNHigh)
      BY <3>4, <3>5, <2>7, ConfigAssumption
    <3>. QED  BY <3>6 DEF Excesses
  <2>9. IsFiniteSet(kept \cup low)
    <3>1. kept \cup low \subseteq Peers
      BY <2>4 DEF Addable, GossipPeers, TypeOK
    <3>. QED  BY <3>1, FS_Subset, EnvironmentAssumption
  <2>10. more \cap out = {}
    <3> SUFFICES ASSUME NEW p \in more \cap out PROVE FALSE
      OBVIOUS
    <3>1. more \subseteq outbound
      BY RandomPeersSubset DEF OutboundFills
    <3>2. Cardinality(trim \cap outbound) >= MeshOutboundMin
      BY <3>1, <2>9, OutboundRetained
    <3>3. Cardinality(trim \cap outbound) < MeshOutboundMin
      BY DEF OutboundFills
    <3>4. Cardinality(trim \cap outbound) \in Nat
      BY <2>9, FS_Difference, FS_Intersection, FS_CardinalityType
    <3>. QED  BY <3>2, <3>3, <3>4, ConfigAssumption
  <2>11. /\ mesh[t] \ kept = {p \in mesh[t] : ~(HScore(p) >= 0)}
         /\ \A p \in low \cup more : HScore(p) >= 0
    BY <2>4, <2>5 DEF Kept, Addable
  <2> HIDE DEF kept, trim
  <2>12. /\ trim = (kept \cup low) \ out
         /\ low \subseteq trim
         /\ out \subseteq kept
    BY <2>6, <2>8 DEF trim
  <2>13. /\ low \cup more \subseteq GossipPeers(t)
         /\ \A p \in low \cup more : <<t, p>> \notin bo /\ p \notin explicit
    BY <2>4, <2>5 DEF Addable
  <2>14. \/ (trim \cup more) \ outbound \subseteq mesh[t]
         \/ Cardinality((trim \cup more) \ outbound) <= MeshNHigh
    <3>1. more \subseteq outbound
      BY RandomPeersSubset DEF OutboundFills
    <3>2. CASE low = {}
      BY <3>1, <3>2, <2>4, <2>12
    <3>3. CASE low # {}
      <4>1. (trim \cup more) \ outbound \in SUBSET (kept \cup low)
        BY <3>1, <2>12
      <4>2. /\ Cardinality((trim \cup more) \ outbound)
                 <= Cardinality(kept \cup low)
            /\ Cardinality((trim \cup more) \ outbound) \in Nat
            /\ Cardinality(kept \cup low) \in Nat
        BY <4>1, <2>9, FS_Subset, FS_CardinalityType
      <4>. QED  BY <4>2, <3>3, <2>8, ConfigAssumption
    <3>. QED  BY <3>2, <3>3
  <2>. QED  BY <2>3, <2>4, <2>10, <2>11, <2>12, <2>13, <2>14, <1>2
<1>. QED  BY <1>1, <1>2

(* The steps of a heartbeat that the invariants depend on, in terms of the *)
(* (topic, peer) pairs it grafts and prunes.                               *)
HeartbeatMesh(bo, grafts, prunes) ==
  /\ running \subseteq bo /\ bo \subseteq backoff
  /\ grafts \subseteq Topics \X Peers /\ prunes \subseteq Topics \X Peers
  /\ mesh' \in [Topics -> SUBSET Peers]
  /\ \A t \in Topics, p \in Peers :
       /\ p \in mesh'[t] => p \in mesh[t] \/ <<t, p>> \in grafts
       /\ p \in mesh[t]  => p \in mesh'[t] \/ <<t, p>> \in prunes
       /\ <<t, p>> \in grafts => /\ p \in GossipPeers(t) /\ p \in mesh'[t]
                                 /\ <<t, p>> \notin bo /\ p \notin explicit
       /\ <<t, p>> \in prunes => p \in mesh[t] /\ p \notin mesh'[t]
  /\ \A t \in Topics : \/ mesh'[t] \ outbound \subseteq mesh[t]
                        \/ Cardinality(mesh'[t] \ outbound) <= MeshNHigh
  /\ SendGraftPrune(grafts, prunes, bo)

(* What a heartbeat does to the meshes and the backoffs, with the choices  *)
(* it makes named once for the proofs that need them.                      *)
LEMMA HeartbeatEffect ==
  ASSUME TypeOK, Heartbeat
  PROVE  /\ \E bo, grafts, prunes : HeartbeatMesh(bo, grafts, prunes)
         /\ \A t \in Topics \ subscribed : mesh'[t] = mesh[t]
<1>1. PICK gone \in SUBSET (backoff \ running) :
        \E o \in {f \in [Topics -> UNION {MeshOutcomes(t, backoff \ gone)
                                          : t \in Topics}] :
               \A t \in Topics : f[t] \in MeshOutcomes(t, backoff \ gone)} :
          /\ mesh' = [t \in Topics |-> o[t].mesh]
          /\ SendGraftPrune(UNION {{t} \X o[t].graft : t \in Topics},
                            UNION {{t} \X o[t].prune : t \in Topics},
                            backoff \ gone)
  BY DEF Heartbeat
<1> DEFINE bo == backoff \ gone
<1>2. PICK o : /\ \A t \in Topics : o[t] \in MeshOutcomes(t, bo)
               /\ mesh' = [t \in Topics |-> o[t].mesh]
               /\ SendGraftPrune(UNION {{t} \X o[t].graft : t \in Topics},
                                 UNION {{t} \X o[t].prune : t \in Topics}, bo)
  BY <1>1
<1> DEFINE grafts == UNION {{t} \X o[t].graft : t \in Topics}
           prunes == UNION {{t} \X o[t].prune : t \in Topics}
<1>3. ASSUME NEW t \in Topics
      PROVE  /\ o[t].mesh \subseteq mesh[t] \cup o[t].graft
             /\ o[t].graft \subseteq GossipPeers(t)
             /\ o[t].graft \subseteq o[t].mesh
             /\ o[t].prune \subseteq mesh[t] \ o[t].mesh
             /\ mesh[t] \subseteq o[t].mesh \cup o[t].prune
             /\ \A p \in o[t].graft : <<t, p>> \notin bo /\ p \notin explicit
             /\ t \notin subscribed => o[t].mesh = mesh[t]
             /\ \/ o[t].mesh \ outbound \subseteq mesh[t]
                \/ Cardinality(o[t].mesh \ outbound) <= MeshNHigh
  <2> DEFINE x == o[t]
  <2>1. x \in MeshOutcomes(t, bo)
    BY <1>2
  <2> HIDE DEF bo, x, grafts, prunes
  <2>2. /\ x.mesh \subseteq mesh[t] \cup x.graft
        /\ x.graft \subseteq GossipPeers(t)
        /\ x.graft \subseteq x.mesh
        /\ x.prune \subseteq mesh[t] \ x.mesh
        /\ mesh[t] \subseteq x.mesh \cup x.prune
        /\ \A p \in x.graft : <<t, p>> \notin bo /\ p \notin explicit
        /\ t \notin subscribed => x.mesh = mesh[t]
        /\ \/ x.mesh \ outbound \subseteq mesh[t]
           \/ Cardinality(x.mesh \ outbound) <= MeshNHigh
    BY <2>1, MeshOutcomeSets, Zenon
  <2>. QED  BY <2>2, Zenon DEF x
<1>4. \A t \in Topics : \A p :
        /\ <<t, p>> \in grafts <=> p \in o[t].graft
        /\ <<t, p>> \in prunes <=> p \in o[t].prune
  OBVIOUS
<1>5. \A t \in Topics : GossipPeers(t) \subseteq Peers /\ mesh[t] \subseteq Peers
  BY DEF GossipPeers, TypeOK
<1>6. grafts \subseteq Topics \X Peers /\ prunes \subseteq Topics \X Peers
  <2>1. \A t \in Topics : o[t].graft \subseteq Peers /\ o[t].prune \subseteq Peers
    BY <1>3, <1>5
  <2>. QED  BY <2>1
<1>7. running \subseteq bo /\ bo \subseteq backoff
  BY DEF TypeOK
<1>8. \A t \in Topics : mesh'[t] = o[t].mesh /\ mesh'[t] \subseteq Peers
  BY <1>2, <1>3, <1>5
<1>9. mesh' \in [Topics -> SUBSET Peers]
  BY <1>2, <1>8
<1>10. SendGraftPrune(grafts, prunes, bo)
  BY <1>2
<1> HIDE DEF grafts, prunes, bo
<1>11. HeartbeatMesh(bo, grafts, prunes)
  BY <1>3, <1>4, <1>6, <1>7, <1>8, <1>9, <1>10 DEF HeartbeatMesh
<1>. QED  BY <1>11, <1>8, <1>3

(***************************************************************************)
(* Type correctness.                                                       *)
(***************************************************************************)

(* The connections of which a handler is told are connections.             *)
LEMMA FirstConnsType ==
  ASSUME TypeOK, NEW P PROVE FirstConns(P) \subseteq Conns
<1> SUFFICES ASSUME NEW p \in P \cap Connected PROVE FirstConn(p) \in Conns
  BY DEF FirstConns
<1>1. conns[p] \in Seq(Conns) /\ conns[p] # <<>>
  BY DEF Connected, TypeOK
<1>2. Len(conns[p]) \in Nat /\ Len(conns[p]) # 0
  BY <1>1, EmptySeq, LenProperties
<1>3. 1 \in 1..Len(conns[p])
  BY <1>2
<1>. QED  BY <1>1, <1>3, ElementOfSeq DEF FirstConn

(* The connection events of the swarm keep the types.                      *)
LEMMA TypeSwarmStep ==
  ASSUME TypeOK, NEW p \in Peers, SwarmStep(p) PROVE TypeOK'
<1>1. CASE \E c \in Conns, dialer \in BOOLEAN :
             ConnectionEstablished(p, c, dialer)
  <2>1. PICK c \in Conns, dialer \in BOOLEAN :
               ConnectionEstablished(p, c, dialer)
    BY <1>1
  <2>2. Append(conns[p], c) \in Seq(Conns)
    BY AppendProperties DEF TypeOK
  <2>. QED
    BY <2>1, <2>2 DEF TypeOK, ConnectionEstablished, meshVars, fanVars, boVars
<1>2. CASE \E i \in 1..Len(conns[p]) : OneConnectionClosed(p, i)
  <2>1. PICK i \in 1..Len(conns[p]) : OneConnectionClosed(p, i)
    BY <1>2
  <2> DEFINE rest == RemoveAt(conns[p], i)
  <2>2. conns[p] \in Seq(Conns) /\ rest \in Seq(Conns)
        /\ Len(rest) = Len(conns[p]) - 1
    BY RemoveAtSeq DEF TypeOK
  <2>3. rest[1] \in Conns
    <3>1. Len(conns[p]) \in Nat /\ Len(conns[p]) > 1
      BY <2>1, <2>2, LenProperties DEF OneConnectionClosed, HandOver
    <3>2. 1 \in 1..Len(rest)
      BY <3>1, <2>2
    <3>. QED  BY <3>2, <2>2, ElementOfSeq
  <2> HIDE DEF rest
  <2>4. conns' = [conns EXCEPT ![p] = rest] /\ inMesh' \subseteq inMesh \cup {rest[1]}
    BY <2>1 DEF OneConnectionClosed, HandOver, rest
  <2>. QED  BY <2>1, <2>2, <2>3, <2>4
            DEF TypeOK, OneConnectionClosed, HandOver, meshVars, fanVars,
                boVars, topicVars
<1>3. CASE LastConnectionClosed(p)
  <2>1. <<>> \in Seq(Conns)
    BY EmptySeq
  <2>. QED
    BY <1>3, <2>1 DEF TypeOK, LastConnectionClosed, ForgetPeer, boVars
<1>4. CASE \E k \in PeerKinds : PeerKind(p, k)
  BY <1>4, EnvironmentAssumption
  DEF TypeOK, PeerKind, meshVars, fanVars, boVars, topicVars
<1>. QED  BY <1>1, <1>2, <1>3, <1>4 DEF SwarmStep

(* Subscriptions, GRAFTs and PRUNEs keep the types.                        *)
LEMMA TypeRpcStep ==
  ASSUME TypeOK, NEW p \in Peers, RpcStep(p) PROVE TypeOK'
<1> USE FirstConnsType DEF peerVars, fanVars
<1>1. CASE \E sub, unsub \in SUBSET Topics : HandleSubscriptions(p, sub, unsub)
  BY <1>1 DEF TypeOK, HandleSubscriptions, UpdateBackoff, NotifyHandlers
<1>2. CASE \E ts \in SUBSET Topics : HandleGraft(p, ts)
  BY <1>2 DEF TypeOK, HandleGraft, GraftRefused, UpdateBackoff,
              PruneBackoffs, NotifyHandlers
<1>3. CASE \E ts \in SUBSET Topics, px \in SUBSET Peers : HandlePrune(p, ts, px)
  BY <1>3 DEF TypeOK, HandlePrune, UpdateBackoff, NotifyHandlers, topicVars
<1>. QED  BY <1>1, <1>2, <1>3 DEF RpcStep

(* The peers JOIN adds are peers of the fanout or gossipsub peers of the   *)
(* topic, at most mesh_n; none is explicit or backing off.                 *)
LEMMA JoinedPeers ==
  ASSUME TypeOK, NEW t \in Topics, Subscribe(t)
  PROVE  \E added \in SUBSET Peers :
           /\ \A p \in added : /\ p \in fanout[t] \/ p \in GossipPeers(t)
                               /\ Graftable(t, p)
           /\ Cardinality(added) <= MeshN
           /\ mesh' = [mesh EXCEPT ![t] = added]
           /\ NotifyHandlers({p \in added :
                               ~InOtherMesh(p, {t}, mesh', peerTopics)}, {})
           /\ RequireConnection(added)
<1> DEFINE fan == {p \in fanout[t] : Graftable(t, p)}
           gossip(F) == {p \in GossipPeers(t) : p \notin F /\ Graftable(t, p)}
           result(added) ==
             /\ mesh' = [mesh EXCEPT ![t] = added]
             /\ NotifyHandlers({p \in added :
                                 ~InOtherMesh(p, {t}, mesh', peerTopics)}, {})
             /\ RequireConnection(added)
<1>1. PICK F \in RandomPeers(MeshN, fan) :
        \E R \in RandomPeers(MeshN - Cardinality(F), gossip(F)) : result(F \cup R)
  BY DEF Subscribe
<1>2. PICK R \in RandomPeers(MeshN - Cardinality(F), gossip(F)) : result(F \cup R)
  BY <1>1
<1>3. F \subseteq fan /\ R \subseteq gossip(F)
  BY RandomPeersSubset
<1>4. F \cup R \in SUBSET Peers
  BY <1>3 DEF TypeOK, GossipPeers
<1>5. \A p \in F \cup R : /\ p \in fanout[t] \/ p \in GossipPeers(t)
                          /\ Graftable(t, p)
  BY <1>3
<1>6. Cardinality(F \cup R) <= MeshN
  <2>1. IsFiniteSet(fan) /\ IsFiniteSet(gossip(F))
    <3>1. fan \subseteq Peers /\ gossip(F) \subseteq Peers
      BY DEF TypeOK, GossipPeers
    <3>. QED  BY <3>1, FS_Subset, EnvironmentAssumption
  <2>2. IsFiniteSet(F) /\ Cardinality(F) \in Nat /\ Cardinality(F) <= MeshN
    BY <2>1, RandomPeersBound, ConfigAssumption
  <2>3. MeshN - Cardinality(F) \in Nat
    BY <2>2, ConfigAssumption
  <2>4. /\ IsFiniteSet(R) /\ Cardinality(R) \in Nat
        /\ Cardinality(R) <= MeshN - Cardinality(F)
    BY <2>1, <2>3, RandomPeersBound
  <2>5. /\ Cardinality(F \cup R)
             = Cardinality(F) + Cardinality(R) - Cardinality(F \cap R)
        /\ Cardinality(F \cap R) \in Nat
    BY <2>2, <2>4, FS_Union, FS_Intersection, FS_CardinalityType
  <2>. QED  BY <2>2, <2>4, <2>5, ConfigAssumption
<1>. QED  BY <1>2, <1>4, <1>5, <1>6

(* The calls of the application keep the types.                            *)
LEMMA TypeApplicationStep ==
  ASSUME TypeOK, ApplicationStep PROVE TypeOK'
<1> USE FirstConnsType DEF peerVars, topicVars
<1>1. ASSUME NEW t \in Topics, Subscribe(t) PROVE TypeOK'
  <2>1. PICK added \in SUBSET Peers :
          /\ mesh' = [mesh EXCEPT ![t] = added]
          /\ NotifyHandlers({p \in added :
                              ~InOtherMesh(p, {t}, mesh', peerTopics)}, {})
          /\ RequireConnection(added)
    BY <1>1, JoinedPeers
  <2>2. inMesh' \subseteq Conns /\ panic' \in BOOLEAN
    BY <2>1 DEF NotifyHandlers, RequireConnection, TypeOK
  <2>3. /\ mesh' \in [Topics -> SUBSET Peers]
        /\ \A u \in Topics \ subscribed' : mesh'[u] = {}
    <3>1. CASE t \in subscribed'
      BY <3>1, <2>1, <1>1 DEF Subscribe, TypeOK
    <3>2. CASE t \notin subscribed'
      <4>1. t \notin fanoutTopics /\ MeshN = 0 /\ subscribed' = subscribed
        BY <3>2, <1>1, ConfigAssumption DEF Subscribe, TypeOK
      <4>2. fanout[t] = {}
        BY <4>1 DEF TypeOK
      <4>3. \A n, S : n = 0 /\ IsFiniteSet(S) => RandomPeers(n, S) = {{}}
        <5>1. ASSUME NEW S, IsFiniteSet(S) PROVE RandomPeers(0, S) = {{}}
          <6>1. Cardinality(S) \in Nat /\ (Cardinality(S) = 0 <=> S = {})
            BY <5>1, FS_CardinalityType, FS_EmptySet
          <6>2. \A R \in SUBSET S : Cardinality(R) = 0 <=> R = {}
            BY <5>1, FS_Subset, FS_EmptySet
          <6>. QED  BY <6>1, <6>2 DEF RandomPeers
        <5>. QED  BY <5>1
      <4>4. mesh'[t] = {}
        <5>1. PICK F \in RandomPeers(MeshN,
                           {p \in fanout[t] : Graftable(t, p)}) :
              \E R \in RandomPeers(MeshN - Cardinality(F),
                         {p \in GossipPeers(t) : p \notin F /\ Graftable(t, p)}) :
                mesh' = [mesh EXCEPT ![t] = F \cup R]
          BY <1>1 DEF Subscribe
        <5>2. F = {} /\ Cardinality(F) = 0
          BY <4>2, FS_EmptySet, RandomPeersSubset
        <5>3. {p \in GossipPeers(t) : p \notin F /\ Graftable(t, p)} \subseteq Peers
          BY DEF TypeOK, GossipPeers
        <5>4. MeshN - Cardinality(F) = 0
          BY <5>2, <4>1
        <5>5. IsFiniteSet({p \in GossipPeers(t) : p \notin F /\ Graftable(t, p)})
          BY <5>3, FS_Subset, EnvironmentAssumption
        <5>6. RandomPeers(MeshN - Cardinality(F),
                {p \in GossipPeers(t) : p \notin F /\ Graftable(t, p)}) = {{}}
          BY <5>4, <5>5, <4>3
        <5>7. PICK R \in {{}} : mesh' = [mesh EXCEPT ![t] = F \cup R]
          BY <5>1, <5>6
        <5>8. F \cup R = {}
          BY <5>2
        <5>. QED  BY <5>7, <5>8 DEF TypeOK
      <4>. QED  BY <4>1, <4>4, <2>1 DEF TypeOK
    <3>. QED  BY <3>1, <3>2
  <2>. QED  BY <2>2, <2>3, <1>1 DEF Subscribe, TypeOK, boVars
<1>2. ASSUME NEW t \in Topics, Unsubscribe(t) PROVE TypeOK'
  BY <1>2 DEF TypeOK, Unsubscribe, UpdateBackoff, PruneBackoffs,
              NotifyHandlers, RequireConnection, fanVars
<1>3. ASSUME NEW t \in Topics, PublishToFanout(t) PROVE TypeOK'
  <2>1. PICK new : /\ new \subseteq GossipPeers(t)
                   /\ fanout' = [fanout EXCEPT ![t] = new]
    BY <1>3, RandomPeersSubset DEF PublishToFanout
  <2>2. new \subseteq Peers
    BY <2>1 DEF GossipPeers, TypeOK
  <2>. QED  BY <1>3, <2>1, <2>2 DEF TypeOK, PublishToFanout, meshVars, boVars
<1>4. ASSUME NEW p \in ExplicitCandidates,
             AddExplicitPeer(p) \/ RemoveExplicitPeer(p)
      PROVE  TypeOK'
  BY <1>4, EnvironmentAssumption
  DEF TypeOK, AddExplicitPeer, RemoveExplicitPeer, meshVars, boVars, fanVars
<1>. QED  BY <1>1, <1>2, <1>3, <1>4 DEF ApplicationStep

(* A heartbeat, the end of a backoff and a new score keep the types.       *)
LEMMA TypeClockStep ==
  ASSUME TypeOK, ClockStep PROVE TypeOK'
<1> USE DEF peerVars, topicVars
<1>1. CASE Heartbeat
  <2>1. PICK bo, grafts, prunes : HeartbeatMesh(bo, grafts, prunes)
    BY <1>1, HeartbeatEffect
  <2>2. /\ mesh' \in [Topics -> SUBSET Peers]
        /\ \A t \in Topics \ subscribed : mesh'[t] = mesh[t]
    BY <2>1, <1>1, HeartbeatEffect DEF HeartbeatMesh
  <2>3. /\ backoff' \subseteq Topics \X Peers /\ running' \subseteq backoff'
        /\ inMesh' \subseteq Conns
        /\ panic' \in BOOLEAN
    BY <2>1, FirstConnsType
    DEF HeartbeatMesh, SendGraftPrune, PruneBackoffs, NotifyHandlers, TypeOK
  <2>4. /\ fanoutTopics' \subseteq fanoutTopics
        /\ fanout' \in [Topics -> SUBSET Peers]
        /\ \A t \in Topics \ fanoutTopics' : fanout'[t] = {}
        /\ UNCHANGED <<peerVars, topicVars, explicit, subscribed, score>>
    BY <1>1 DEF Heartbeat
  <2>. QED  BY <2>2, <2>3, <2>4 DEF TypeOK
<1>2. CASE \E t \in Topics, p \in Peers : BackoffElapses(t, p)
  BY <1>2 DEF TypeOK, BackoffElapses, meshVars, fanVars
<1>3. CASE \E p \in Peers, s \in Scores : ScoreChanges(p, s)
  BY <1>3 DEF TypeOK, ScoreChanges, meshVars, fanVars, boVars
<1>. QED  BY <1>1, <1>2, <1>3 DEF ClockStep

(* Type correctness, for every configuration: the maps never get entries   *)
(* for peers or topics that do not exist, and a topic we are not           *)
(* subscribed to has no mesh.                                              *)
THEOREM TypeCorrect == Spec => []TypeOK
<1>1. Init => TypeOK
  <2>1. <<>> \in Seq(Conns)
    BY EmptySeq
  <2>2. Init => /\ conns \in [Peers -> Seq(Conns)]
                /\ score \in [Peers -> Scores]
    BY <2>1, EnvironmentAssumption DEF Init
  <2>3. Init => backoff \subseteq Topics \X Peers /\ running \subseteq backoff
    BY DEF Init
  <2>. QED  BY <2>2, <2>3 DEF Init, TypeOK
<1>2. TypeOK /\ [Next]_vars => TypeOK'
  <2> SUFFICES ASSUME TypeOK, [Next]_vars PROVE TypeOK'
    OBVIOUS
  <2>1. CASE UNCHANGED vars
    BY <2>1 DEF TypeOK, vars, peerVars, topicVars, meshVars, fanVars, boVars
  <2>2. CASE Next
    BY <2>2, TypeSwarmStep, TypeRpcStep, TypeApplicationStep, TypeClockStep
    DEF Next
  <2>. QED  BY <2>1, <2>2
<1>. QED  BY <1>1, <1>2, PTL DEF Spec

(***************************************************************************)
(* The peer and topic maps.                                                *)
(***************************************************************************)

(* A connection that opens or closes changes only whether its own peer is  *)
(* connected: a first one connects it, a last one disconnects it.          *)
LEMMA ConnectedSwarmStep ==
  ASSUME TypeOK, NEW p \in Peers
  PROVE  /\ \A c \in Conns, dialer \in BOOLEAN :
              ConnectionEstablished(p, c, dialer) => Connected' = Connected \cup {p}
         /\ \A i \in 1..Len(conns[p]) :
              OneConnectionClosed(p, i) => Connected' = Connected
         /\ LastConnectionClosed(p) =>
              Connected' = Connected \ {p} /\ p \in Connected
<1>0. conns[p] \in Seq(Conns)
  BY DEF TypeOK
<1>1. ASSUME NEW c \in Conns, NEW dialer \in BOOLEAN,
             ConnectionEstablished(p, c, dialer)
      PROVE  Connected' = Connected \cup {p}
  <2>1. conns' = [conns EXCEPT ![p] = Append(conns[p], c)]
    BY <1>1 DEF ConnectionEstablished
  <2>2. Append(conns[p], c) # <<>>
    BY <1>0, AppendProperties
  <2>. QED  BY <2>1, <2>2 DEF Connected, TypeOK
<1>2. ASSUME NEW i \in 1..Len(conns[p]), OneConnectionClosed(p, i)
      PROVE  Connected' = Connected
  <2> DEFINE rest == RemoveAt(conns[p], i)
  <2>1. rest \in Seq(Conns) /\ Len(rest) = Len(conns[p]) - 1
    BY <1>0, RemoveAtSeq
  <2>2. Len(conns[p]) > 1 /\ Len(conns[p]) \in Nat
    BY <1>0, <1>2, LenProperties DEF OneConnectionClosed, HandOver
  <2>3. rest # <<>> /\ conns[p] # <<>>
    BY <1>0, <2>1, <2>2, EmptySeq
  <2>4. conns' = [conns EXCEPT ![p] = rest]
    BY <1>2 DEF OneConnectionClosed, HandOver
  <2> HIDE DEF rest
  <2>. QED  BY <2>3, <2>4 DEF Connected, TypeOK
<1>3. ASSUME LastConnectionClosed(p)
      PROVE  Connected' = Connected \ {p} /\ p \in Connected
  <2>1. conns[p] # <<>>
    BY <1>0, <1>3, EmptySeq DEF LastConnectionClosed, ForgetPeer
  <2>. QED  BY <1>3, <2>1 DEF LastConnectionClosed, ForgetPeer, Connected, TypeOK
<1>. QED  BY <1>1, <1>2, <1>3

(* A step that leaves the connections alone leaves Connected alone.        *)
LEMMA ConnectedUnchanged ==
  UNCHANGED conns => Connected' = Connected
BY DEF Connected

MapsInv == KnownIffConnected /\ SubscriptionIndex

(* Every step keeps peer_topics, topic_peers and the connections in        *)
(* agreement.                                                              *)
LEMMA MapsStep ==
  ASSUME TypeOK, TypeOK', MapsInv, [Next]_vars PROVE MapsInv'
<1> USE DEF MapsInv, KnownIffConnected, SubscriptionIndex
<1>1. ASSUME UNCHANGED <<conns, known, peerTopics, topicPeers>> PROVE MapsInv'
  BY <1>1, ConnectedUnchanged
<1>2. ASSUME NEW p \in Peers, SwarmStep(p) PROVE MapsInv'
  <2>1. ASSUME NEW c \in Conns, NEW dialer \in BOOLEAN,
               ConnectionEstablished(p, c, dialer)
        PROVE  MapsInv'
    <3>1. Connected' = Connected \cup {p}
      BY <2>1, ConnectedSwarmStep
    <3>2. CASE conns[p] = <<>>
      <4>1. /\ known' = known \cup {p} /\ topicPeers' = topicPeers
            /\ peerTopics' = [peerTopics EXCEPT ![p] = {}]
        BY <2>1, <3>2 DEF ConnectionEstablished
      <4>2. p \notin known
        BY <3>2 DEF Connected
      <4>3. peerTopics[p] = {} /\ peerTopics' = peerTopics
        BY <4>1, <4>2 DEF TypeOK
      <4>. QED  BY <4>1, <4>3, <3>1
    <3>3. CASE conns[p] # <<>>
      BY <2>1, <3>1, <3>3 DEF ConnectionEstablished, Connected, TypeOK
    <3>. QED  BY <3>2, <3>3
  <2>2. ASSUME NEW i \in 1..Len(conns[p]), OneConnectionClosed(p, i)
        PROVE  MapsInv'
    <3>1. Connected' = Connected
      BY <2>2, ConnectedSwarmStep
    <3>. QED  BY <2>2, <3>1 DEF OneConnectionClosed, HandOver, topicVars
  <2>3. ASSUME LastConnectionClosed(p) PROVE MapsInv'
    <3>1. Connected' = Connected \ {p}
      BY <2>3, ConnectedSwarmStep
    <3>. QED  BY <2>3, <3>1 DEF LastConnectionClosed, ForgetPeer, TypeOK
  <2>4. ASSUME NEW k \in PeerKinds, PeerKind(p, k) PROVE MapsInv'
    BY <2>4, <1>1 DEF PeerKind, topicVars
  <2>. QED  BY <1>2, <2>1, <2>2, <2>3, <2>4 DEF SwarmStep
<1>3. ASSUME NEW p \in Peers, RpcStep(p) PROVE MapsInv'
  <2>1. ASSUME NEW sub \in SUBSET Topics, NEW unsub \in SUBSET Topics,
               HandleSubscriptions(p, sub, unsub)
        PROVE  MapsInv'
    BY <2>1, ConnectedUnchanged DEF HandleSubscriptions, TypeOK, peerVars
  <2>2. ASSUME NEW ts \in SUBSET Topics, HandleGraft(p, ts) PROVE MapsInv'
    BY <2>2, ConnectedUnchanged DEF HandleGraft, GraftRefused, TypeOK, peerVars
  <2>3. ASSUME NEW ts \in SUBSET Topics, NEW px \in SUBSET Peers,
               HandlePrune(p, ts, px)
        PROVE  MapsInv'
    BY <2>3, <1>1 DEF HandlePrune, topicVars
  <2>. QED  BY <1>3, <2>1, <2>2, <2>3 DEF RpcStep
<1>4. CASE ApplicationStep
  BY <1>1, <1>4 DEF ApplicationStep, Subscribe, Unsubscribe, PublishToFanout,
                    AddExplicitPeer, RemoveExplicitPeer, peerVars, topicVars
<1>5. CASE ClockStep
  BY <1>1, <1>5 DEF ClockStep, Heartbeat, BackoffElapses, ScoreChanges,
                    peerVars, topicVars
<1>6. CASE UNCHANGED vars
  BY <1>1, <1>6 DEF vars, peerVars, topicVars
<1>. QED  BY <1>2, <1>3, <1>4, <1>5, <1>6 DEF Next

(* Whatever the order of connections, closings, subscriptions and GRAFTs,  *)
(* peer_topics has an entry exactly for the connected peers, and           *)
(* peer_topics and topic_peers are inverse to each other.                  *)
THEOREM MapsAgree == Spec => [](KnownIffConnected /\ SubscriptionIndex)
<1>1. Init => MapsInv
  BY DEF Init, MapsInv, KnownIffConnected, SubscriptionIndex, Connected
<1>2. TypeOK /\ TypeOK' /\ MapsInv /\ [Next]_vars => MapsInv'
  BY MapsStep
<1>. QED  BY <1>1, <1>2, TypeCorrect, PTL DEF Spec, MapsInv

(***************************************************************************)
(* The meshes, with flood publishing (the default).                        *)
(***************************************************************************)

(* The inductive invariant: without a fanout, JOIN only adds peers that    *)
(* topic_peers knows, so every mesh peer is recorded under the topic.      *)
MeshInv ==
  /\ fanoutTopics = {}
  /\ MeshSubscribed
  /\ NoPanic

(* A peer recorded under a topic has a connection.                         *)
LEMMA SubscriberConnected ==
  ASSUME TypeOK, MapsInv, NEW t \in Topics
  PROVE  /\ \A p \in topicPeers[t] : p \in Connected /\ t \in peerTopics[p]
         /\ \A p \in GossipPeers(t) : p \in Connected /\ t \in peerTopics[p]
         /\ MeshSubscribed => mesh[t] \subseteq Connected
BY DEF TypeOK, MapsInv, KnownIffConnected, SubscriptionIndex, GossipPeers,
       MeshSubscribed

(* Connection events keep mesh peers recorded and cause no panic.          *)
LEMMA MeshSwarmStep ==
  ASSUME TypeOK, MapsInv, MeshInv, NEW p \in Peers, SwarmStep(p) PROVE MeshInv'
<1> USE DEF MeshInv, MeshSubscribed, NoPanic
<1>1. ASSUME NEW c \in Conns, NEW dialer \in BOOLEAN,
             ConnectionEstablished(p, c, dialer)
      PROVE  MeshInv'
  <2>1. UNCHANGED <<fanoutTopics, mesh, panic>>
    BY <1>1 DEF ConnectionEstablished, meshVars, fanVars
  <2>2. peerTopics' = peerTopics
    <3>1. CASE conns[p] = <<>>
      <4>1. peerTopics[p] = {} /\ peerTopics' = [peerTopics EXCEPT ![p] = {}]
        BY <1>1, <3>1 DEF ConnectionEstablished, MapsInv, KnownIffConnected,
                          Connected
      <4>. QED  BY <4>1 DEF TypeOK
    <3>2. CASE conns[p] # <<>>
      BY <1>1, <3>2 DEF ConnectionEstablished
    <3>. QED  BY <3>1, <3>2
  <2>. QED  BY <2>1, <2>2
<1>2. ASSUME NEW i \in 1..Len(conns[p]), OneConnectionClosed(p, i)
      PROVE  MeshInv'
  BY <1>2 DEF OneConnectionClosed, HandOver, topicVars, meshVars, fanVars
<1>3. ASSUME LastConnectionClosed(p) PROVE MeshInv'
  <2>1. p \in known
    BY <1>3, ConnectedSwarmStep DEF MapsInv, KnownIffConnected
  <2>. QED  BY <1>3, <2>1 DEF LastConnectionClosed, ForgetPeer, TypeOK
<1>4. ASSUME NEW k \in PeerKinds, PeerKind(p, k) PROVE MeshInv'
  BY <1>4 DEF PeerKind, topicVars, meshVars, fanVars
<1>. QED  BY <1>1, <1>2, <1>3, <1>4 DEF SwarmStep

(* Received RPCs keep mesh peers recorded and cause no panic.              *)
LEMMA MeshRpcStep ==
  ASSUME TypeOK, MapsInv, MeshInv, NEW p \in Peers, RpcStep(p) PROVE MeshInv'
<1> USE DEF MeshInv, MeshSubscribed, NoPanic, fanVars
<1>1. ASSUME NEW sub \in SUBSET Topics, NEW unsub \in SUBSET Topics,
             HandleSubscriptions(p, sub, unsub)
      PROVE  MeshInv'
  BY <1>1 DEF HandleSubscriptions, TypeOK
<1>2. ASSUME NEW ts \in SUBSET Topics, HandleGraft(p, ts) PROVE MeshInv'
  BY <1>2 DEF HandleGraft, GraftRefused, TypeOK
<1>3. ASSUME NEW ts \in SUBSET Topics, NEW px \in SUBSET Peers,
             HandlePrune(p, ts, px)
      PROVE  MeshInv'
  BY <1>3 DEF HandlePrune, TypeOK, topicVars
<1>. QED  BY <1>1, <1>2, <1>3 DEF RpcStep

(* JOIN and LEAVE keep mesh peers recorded and cause no panic, as long as  *)
(* no topic has a fanout.                                                  *)
LEMMA MeshApplicationStep ==
  ASSUME FloodPublish, TypeOK, MapsInv, MeshInv, ApplicationStep PROVE MeshInv'
<1> USE DEF MeshInv, MeshSubscribed, NoPanic
<1>1. ASSUME NEW t \in Topics, Subscribe(t) PROVE MeshInv'
  <2>1. PICK added \in SUBSET Peers :
          /\ \A p \in added : p \in fanout[t] \/ p \in GossipPeers(t)
          /\ mesh' = [mesh EXCEPT ![t] = added]
          /\ RequireConnection(added)
    BY <1>1, JoinedPeers
  <2>2. \A p \in added : p \in Connected /\ t \in peerTopics[p]
    BY <2>1, SubscriberConnected DEF TypeOK
  <2>3. panic' = FALSE
    BY <2>1, <2>2 DEF RequireConnection
  <2>. QED  BY <1>1, <2>1, <2>2, <2>3 DEF Subscribe, TypeOK, topicVars
<1>2. ASSUME NEW t \in Topics, Unsubscribe(t) PROVE MeshInv'
  BY <1>2, SubscriberConnected
  DEF Unsubscribe, RequireConnection, TypeOK, topicVars, fanVars
<1>3. ASSUME NEW t \in Topics PROVE ~PublishToFanout(t)
  BY DEF PublishToFanout
<1>4. ASSUME NEW p \in ExplicitCandidates,
             AddExplicitPeer(p) \/ RemoveExplicitPeer(p)
      PROVE  MeshInv'
  BY <1>4 DEF AddExplicitPeer, RemoveExplicitPeer, topicVars, meshVars, fanVars
<1>. QED  BY <1>1, <1>2, <1>3, <1>4 DEF ApplicationStep

(* A heartbeat keeps mesh peers recorded and causes no panic, as long as   *)
(* retain_scores does not exceed an overfull mesh.                         *)
LEMMA MeshHeartbeat ==
  ASSUME RetainScores <= MeshNHigh + 1, TypeOK, MapsInv, MeshInv, Heartbeat
  PROVE  MeshInv'
<1>1. PICK bo, grafts, prunes : HeartbeatMesh(bo, grafts, prunes)
  BY HeartbeatEffect
<1>2. \A t \in Topics, p \in Peers :
        <<t, p>> \in grafts \cup prunes => p \in Connected /\ t \in peerTopics[p]
  BY <1>1, SubscriberConnected
  DEF HeartbeatMesh, MeshInv, MeshSubscribed, TypeOK
<1>3. MeshSubscribed'
  <2>1. UNCHANGED peerTopics
    BY DEF Heartbeat, topicVars
  <2>. QED  BY <1>1, <1>2, <2>1
            DEF HeartbeatMesh, MeshInv, MeshSubscribed, TypeOK
<1>4. ~RetainOutOfRange
  <2> SUFFICES ASSUME NEW t \in subscribed
               PROVE  LET n == Cardinality(Kept(mesh[t]))
                      IN ~(n > MeshNHigh /\ n < RetainScores)
    BY DEF RetainOutOfRange
  <2>1. Kept(mesh[t]) \subseteq Peers
    BY DEF Kept, TypeOK
  <2>2. Cardinality(Kept(mesh[t])) \in Nat
    BY <2>1, FS_Subset, FS_CardinalityType, EnvironmentAssumption
  <2>. QED  BY <2>2, ConfigAssumption
<1>5. {x[2] : x \in grafts \cup prunes} \subseteq Connected
  BY <1>1, <1>2 DEF HeartbeatMesh
<1>6. panic' = FALSE
  BY <1>1, <1>4, <1>5 DEF HeartbeatMesh, SendGraftPrune
<1>7. fanoutTopics' = {}
  BY DEF Heartbeat, MeshInv
<1>. QED  BY <1>3, <1>6, <1>7 DEF MeshInv, NoPanic

(* Every step keeps the invariant of the mesh bookkeeping.                 *)
LEMMA MeshStep ==
  ASSUME FloodPublish, RetainScores <= MeshNHigh + 1,
         TypeOK, MapsInv, MeshInv, [Next]_vars
  PROVE  MeshInv'
<1> USE DEF MeshInv, MeshSubscribed, NoPanic
<1>1. CASE UNCHANGED vars
  BY <1>1 DEF vars, topicVars, meshVars, fanVars
<1>2. CASE \E t \in Topics, p \in Peers : BackoffElapses(t, p)
  BY <1>2 DEF BackoffElapses, topicVars, meshVars, fanVars
<1>3. CASE \E p \in Peers, s \in Scores : ScoreChanges(p, s)
  BY <1>3 DEF ScoreChanges, topicVars, meshVars, fanVars
<1>. QED  BY <1>1, <1>2, <1>3, MeshSwarmStep, MeshRpcStep,
             MeshApplicationStep, MeshHeartbeat DEF Next, ClockStep

(* With flood publishing and retain_scores at most mesh_n_high + 1, every  *)
(* mesh peer is recorded under the topic, hence connected, and no assert!  *)
(* or expect of the mesh bookkeeping fails, in any interleaving of         *)
(* connections, RPCs, application calls and heartbeats.                    *)
THEOREM MeshBookkeeping ==
  ASSUME FloodPublish, RetainScores <= MeshNHigh + 1
  PROVE  Spec => [](MeshSubscribed /\ NoPanic)
<1>1. Init => MeshInv
  BY DEF Init, MeshInv, MeshSubscribed, NoPanic
<1>2. TypeOK /\ MapsInv /\ MeshInv /\ [Next]_vars => MeshInv'
  BY MeshStep
<1>3. Spec => []MapsInv
  BY MapsAgree DEF MapsInv
<1>4. MeshInv => MeshSubscribed /\ NoPanic
  BY DEF MeshInv
<1>. QED  BY <1>1, <1>2, <1>3, <1>4, TypeCorrect, PTL DEF Spec

(***************************************************************************)
(* Backoffs and explicit peers.                                            *)
(***************************************************************************)

BackoffInv == explicit = {} /\ BackoffRespected

(* Every step keeps peers with a running backoff out of the mesh.          *)
LEMMA BackoffStep ==
  ASSUME ExplicitCandidates = {}, TypeOK, BackoffInv, [Next]_vars
  PROVE  BackoffInv'
<1> USE DEF BackoffInv, BackoffRespected
<1>1. ASSUME UNCHANGED explicit, running' \subseteq running,
             \A t \in Topics : mesh'[t] \subseteq mesh[t]
      PROVE  BackoffInv'
  BY <1>1
<1>2. ASSUME NEW p \in Peers, SwarmStep(p) PROVE BackoffInv'
  BY <1>1, <1>2
  DEF SwarmStep, ConnectionEstablished, OneConnectionClosed, HandOver,
      LastConnectionClosed, ForgetPeer, PeerKind, TypeOK, meshVars, boVars
<1>3. ASSUME NEW p \in Peers, RpcStep(p) PROVE BackoffInv'
  <2>1. ASSUME NEW sub \in SUBSET Topics, NEW unsub \in SUBSET Topics,
               HandleSubscriptions(p, sub, unsub)
        PROVE  BackoffInv'
    BY <2>1 DEF HandleSubscriptions, UpdateBackoff, Graftable, TypeOK
  <2>2. ASSUME NEW ts \in SUBSET Topics, HandleGraft(p, ts) PROVE BackoffInv'
    BY <2>2 DEF HandleGraft, GraftRefused, UpdateBackoff, PruneBackoffs, TypeOK
  <2>3. ASSUME NEW ts \in SUBSET Topics, NEW px \in SUBSET Peers,
               HandlePrune(p, ts, px)
        PROVE  BackoffInv'
    BY <2>3 DEF HandlePrune, UpdateBackoff, TypeOK
  <2>. QED  BY <1>3, <2>1, <2>2, <2>3 DEF RpcStep
<1>4. CASE ApplicationStep
  <2>1. ASSUME NEW t \in Topics, Subscribe(t) PROVE BackoffInv'
    <3>1. PICK added \in SUBSET Peers :
            /\ \A p \in added : Graftable(t, p)
            /\ mesh' = [mesh EXCEPT ![t] = added]
      BY <2>1, JoinedPeers
    <3>. QED  BY <2>1, <3>1 DEF Subscribe, Graftable, TypeOK, boVars
  <2>2. ASSUME NEW t \in Topics, Unsubscribe(t) PROVE BackoffInv'
    BY <2>2 DEF Unsubscribe, UpdateBackoff, PruneBackoffs, TypeOK
  <2>3. ASSUME NEW t \in Topics, PublishToFanout(t) PROVE BackoffInv'
    BY <2>3, <1>1 DEF PublishToFanout, meshVars, boVars
  <2>. QED  BY <1>4, <2>1, <2>2, <2>3 DEF ApplicationStep
<1>5. CASE Heartbeat
  <2>1. PICK bo, grafts, prunes : HeartbeatMesh(bo, grafts, prunes)
    BY <1>5, HeartbeatEffect
  <2>2. running' \subseteq running \cup prunes /\ UNCHANGED explicit
    BY <1>5, <2>1 DEF HeartbeatMesh, SendGraftPrune, PruneBackoffs, Heartbeat
  <2>. QED  BY <2>1, <2>2 DEF HeartbeatMesh, TypeOK
<1>6. CASE \E t \in Topics, p \in Peers : BackoffElapses(t, p)
  BY <1>1, <1>6 DEF BackoffElapses, meshVars
<1>7. CASE \E p \in Peers, s \in Scores : ScoreChanges(p, s)
  BY <1>1, <1>7 DEF ScoreChanges, meshVars, boVars
<1>8. CASE UNCHANGED vars
  BY <1>1, <1>8 DEF vars, meshVars, boVars
<1>. QED  BY <1>2, <1>3, <1>4, <1>5, <1>6, <1>7, <1>8 DEF Next, ClockStep

(* Unless the application uses explicit peers, no peer is in the mesh of a *)
(* topic while its backoff for that topic runs: not through JOIN, not      *)
(* through its own SUBSCRIBE or GRAFT, not through a heartbeat, even one   *)
(* that prunes and grafts in the same pass.                                *)
THEOREM BackoffsRespected ==
  ASSUME ExplicitCandidates = {}
  PROVE  Spec => []BackoffRespected
<1>1. Init => BackoffInv
  BY DEF Init, BackoffInv, BackoffRespected
<1>2. TypeOK /\ BackoffInv /\ [Next]_vars => BackoffInv'
  BY BackoffStep
<1>3. BackoffInv => BackoffRespected
  BY DEF BackoffInv
<1>. QED  BY <1>1, <1>2, <1>3, TypeCorrect, PTL DEF Spec

(* What ExplicitNeverGrafted says of a step.                               *)
LEMMA ExplicitStep ==
  ASSUME TypeOK, [Next]_vars, NEW t \in Topics, NEW q \in explicit, q \in mesh'[t]
  PROVE  q \in mesh[t]
<1>1. ASSUME \A u \in Topics : mesh'[u] \subseteq mesh[u] PROVE q \in mesh[t]
  BY <1>1
<1>2. ASSUME NEW p \in Peers, SwarmStep(p) PROVE q \in mesh[t]
  <2>1. CASE LastConnectionClosed(p)
    BY <2>1 DEF LastConnectionClosed, ForgetPeer
  <2>. QED  BY <1>1, <1>2, <2>1
            DEF SwarmStep, ConnectionEstablished, OneConnectionClosed, HandOver,
                PeerKind, meshVars
<1>3. ASSUME NEW p \in Peers, RpcStep(p) PROVE q \in mesh[t]
  <2>1. ASSUME NEW sub \in SUBSET Topics, NEW unsub \in SUBSET Topics,
               HandleSubscriptions(p, sub, unsub)
        PROVE  q \in mesh[t]
    BY <2>1 DEF HandleSubscriptions, Graftable
  <2>2. ASSUME NEW ts \in SUBSET Topics, HandleGraft(p, ts) PROVE q \in mesh[t]
    BY <2>2 DEF HandleGraft, GraftRefused
  <2>3. ASSUME NEW ts \in SUBSET Topics, NEW px \in SUBSET Peers,
               HandlePrune(p, ts, px)
        PROVE  q \in mesh[t]
    BY <2>3 DEF HandlePrune
  <2>. QED  BY <1>3, <2>1, <2>2, <2>3 DEF RpcStep
<1>4. CASE ApplicationStep
  <2>1. ASSUME NEW u \in Topics, Subscribe(u) PROVE q \in mesh[t]
    <3>1. PICK added \in SUBSET Peers :
            /\ \A p \in added : Graftable(u, p)
            /\ mesh' = [mesh EXCEPT ![u] = added]
      BY <2>1, JoinedPeers
    <3>. QED  BY <3>1 DEF Graftable, TypeOK
  <2>. QED  BY <1>1, <1>4, <2>1
            DEF ApplicationStep, Unsubscribe, PublishToFanout,
                AddExplicitPeer, RemoveExplicitPeer, TypeOK, meshVars
<1>5. CASE Heartbeat
  <2>1. PICK bo, grafts, prunes : HeartbeatMesh(bo, grafts, prunes)
    BY <1>5, HeartbeatEffect
  <2>. QED  BY <2>1 DEF HeartbeatMesh, TypeOK
<1>6. CASE UNCHANGED mesh
  BY <1>6
<1>. QED  BY <1>2, <1>3, <1>4, <1>5, <1>6
          DEF Next, ClockStep, BackoffElapses, ScoreChanges, vars, meshVars

(* No step adds an explicit peer to a mesh, fanout or not.                 *)
THEOREM ExplicitPeersStayOut == Spec => ExplicitNeverGrafted
<1>1. TypeOK /\ [Next]_vars =>
        [\A t \in Topics : \A p \in explicit : p \in mesh'[t] => p \in mesh[t]]_vars
  BY ExplicitStep
<1>. QED  BY <1>1, TypeCorrect, PTL DEF Spec, ExplicitNeverGrafted

(***************************************************************************)
(* Connections kept alive for the mesh.                                    *)
(***************************************************************************)

(* It is enough that JoinedMesh goes to mesh peers only, and LeftMesh to   *)
(* every peer that leaves its last mesh.                                   *)
LEMMA Notifications ==
  ASSUME NoStaleKeepAlive, UNCHANGED conns,
         NEW joined, NEW left, NotifyHandlers(joined, left),
         \A p \in joined : InSomeMesh(p)',
         \A p \in Peers : InSomeMesh(p) /\ ~InSomeMesh(p)' => p \in left
  PROVE  NoStaleKeepAlive'
<1> SUFFICES ASSUME NEW c \in inMesh'
             PROVE  \E p \in Connected : c = FirstConn(p) /\ InSomeMesh(p)'
  BY DEF NoStaleKeepAlive, InSomeMesh, Connected, FirstConn
<1>1. c \in inMesh \cup FirstConns(joined) /\ c \notin FirstConns(left)
  BY DEF NotifyHandlers
<1>2. CASE c \in FirstConns(joined)
  BY <1>2 DEF FirstConns
<1>3. CASE c \in inMesh
  <2>1. PICK p \in Connected : c = FirstConn(p) /\ InSomeMesh(p)
    BY <1>3 DEF NoStaleKeepAlive, InSomeMesh
  <2>2. p \notin left
    BY <1>1, <2>1 DEF FirstConns
  <2>. QED  BY <2>1, <2>2 DEF Connected
<1>. QED  BY <1>1, <1>2, <1>3

(* Connection events leave no stale keep-alive: the flag of a closed       *)
(* connection goes with it, or moves to the connection that is now first.  *)
LEMMA KeepAliveSwarmStep ==
  ASSUME TypeOK, NoStaleKeepAlive, NEW p \in Peers, SwarmStep(p)
  PROVE  NoStaleKeepAlive'
<1>0. conns[p] \in Seq(Conns) /\ Len(conns[p]) \in Nat
  BY LenProperties DEF TypeOK
<1>1. ASSUME NEW c \in Conns, NEW dialer \in BOOLEAN,
             ConnectionEstablished(p, c, dialer)
      PROVE  NoStaleKeepAlive'
  <2>1. UNCHANGED <<mesh, inMesh>> /\ Connected \subseteq Connected'
    BY <1>1, ConnectedSwarmStep DEF ConnectionEstablished, meshVars
  <2>2. ASSUME NEW q \in Connected PROVE conns'[q][1] = conns[q][1]
    <3>1. conns' = [conns EXCEPT ![p] = Append(conns[p], c)]
      BY <1>1 DEF ConnectionEstablished
    <3>2. CASE q = p
      <4>1. 1 \in 1..Len(conns[p])
        BY <3>2, <1>0, EmptySeq DEF Connected
      <4>2. Append(conns[p], c)[1] = conns[p][1]
        BY <4>1, <1>0, AppendProperties
      <4>. QED  BY <3>1, <3>2, <4>2 DEF TypeOK
    <3>3. CASE q # p
      BY <3>1, <3>3 DEF TypeOK, Connected
    <3>. QED  BY <3>2, <3>3
  <2>. QED  BY <2>1, <2>2 DEF NoStaleKeepAlive, FirstConn
<1>2. ASSUME NEW i \in 1..Len(conns[p]), OneConnectionClosed(p, i)
      PROVE  NoStaleKeepAlive'
  <2> DEFINE rest == RemoveAt(conns[p], i)
  <2>1. /\ conns' = [conns EXCEPT ![p] = rest]
        /\ \/ inMesh' = inMesh \ {conns[p][i]}
           \/ /\ inMesh' = (inMesh \ {conns[p][i]}) \cup {rest[1]}
              /\ InOtherMesh(p, {}, mesh, peerTopics)
        /\ UNCHANGED mesh
    BY <1>2 DEF OneConnectionClosed, HandOver, meshVars
  <2>2. Connected' = Connected /\ p \in Connected
    <3>1. conns[p] # <<>>
      BY <1>0, <1>2, EmptySeq DEF OneConnectionClosed, HandOver
    <3>. QED  BY <3>1, <1>2, ConnectedSwarmStep DEF Connected
  <2>3. i # 1 => rest[1] = conns[p][1]
    <3>1. Len(conns[p]) > 1
      BY <1>2 DEF OneConnectionClosed, HandOver
    <3>2. 1 \in 1..(Len(conns[p]) - 1)
      BY <3>1, <1>0
    <3>. QED  BY <3>2, <1>0, RemoveAtSeq
  <2> HIDE DEF rest
  <2>4. ASSUME NEW c \in inMesh'
        PROVE  \E q \in Connected' : c = conns'[q][1] /\ InSomeMesh(q)
    <3>1. CASE c = rest[1] /\ InOtherMesh(p, {}, mesh, peerTopics)
      <4>1. conns'[p][1] = rest[1] /\ InSomeMesh(p)
        BY <3>1, <2>1 DEF TypeOK, InOtherMesh, InSomeMesh
      <4>. QED  BY <3>1, <4>1, <2>2
    <3>2. CASE c \in inMesh /\ c # conns[p][i]
      <4>1. PICK q \in Connected : c = conns[q][1] /\ InSomeMesh(q)
        BY <3>2 DEF NoStaleKeepAlive, FirstConn, InSomeMesh
      <4>2. conns'[q][1] = conns[q][1]
        <5>1. CASE q = p
          BY <5>1, <3>2, <4>1, <2>1, <2>3 DEF TypeOK
        <5>2. CASE q # p
          BY <5>2, <2>1 DEF TypeOK, Connected
        <5>. QED  BY <5>1, <5>2
      <4>. QED  BY <4>1, <4>2, <2>2
    <3>. QED  BY <3>1, <3>2, <2>1
  <2>. QED  BY <2>1, <2>4 DEF NoStaleKeepAlive, FirstConn, InSomeMesh
<1>3. ASSUME LastConnectionClosed(p) PROVE NoStaleKeepAlive'
  <2>1. Connected' = Connected \ {p} /\ p \in Connected
    BY <1>3, ConnectedSwarmStep
  <2>2. /\ inMesh' = inMesh \ {conns[p][1]}
        /\ conns' = [conns EXCEPT ![p] = <<>>]
        /\ \A t \in Topics : mesh[t] \subseteq mesh'[t] \cup {p}
    BY <1>3, <2>1 DEF LastConnectionClosed, ForgetPeer, FirstConns, FirstConn
  <2>3. ASSUME NEW c \in inMesh'
        PROVE  \E q \in Connected' : c = conns'[q][1] /\ InSomeMesh(q)'
    <3>1. PICK q \in Connected : c = conns[q][1] /\ InSomeMesh(q)
      BY <2>2 DEF NoStaleKeepAlive, FirstConn, InSomeMesh
    <3>2. q # p
      BY <3>1, <2>2
    <3>3. conns'[q] = conns[q] /\ InSomeMesh(q)'
      BY <3>1, <3>2, <2>2 DEF TypeOK, Connected, InSomeMesh
    <3>. QED  BY <3>1, <3>2, <3>3, <2>1
  <2>. QED  BY <2>3 DEF NoStaleKeepAlive, FirstConn, InSomeMesh
<1>4. ASSUME NEW k \in PeerKinds, PeerKind(p, k) PROVE NoStaleKeepAlive'
  BY <1>4 DEF PeerKind, meshVars, NoStaleKeepAlive, Connected, FirstConn
<1>. QED  BY <1>1, <1>2, <1>3, <1>4 DEF SwarmStep

(* Received RPCs leave no stale keep-alive: whoever leaves the last mesh   *)
(* is told.                                                                *)
LEMMA KeepAliveRpcStep ==
  ASSUME TypeOK, NoStaleKeepAlive, NEW p \in Peers, RpcStep(p)
  PROVE  NoStaleKeepAlive'
<1> USE DEF peerVars
<1>1. ASSUME NEW sub \in SUBSET Topics, NEW unsub \in SUBSET Topics,
             HandleSubscriptions(p, sub, unsub)
      PROVE  NoStaleKeepAlive'
  <2> DEFINE grafted ==
               {t \in sub \cap subscribed :
                  /\ IsGossipsub(p) /\ Graftable(t, p)
                  /\ Cardinality(mesh[t]) < MeshNLow /\ p \notin mesh[t]}
             removed == {t \in unsub : p \in mesh[t]}
  <2>1. /\ grafted \subseteq Topics /\ removed \subseteq Topics
        /\ grafted \cap removed = {}
        /\ mesh' = [t \in Topics |-> IF t \in grafted THEN mesh[t] \cup {p}
                                 ELSE IF t \in removed THEN mesh[t] \ {p}
                                 ELSE mesh[t]]
        /\ NotifyHandlers(
               {q \in {p} : grafted # {}
                            /\ ~InOtherMesh(p, grafted, mesh', peerTopics')},
               {q \in {p} : \E t \in removed :
                              ~InOtherMesh(p, {t}, mesh', peerTopics')})
    BY <1>1 DEF HandleSubscriptions
  <2> HIDE DEF grafted, removed
  <2> DEFINE joined == {q \in {p} : grafted # {}
                            /\ ~InOtherMesh(p, grafted, mesh', peerTopics')}
             left   == {q \in {p} : \E t \in removed :
                              ~InOtherMesh(p, {t}, mesh', peerTopics')}
  <2>2. \A q \in joined : InSomeMesh(q)'
    BY <2>1 DEF InSomeMesh
  <2>3. ASSUME NEW q \in Peers, InSomeMesh(q), ~InSomeMesh(q)'
        PROVE  q \in left
    <3>1. PICK t \in removed : q = p /\ p \in mesh[t]
      BY <2>1, <2>3 DEF InSomeMesh
    <3>2. ~InOtherMesh(p, {t}, mesh', peerTopics')
      <4>1. TypeOK'
        BY <1>1, TypeRpcStep DEF RpcStep
      <4>. QED  BY <3>1, <2>3, <4>1 DEF InOtherMesh, InSomeMesh, TypeOK
    <3>. QED  BY <3>1, <3>2
  <2>4. NotifyHandlers(joined, left) /\ UNCHANGED conns
    BY <1>1, <2>1 DEF HandleSubscriptions
  <2> HIDE DEF joined, left
  <2>. QED  BY <2>2, <2>3, <2>4, Notifications
<1>2. ASSUME NEW ts \in SUBSET Topics, HandleGraft(p, ts)
      PROVE  NoStaleKeepAlive'
  <2> DEFINE asked    == {t \in ts \cap subscribed : p \notin mesh[t]}
             refused  == {t \in asked : \/ <<t, p>> \in running
                                        \/ score[p] < 0
                                        \/ /\ Cardinality(mesh[t]) >= MeshNHigh
                                           /\ p \notin outbound}
             accepted == IF p \in explicit THEN {} ELSE asked \ refused
  <2>1. /\ accepted \subseteq Topics
        /\ mesh' = [t \in Topics |-> IF t \in accepted
                                     THEN mesh[t] \cup {p} ELSE mesh[t]]
        /\ NotifyHandlers(
             {q \in {p} : accepted # {}
                          /\ ~InOtherMesh(p, {}, mesh, peerTopics')}, {})
    BY <1>2 DEF HandleGraft, GraftRefused
  <2> HIDE DEF accepted
  <2> DEFINE joined == {q \in {p} : accepted # {}
                            /\ ~InOtherMesh(p, {}, mesh, peerTopics')}
  <2>2. \A q \in joined : InSomeMesh(q)'
    BY <2>1 DEF InSomeMesh
  <2>3. \A q \in Peers : InSomeMesh(q) => InSomeMesh(q)'
    BY <2>1 DEF InSomeMesh
  <2>4. NotifyHandlers(joined, {}) /\ UNCHANGED conns
    BY <1>2, <2>1 DEF HandleGraft, GraftRefused
  <2> HIDE DEF joined
  <2>. QED  BY <2>2, <2>3, <2>4, Notifications
<1>3. ASSUME NEW ts \in SUBSET Topics, NEW px \in SUBSET Peers,
             HandlePrune(p, ts, px)
      PROVE  NoStaleKeepAlive'
  <2> DEFINE left == {q \in {p} : \E t \in ts : /\ p \in mesh[t]
                             /\ ~InOtherMesh(p, {t}, mesh', peerTopics)}
  <2>1. /\ mesh' = [t \in Topics |-> IF t \in ts THEN mesh[t] \ {p} ELSE mesh[t]]
        /\ NotifyHandlers({}, left)
        /\ UNCHANGED conns
    BY <1>3 DEF HandlePrune
  <2>2. ASSUME NEW q \in Peers, InSomeMesh(q), ~InSomeMesh(q)'
        PROVE  q \in left
    <3>1. PICK t \in ts : q = p /\ p \in mesh[t]
      BY <2>1, <2>2 DEF InSomeMesh
    <3>2. ~InOtherMesh(p, {t}, mesh', peerTopics)
      BY <3>1, <2>2 DEF InOtherMesh, InSomeMesh, TypeOK
    <3>. QED  BY <3>1, <3>2
  <2> HIDE DEF left
  <2>. QED  BY <2>1, <2>2, Notifications
<1>. QED  BY <1>1, <1>2, <1>3 DEF RpcStep

(* JOIN and LEAVE leave no stale keep-alive.                               *)
LEMMA KeepAliveApplicationStep ==
  ASSUME TypeOK, NoStaleKeepAlive, ApplicationStep PROVE NoStaleKeepAlive'
<1> USE DEF peerVars
<1>1. ASSUME NEW t \in Topics, Subscribe(t) PROVE NoStaleKeepAlive'
  <2>1. PICK added \in SUBSET Peers :
          /\ mesh' = [mesh EXCEPT ![t] = added]
          /\ NotifyHandlers({p \in added :
                              ~InOtherMesh(p, {t}, mesh', peerTopics)}, {})
    BY <1>1, JoinedPeers
  <2> DEFINE joined == {p \in added : ~InOtherMesh(p, {t}, mesh', peerTopics)}
  <2>2. \A q \in joined : InSomeMesh(q)'
    BY <2>1 DEF InSomeMesh, TypeOK
  <2>3. mesh[t] = {}
    BY <1>1 DEF Subscribe, TypeOK
  <2>4. \A q \in Peers : InSomeMesh(q) => InSomeMesh(q)'
    BY <2>1, <2>3 DEF InSomeMesh, TypeOK
  <2>5. NotifyHandlers(joined, {}) /\ UNCHANGED conns
    BY <1>1, <2>1 DEF Subscribe
  <2> HIDE DEF joined
  <2>. QED  BY <2>2, <2>4, <2>5, Notifications
<1>2. ASSUME NEW t \in Topics, Unsubscribe(t) PROVE NoStaleKeepAlive'
  <2> DEFINE left == {p \in mesh[t] : ~InOtherMesh(p, {t}, mesh', peerTopics)}
  <2>1. /\ mesh' = [mesh EXCEPT ![t] = {}]
        /\ NotifyHandlers({}, left) /\ UNCHANGED conns
    BY <1>2 DEF Unsubscribe
  <2>2. ASSUME NEW q \in Peers, InSomeMesh(q), ~InSomeMesh(q)'
        PROVE  q \in left
    <3>1. q \in mesh[t]
      BY <2>1, <2>2 DEF InSomeMesh, TypeOK
    <3>2. ~InOtherMesh(q, {t}, mesh', peerTopics)
      BY <2>2 DEF InOtherMesh, InSomeMesh, TypeOK
    <3>. QED  BY <3>1, <3>2
  <2> HIDE DEF left
  <2>. QED  BY <2>1, <2>2, Notifications
<1>3. CASE UNCHANGED <<conns, mesh, inMesh>>
  BY <1>3 DEF NoStaleKeepAlive, Connected, FirstConn
<1>. QED  BY <1>1, <1>2, <1>3
          DEF ApplicationStep, PublishToFanout, AddExplicitPeer,
              RemoveExplicitPeer, meshVars

(* A heartbeat leaves no stale keep-alive, although it is silent about     *)
(* prunes of peers that it also grafts.                                    *)
LEMMA KeepAliveHeartbeat ==
  ASSUME TypeOK, NoStaleKeepAlive, Heartbeat PROVE NoStaleKeepAlive'
<1>1. PICK bo, grafts, prunes : HeartbeatMesh(bo, grafts, prunes)
  BY HeartbeatEffect
<1> DEFINE grafted  == {x[2] : x \in grafts}
           alone(x) == ~InOtherMesh(x[2], {x[1]}, mesh', peerTopics)
           joined   == {x[2] : x \in {y \in grafts : alone(y)}}
           left     == {x[2] : x \in {y \in prunes : alone(y)}} \ grafted
<1>2. NotifyHandlers(joined, left) /\ UNCHANGED conns
  BY <1>1 DEF HeartbeatMesh, SendGraftPrune, Heartbeat, peerVars
<1>3. \A p \in grafted : InSomeMesh(p)'
  BY <1>1 DEF HeartbeatMesh, InSomeMesh
<1>4. \A p \in joined : InSomeMesh(p)'
  BY <1>3
<1>5. ASSUME NEW p \in Peers, InSomeMesh(p), ~InSomeMesh(p)'
      PROVE  p \in left
  <2>1. PICK t \in Topics : p \in mesh[t] /\ <<t, p>> \in prunes
    BY <1>1, <1>5 DEF HeartbeatMesh, InSomeMesh
  <2>2. alone(<<t, p>>)
    BY <1>5 DEF InOtherMesh, InSomeMesh, TypeOK
  <2>3. p \notin grafted
    BY <1>3, <1>5
  <2>4. <<t, p>> \in {y \in prunes : alone(y)} /\ <<t, p>>[2] = p
    BY <2>1, <2>2
  <2>. QED  BY <2>3, <2>4
<1> HIDE DEF joined, left
<1>. QED  BY <1>2, <1>4, <1>5, Notifications

(* In every configuration, a connection whose handler keeps it alive for   *)
(* the mesh is the first connection of a peer that is in some mesh: every  *)
(* path by which a peer leaves its last mesh tells the handler that was    *)
(* told last, and closing a connection hands the duty over.                *)
THEOREM KeepAlivesEnd == Spec => []NoStaleKeepAlive
<1>1. Init => NoStaleKeepAlive
  BY DEF Init, NoStaleKeepAlive
<1>2. TypeOK /\ NoStaleKeepAlive /\ [Next]_vars => NoStaleKeepAlive'
  <2> SUFFICES ASSUME TypeOK, NoStaleKeepAlive, [Next]_vars
               PROVE  NoStaleKeepAlive'
    OBVIOUS
  <2>1. CASE UNCHANGED <<conns, mesh, inMesh>>
    BY <2>1 DEF NoStaleKeepAlive, Connected, FirstConn
  <2>. QED  BY <2>1, KeepAliveSwarmStep, KeepAliveRpcStep,
               KeepAliveApplicationStep, KeepAliveHeartbeat
            DEF Next, ClockStep, BackoffElapses, ScoreChanges, vars,
                peerVars, meshVars
<1>. QED  BY <1>1, <1>2, TypeCorrect, PTL DEF Spec

(***************************************************************************)
(* The size of a mesh.                                                     *)
(***************************************************************************)

(* Removing peers from a mesh does not add to its inbound peers.           *)
LEMMA SmallerMesh ==
  ASSUME NEW A \in SUBSET Peers, NEW B \in SUBSET Peers, A \subseteq B,
         NEW n \in Nat, Cardinality(B) <= n
  PROVE  Cardinality(A) <= n
<1>1. IsFiniteSet(B)
  BY FS_Subset, EnvironmentAssumption
<1>2. Cardinality(A) \in Nat /\ Cardinality(B) \in Nat
      /\ Cardinality(A) <= Cardinality(B)
  BY <1>1, FS_Subset, FS_CardinalityType
<1>. QED  BY <1>2

(* Every step keeps the bound on the inbound peers of a mesh.              *)
LEMMA InboundStep ==
  ASSUME TypeOK, TypeOK', MapsInv, MeshInv, InboundBounded, [Next]_vars
  PROVE  InboundBounded'
<1>0. MeshNHigh \in Nat /\ MeshNLow <= MeshNHigh /\ MeshN <= MeshNHigh
      /\ MeshN \in Nat /\ MeshNLow \in Nat
  BY ConfigAssumption
<1>1. ASSUME \A t \in Topics :
                mesh'[t] \ outbound' \subseteq mesh[t] \ outbound
      PROVE  InboundBounded'
  BY <1>0, <1>1, SmallerMesh DEF InboundBounded, TypeOK
<1>2. ASSUME NEW t \in Topics, NEW p \in Peers, NEW n \in Nat, n <= MeshNHigh,
             Cardinality(mesh[t]) < n
      PROVE  Cardinality((mesh[t] \cup {p}) \ outbound) <= MeshNHigh
  <2>1. IsFiniteSet(mesh[t])
    BY FS_Subset, EnvironmentAssumption DEF TypeOK
  <2>2. Cardinality(mesh[t] \cup {p}) <= MeshNHigh
    <3>1. Cardinality(mesh[t]) \in Nat
      BY <2>1, FS_CardinalityType
    <3>2. \/ Cardinality(mesh[t] \cup {p}) = Cardinality(mesh[t])
          \/ Cardinality(mesh[t] \cup {p}) = Cardinality(mesh[t]) + 1
      BY <2>1, FS_AddElement
    <3>. QED  BY <3>1, <3>2, <1>0, <1>2
  <2>3. mesh[t] \cup {p} \in SUBSET Peers
    BY DEF TypeOK
  <2>. QED  BY <2>2, <2>3, <1>0, SmallerMesh
<1>3. ASSUME NEW p \in Peers, SwarmStep(p) PROVE InboundBounded'
  <2>1. CASE LastConnectionClosed(p)
    <3>1. \A t \in Topics : mesh'[t] \subseteq mesh[t] \ {p}
      BY <2>1 DEF LastConnectionClosed, ForgetPeer, MeshInv, MeshSubscribed, TypeOK
    <3>2. outbound' = outbound \ {p}
      BY <2>1 DEF LastConnectionClosed, ForgetPeer
    <3>. QED  BY <3>1, <3>2, <1>1
  <2>2. ASSUME NEW c \in Conns, NEW dialer \in BOOLEAN,
               ConnectionEstablished(p, c, dialer)
        PROVE  InboundBounded'
    <3>1. outbound \subseteq outbound' /\ UNCHANGED mesh
      BY <2>2 DEF ConnectionEstablished, meshVars
    <3>. QED  BY <3>1, <1>1
  <2>. QED  BY <1>1, <1>3, <2>1, <2>2
            DEF SwarmStep, OneConnectionClosed, HandOver, PeerKind, meshVars
<1>4. ASSUME NEW p \in Peers, RpcStep(p) PROVE InboundBounded'
  <2>0. UNCHANGED outbound
    BY <1>4 DEF RpcStep, HandleSubscriptions, HandleGraft, GraftRefused,
                HandlePrune, peerVars
  <2>1. ASSUME NEW sub \in SUBSET Topics, NEW unsub \in SUBSET Topics,
               HandleSubscriptions(p, sub, unsub), NEW t \in Topics
        PROVE  Cardinality(mesh'[t] \ outbound) <= MeshNHigh
    <3>1. \/ mesh'[t] \subseteq mesh[t]
          \/ mesh'[t] = mesh[t] \cup {p} /\ Cardinality(mesh[t]) < MeshNLow
      BY <2>1 DEF HandleSubscriptions
    <3>2. CASE mesh'[t] \subseteq mesh[t]
      BY <3>2, <1>0, SmallerMesh DEF InboundBounded, TypeOK
    <3>. QED  BY <3>1, <3>2, <1>0, <1>2
  <2>2. ASSUME NEW ts \in SUBSET Topics, HandleGraft(p, ts), NEW t \in Topics
        PROVE  Cardinality(mesh'[t] \ outbound) <= MeshNHigh
    <3>1. \/ mesh'[t] = mesh[t]
          \/ mesh'[t] = mesh[t] \cup {p} /\ p \in outbound
          \/ mesh'[t] = mesh[t] \cup {p} /\ ~(Cardinality(mesh[t]) >= MeshNHigh)
      BY <2>2 DEF HandleGraft, GraftRefused
    <3>2. CASE mesh'[t] \ outbound = mesh[t] \ outbound
      BY <3>2 DEF InboundBounded
    <3>3. Cardinality(mesh[t]) \in Nat
      BY FS_Subset, FS_CardinalityType, EnvironmentAssumption DEF TypeOK
    <3>4. CASE mesh'[t] = mesh[t] \cup {p} /\ ~(Cardinality(mesh[t]) >= MeshNHigh)
      <4>1. Cardinality(mesh[t]) < MeshNHigh /\ MeshNHigh <= MeshNHigh
        BY <3>3, <3>4, <1>0
      <4>. QED  BY <4>1, <3>4, <1>0, <1>2
    <3>. QED  BY <3>1, <3>2, <3>4
  <2>3. ASSUME NEW ts \in SUBSET Topics, NEW px \in SUBSET Peers,
               HandlePrune(p, ts, px)
        PROVE  InboundBounded'
    <3>1. \A t \in Topics : mesh'[t] \subseteq mesh[t]
      BY <2>3 DEF HandlePrune
    <3>. QED  BY <3>1, <2>0, <1>1
  <2>. QED  BY <1>4, <2>0, <2>1, <2>2, <2>3 DEF RpcStep, InboundBounded
<1>5. CASE ApplicationStep
  <2>0. UNCHANGED outbound
    BY <1>5 DEF ApplicationStep, Subscribe, Unsubscribe, PublishToFanout,
                AddExplicitPeer, RemoveExplicitPeer, peerVars
  <2>1. ASSUME NEW u \in Topics, Subscribe(u) PROVE InboundBounded'
    <3>1. PICK added \in SUBSET Peers : /\ Cardinality(added) <= MeshN
                                        /\ mesh' = [mesh EXCEPT ![u] = added]
      BY <2>1, JoinedPeers
    <3>2. Cardinality(added) <= MeshNHigh
      <4>1. Cardinality(added) \in Nat
        BY FS_Subset, FS_CardinalityType, EnvironmentAssumption
      <4>. QED  BY <3>1, <4>1, <1>0
    <3>3. Cardinality(added \ outbound) <= MeshNHigh
      BY <3>2, <1>0, SmallerMesh
    <3>. QED  BY <3>1, <3>3, <2>0 DEF InboundBounded, TypeOK
  <2>2. ASSUME NEW u \in Topics, Unsubscribe(u) PROVE InboundBounded'
    <3>1. \A t \in Topics : mesh'[t] \subseteq mesh[t]
      BY <2>2 DEF Unsubscribe, TypeOK
    <3>. QED  BY <3>1, <2>0, <1>1
  <2>. QED  BY <1>1, <1>5, <2>0, <2>1, <2>2
            DEF ApplicationStep, PublishToFanout, AddExplicitPeer,
                RemoveExplicitPeer, meshVars
<1>6. CASE Heartbeat
  <2>1. PICK bo, grafts, prunes : HeartbeatMesh(bo, grafts, prunes)
    BY <1>6, HeartbeatEffect
  <2>2. UNCHANGED outbound
    BY <1>6 DEF Heartbeat, peerVars
  <2>3. ASSUME NEW t \in Topics
        PROVE  Cardinality(mesh'[t] \ outbound) <= MeshNHigh
    <3>1. CASE mesh'[t] \ outbound \subseteq mesh[t]
      <4>1. /\ mesh'[t] \ outbound \subseteq mesh[t] \ outbound
            /\ mesh'[t] \ outbound \in SUBSET Peers
            /\ mesh[t] \ outbound \in SUBSET Peers
        BY <3>1 DEF TypeOK
      <4>. QED  BY <4>1, <1>0, SmallerMesh DEF InboundBounded
    <3>. QED  BY <3>1, <2>1 DEF HeartbeatMesh
  <2>. QED  BY <2>2, <2>3 DEF InboundBounded
<1>7. CASE UNCHANGED <<mesh, outbound>>
  BY <1>7 DEF InboundBounded
<1>. QED  BY <1>3, <1>4, <1>5, <1>6, <1>7
          DEF Next, ClockStep, BackoffElapses, ScoreChanges, vars, peerVars,
              meshVars

(* With flood publishing, the GRAFTs of others never bring more than       *)
(* mesh_n_high peers into a mesh beside the outbound ones, and nothing     *)
(* this node does itself does either.                                      *)
THEOREM MeshBounded ==
  ASSUME FloodPublish, RetainScores <= MeshNHigh + 1
  PROVE  Spec => []InboundBounded
<1>1. Init => InboundBounded /\ MeshInv
  <2>1. \A t \in Topics : Init => mesh[t] \ outbound = {}
    BY DEF Init
  <2>2. Init => InboundBounded
    BY <2>1, FS_EmptySet, ConfigAssumption DEF InboundBounded
  <2>. QED  BY <2>2 DEF Init, MeshInv, MeshSubscribed, NoPanic
<1>2. TypeOK /\ MapsInv /\ MeshInv /\ [Next]_vars => MeshInv'
  BY MeshStep
<1>3. TypeOK /\ TypeOK' /\ MapsInv /\ MeshInv /\ InboundBounded /\ [Next]_vars
        => InboundBounded'
  BY InboundStep
<1>4. Spec => []MapsInv
  BY MapsAgree DEF MapsInv
<1>. QED  BY <1>1, <1>2, <1>3, <1>4, TypeCorrect, PTL DEF Spec

(***************************************************************************)
(* Fanouts.                                                                *)
(***************************************************************************)

(* In every configuration, no topic has a mesh and a fanout at once: JOIN  *)
(* takes over the fanout it finds, publishing makes one only for a topic   *)
(* that is not joined, and nothing else adds to either.                    *)
THEOREM NeverBoth == Spec => []MeshOrFanout
<1>1. Init => MeshOrFanout
  BY DEF Init, MeshOrFanout
<1>2. TypeOK /\ MeshOrFanout /\ [Next]_vars => MeshOrFanout'
  <2> SUFFICES ASSUME MeshOrFanout, [Next]_vars PROVE MeshOrFanout'
    OBVIOUS
  <2> USE DEF MeshOrFanout
  <2>1. CASE UNCHANGED <<subscribed, fanoutTopics>>
    BY <2>1
  <2>2. ASSUME NEW p \in Peers, SwarmStep(p) \/ RpcStep(p)
        PROVE  MeshOrFanout'
    BY <2>1, <2>2
    DEF SwarmStep, RpcStep, ConnectionEstablished, OneConnectionClosed,
        LastConnectionClosed, PeerKind, HandleSubscriptions, HandleGraft,
        HandlePrune, meshVars, fanVars
  <2>3. CASE ApplicationStep
    <3>1. ASSUME NEW t \in Topics, Subscribe(t) PROVE MeshOrFanout'
      <4>1. subscribed' \subseteq subscribed \cup {t}
        BY <3>1 DEF Subscribe
      <4>2. fanoutTopics' = fanoutTopics \ {t}
        BY <3>1 DEF Subscribe
      <4>. QED  BY <4>1, <4>2
    <3>2. ASSUME NEW t \in Topics, Unsubscribe(t) PROVE MeshOrFanout'
      BY <3>2 DEF Unsubscribe, fanVars
    <3>3. ASSUME NEW t \in Topics, PublishToFanout(t) PROVE MeshOrFanout'
      BY <3>3 DEF PublishToFanout, meshVars
    <3>. QED  BY <2>1, <2>3, <3>1, <3>2, <3>3
              DEF ApplicationStep, AddExplicitPeer, RemoveExplicitPeer,
                  meshVars, fanVars
  <2>4. CASE ClockStep
    <3>1. CASE Heartbeat
      BY <3>1 DEF Heartbeat
    <3>. QED  BY <2>1, <2>4, <3>1
              DEF ClockStep, BackoffElapses, ScoreChanges, meshVars, fanVars
  <2>. QED  BY <2>1, <2>2, <2>3, <2>4 DEF Next, vars, meshVars, fanVars
<1>. QED  BY <1>1, <1>2, TypeCorrect, PTL DEF Spec

(***************************************************************************)
(* Keep-alives of mesh peers.                                              *)
(***************************************************************************)

(* No two connections have the same id.                                    *)
ConnsDistinct ==
  \A p, q \in Peers :
    \A i \in 1..Len(conns[p]), j \in 1..Len(conns[q]) :
      conns[p][i] = conns[q][j] => p = q /\ i = j

(* Ids are not reused while a connection is open, so events keep them      *)
(* apart.                                                                  *)
LEMMA ConnsDistinctStep ==
  ASSUME TypeOK, ConnsDistinct, [Next]_vars PROVE ConnsDistinct'
<1>0. \A p \in Peers : conns[p] \in Seq(Conns) /\ Len(conns[p]) \in Nat
  BY LenProperties DEF TypeOK
<1>1. CASE UNCHANGED conns
  BY <1>1 DEF ConnsDistinct
<1>2. ASSUME NEW p \in Peers, SwarmStep(p) PROVE ConnsDistinct'
  <2>1. ASSUME NEW c \in Conns, NEW dialer \in BOOLEAN,
               ConnectionEstablished(p, c, dialer)
        PROVE  ConnsDistinct'
    <3> DEFINE more == Append(conns[p], c)
    <3>1. /\ conns' = [conns EXCEPT ![p] = more]
          /\ c \notin OpenConns
      BY <2>1 DEF ConnectionEstablished
    <3>2. \A q \in Peers : \A i \in 1..Len(conns[q]) : conns[q][i] # c
      BY <3>1 DEF OpenConns
    <3>3. /\ Len(more) = Len(conns[p]) + 1
          /\ \A i \in 1..Len(conns[p]) : more[i] = conns[p][i]
          /\ more[Len(conns[p]) + 1] = c
      BY <1>0, AppendProperties
    <3> HIDE DEF more
    <3>4. \A q \in Peers : conns'[q] = IF q = p THEN more ELSE conns[q]
      BY <3>1 DEF TypeOK
    <3>5. \A i \in 1..Len(more) :
            i \in 1..Len(conns[p]) \/ i = Len(conns[p]) + 1
      BY <3>3, <1>0
    <3>6. ASSUME NEW i \in 1..Len(more), NEW j \in 1..Len(more),
                 more[i] = more[j]
          PROVE  i = j
      <4>1. \A k, l \in 1..Len(conns[p]) : conns[p][k] = conns[p][l] => k = l
        BY DEF ConnsDistinct
      <4>. QED  BY <4>1, <3>2, <3>3, <3>5, <3>6
    <3>7. ASSUME NEW q \in Peers, q # p, NEW i \in 1..Len(more),
                 NEW j \in 1..Len(conns[q])
          PROVE  more[i] # conns[q][j]
      BY <3>2, <3>3, <3>5, <3>7 DEF ConnsDistinct
    <3>8. ASSUME NEW q \in Peers, NEW r \in Peers,
                 NEW i \in 1..Len(conns'[q]), NEW j \in 1..Len(conns'[r]),
                 conns'[q][i] = conns'[r][j]
          PROVE  q = r /\ i = j
      <4>1. CASE q = p /\ r = p
        BY <4>1, <3>4, <3>6, <3>8
      <4>2. CASE q = p /\ r # p
        BY <4>2, <3>4, <3>7, <3>8
      <4>3. CASE q # p /\ r = p
        BY <4>3, <3>4, <3>7, <3>8
      <4>4. CASE q # p /\ r # p
        BY <4>4, <3>4, <3>8 DEF ConnsDistinct
      <4>. QED  BY <4>1, <4>2, <4>3, <4>4
    <3>. QED  BY <3>8 DEF ConnsDistinct
  <2>2. ASSUME NEW k \in 1..Len(conns[p]), OneConnectionClosed(p, k)
        PROVE  ConnsDistinct'
    <3> DEFINE rest == RemoveAt(conns[p], k)
               from(i) == IF i < k THEN i ELSE i + 1
    <3>1. conns' = [conns EXCEPT ![p] = rest]
      BY <2>2 DEF OneConnectionClosed
    <3>2. /\ Len(rest) = Len(conns[p]) - 1
          /\ \A i \in 1..(Len(conns[p]) - 1) : rest[i] = conns[p][from(i)]
      BY <1>0, RemoveAtSeq
    <3> HIDE DEF rest
    <3>3. \A i \in 1..Len(rest) : /\ from(i) \in 1..Len(conns[p])
                                  /\ rest[i] = conns[p][from(i)]
      BY <3>2, <1>0
    <3>4. \A i, j \in 1..Len(rest) : from(i) = from(j) => i = j
      BY <3>2, <1>0
    <3>5. \A q \in Peers : conns'[q] = IF q = p THEN rest ELSE conns[q]
      BY <3>1 DEF TypeOK
    <3> HIDE DEF from
    <3>6. /\ \A a, b \in 1..Len(conns[p]) : conns[p][a] = conns[p][b] => a = b
          /\ \A q \in Peers \ {p} : \A a \in 1..Len(conns[p]),
                                    b \in 1..Len(conns[q]) :
               conns[p][a] # conns[q][b]
      BY DEF ConnsDistinct
    <3>7. ASSUME NEW q \in Peers, NEW r \in Peers,
                 NEW i \in 1..Len(conns'[q]), NEW j \in 1..Len(conns'[r]),
                 conns'[q][i] = conns'[r][j]
          PROVE  q = r /\ i = j
      <4>1. CASE q = p /\ r = p
        <5>1. /\ i \in 1..Len(rest) /\ j \in 1..Len(rest)
              /\ rest[i] = rest[j]
          BY <4>1, <3>5, <3>7
        <5>2. from(i) = from(j)
          BY <5>1, <3>3, <3>6
        <5>. QED  BY <4>1, <5>1, <5>2, <3>4
      <4>2. CASE q = p /\ r # p
        <5>1. i \in 1..Len(rest) /\ rest[i] = conns[r][j]
          BY <4>2, <3>5, <3>7
        <5>. QED  BY <4>2, <5>1, <3>3, <3>5, <3>6
      <4>3. CASE q # p /\ r = p
        <5>1. j \in 1..Len(rest) /\ conns[q][i] = rest[j]
          BY <4>3, <3>5, <3>7
        <5>. QED  BY <4>3, <5>1, <3>3, <3>5, <3>6
      <4>4. CASE q # p /\ r # p
        BY <4>4, <3>5, <3>7 DEF ConnsDistinct
      <4>. QED  BY <4>1, <4>2, <4>3, <4>4
    <3>. QED  BY <3>7 DEF ConnsDistinct
  <2>3. ASSUME LastConnectionClosed(p) PROVE ConnsDistinct'
    <3>1. \A q \in Peers : conns'[q] = IF q = p THEN <<>> ELSE conns[q]
      BY <2>3 DEF LastConnectionClosed, TypeOK
    <3>2. 1..Len(<<>>) = {}
      OBVIOUS
    <3>. QED  BY <3>1, <3>2 DEF ConnsDistinct
  <2>. QED  BY <1>1, <1>2, <2>1, <2>2, <2>3 DEF SwarmStep, PeerKind
<1>3. ASSUME NEW p \in Peers, RpcStep(p) PROVE UNCHANGED conns
  BY <1>3 DEF RpcStep, HandleSubscriptions, HandleGraft, HandlePrune, peerVars
<1>4. ASSUME ApplicationStep PROVE UNCHANGED conns
  BY <1>4 DEF ApplicationStep, Subscribe, Unsubscribe, PublishToFanout,
              AddExplicitPeer, RemoveExplicitPeer, peerVars
<1>5. ASSUME ClockStep PROVE UNCHANGED conns
  BY <1>5 DEF ClockStep, Heartbeat, BackoffElapses, ScoreChanges, peerVars
<1>. QED  BY <1>1, <1>2, <1>3, <1>4, <1>5 DEF Next, vars, peerVars

(* A handler is told enough: a peer that is in a mesh after a step was in  *)
(* one before or is told now, and is not told that it left.                *)
LEMMA ToldEnough ==
  ASSUME TypeOK, ConnsDistinct, UNCHANGED conns, NEW q \in Peers, Informed(q),
         NEW joined, NEW left \in SUBSET Peers, NotifyHandlers(joined, left),
         q \in Connected /\ InSomeMesh(q)' =>
           (InSomeMesh(q) \/ q \in joined) /\ q \notin left
  PROVE  Informed(q)'
<1> SUFFICES ASSUME q \in Connected, InSomeMesh(q)'
             PROVE  FirstConn(q) \in inMesh'
  BY DEF Informed, FirstConn, Connected
<1>1. FirstConn(q) \in inMesh \cup FirstConns(joined)
  BY DEF Informed, FirstConns
<1>2. FirstConn(q) \notin FirstConns(left)
  <2> SUFFICES ASSUME NEW r \in left \cap Connected,
                      FirstConn(q) = FirstConn(r)
               PROVE  q = r
    BY DEF FirstConns
  <2>1. \A r2 \in Connected : 1 \in 1..Len(conns[r2])
    <3> TAKE r2 \in Connected
    <3>1. conns[r2] \in Seq(Conns) /\ conns[r2] # <<>>
      BY DEF Connected, TypeOK
    <3>. QED  BY <3>1, EmptySeq, LenProperties
  <2>. QED  BY <2>1 DEF FirstConn, ConnsDistinct, Connected
<1>. QED  BY <1>1, <1>2 DEF NotifyHandlers

(* Connection events keep a handler informed: a flag that goes with a      *)
(* closed connection is handed over.                                       *)
LEMMA InformedSwarmStep ==
  ASSUME TypeOK, MapsInv, ConnsDistinct, NEW p \in Peers, SwarmStep(p),
         NEW q \in Peers, Informed(q), Recorded(q)
  PROVE  Informed(q)'
<1>0. conns[p] \in Seq(Conns) /\ Len(conns[p]) \in Nat
  BY LenProperties DEF TypeOK
<1>m. q \notin Connected => ~InSomeMesh(q)
  BY DEF MapsInv, KnownIffConnected, Recorded, InSomeMesh
<1>n. \A r \in Connected : 1 \in 1..Len(conns[r])
  <2> TAKE r \in Connected
  <2>1. conns[r] \in Seq(Conns) /\ conns[r] # <<>>
    BY DEF Connected, TypeOK
  <2>. QED  BY <2>1, EmptySeq, LenProperties
<1>1. ASSUME NEW c \in Conns, NEW dialer \in BOOLEAN,
             ConnectionEstablished(p, c, dialer)
      PROVE  Informed(q)'
  <2>1. /\ UNCHANGED <<mesh, inMesh>>
        /\ conns' = [conns EXCEPT ![p] = Append(conns[p], c)]
    BY <1>1 DEF ConnectionEstablished, meshVars
  <2>2. ASSUME q \in Connected PROVE conns'[q][1] = conns[q][1]
    <3>1. CASE q = p
      <4>1. Append(conns[p], c)[1] = conns[p][1]
        BY <2>2, <3>1, <1>0, <1>n, AppendProperties
      <4>. QED  BY <2>1, <3>1, <4>1 DEF TypeOK
    <3>2. CASE q # p
      BY <2>1, <3>2 DEF TypeOK
    <3>. QED  BY <3>1, <3>2
  <2>. QED  BY <2>1, <2>2, <1>m DEF Informed, InSomeMesh, FirstConn
<1>2. ASSUME NEW i \in 1..Len(conns[p]), OneConnectionClosed(p, i)
      PROVE  Informed(q)'
  <2> DEFINE rest == RemoveAt(conns[p], i)
  <2>1. /\ conns' = [conns EXCEPT ![p] = rest]
        /\ inMesh' = (inMesh \ {conns[p][i]}) \cup HandOver(p, rest)
        /\ UNCHANGED mesh
    BY <1>2 DEF OneConnectionClosed, meshVars
  <2> HIDE DEF rest
  <2> SUFFICES ASSUME InSomeMesh(q) PROVE conns'[q][1] \in inMesh'
    BY <2>1 DEF Informed, InSomeMesh, FirstConn
  <2>2. conns[q][1] \in inMesh /\ q \in Connected
    BY <1>m DEF Informed, FirstConn
  <2>3. CASE q # p
    <3>1. conns[q][1] # conns[p][i]
      BY <2>2, <2>3, <1>n DEF ConnsDistinct
    <3>. QED  BY <3>1, <2>1, <2>2, <2>3 DEF TypeOK
  <2>4. CASE q = p
    <3>1. rest[1] \in HandOver(p, rest)
      BY <2>4 DEF HandOver, InOtherMesh, InSomeMesh, Recorded
    <3>. QED  BY <3>1, <2>1, <2>4 DEF TypeOK
  <2>. QED  BY <2>3, <2>4
<1>3. ASSUME LastConnectionClosed(p) PROVE Informed(q)'
  <2>1. Connected' = Connected \ {p} /\ p \in Connected
    BY <1>3, ConnectedSwarmStep
  <2>2. /\ inMesh' = inMesh \ {conns[p][1]}
        /\ conns' = [conns EXCEPT ![p] = <<>>]
        /\ \A t \in Topics : mesh'[t] \subseteq mesh[t]
    BY <1>3, <2>1 DEF LastConnectionClosed, ForgetPeer, FirstConns, FirstConn
  <2> SUFFICES ASSUME q \in Connected', InSomeMesh(q)'
               PROVE  conns'[q][1] \in inMesh'
    BY DEF Informed, FirstConn
  <2>3. q # p /\ q \in Connected /\ InSomeMesh(q)
    BY <2>1, <2>2 DEF InSomeMesh
  <2>4. conns[q][1] # conns[p][1]
    BY <2>1, <2>3, <1>n DEF ConnsDistinct
  <2>5. conns[q][1] \in inMesh
    BY <2>3 DEF Informed, FirstConn
  <2>. QED  BY <2>2, <2>3, <2>4, <2>5 DEF TypeOK
<1>4. ASSUME NEW k \in PeerKinds, PeerKind(p, k) PROVE Informed(q)'
  BY <1>4 DEF PeerKind, meshVars, Informed, InSomeMesh, Connected, FirstConn
<1>. QED  BY <1>1, <1>2, <1>3, <1>4 DEF SwarmStep

(* So do received RPCs: what they say of several topics is judged by the   *)
(* meshes as they are before a GRAFT, and after a subscription or PRUNE.   *)
LEMMA InformedRpcStep ==
  ASSUME TypeOK, ConnsDistinct, NEW p \in Peers, RpcStep(p),
         NEW q \in Peers, Informed(q), Recorded(q)
  PROVE  Informed(q)'
<1> USE DEF peerVars
<1>1. ASSUME NEW sub \in SUBSET Topics, NEW unsub \in SUBSET Topics,
             HandleSubscriptions(p, sub, unsub)
      PROVE  Informed(q)'
  <2> DEFINE grafted ==
               {t \in sub \cap subscribed :
                  /\ IsGossipsub(p) /\ Graftable(t, p)
                  /\ Cardinality(mesh[t]) < MeshNLow /\ p \notin mesh[t]}
             removed == {t \in unsub : p \in mesh[t]}
             joined == {r \in {p} : grafted # {}
                            /\ ~InOtherMesh(p, grafted, mesh', peerTopics')}
             left   == {r \in {p} : \E t \in removed :
                              ~InOtherMesh(p, {t}, mesh', peerTopics')}
  <2>1. /\ grafted \subseteq sub /\ removed = {t \in unsub : p \in mesh[t]}
        /\ sub \cap unsub = {}
        /\ peerTopics'[p] = (peerTopics[p] \cup sub) \ unsub
        /\ peerTopics'[p] \subseteq Topics
        /\ mesh' = [t \in Topics |-> IF t \in grafted THEN mesh[t] \cup {p}
                                 ELSE IF t \in removed THEN mesh[t] \ {p}
                                 ELSE mesh[t]]
        /\ NotifyHandlers(joined, left) /\ UNCHANGED conns
    BY <1>1 DEF HandleSubscriptions, TypeOK
  <2> HIDE DEF grafted, removed
  <2>2. ASSUME q \in Connected, InSomeMesh(q)'
        PROVE  (InSomeMesh(q) \/ q \in joined) /\ q \notin left
    <3>1. PICK u \in Topics : q \in mesh'[u]
      BY <2>2 DEF InSomeMesh
    <3>2. CASE q # p
      BY <3>1, <3>2, <2>1 DEF InSomeMesh
    <3>3. CASE q = p
      <4>1. ASSUME NEW t \in removed PROVE InOtherMesh(p, {t}, mesh', peerTopics')
        <5>1. u # t /\ (u \in grafted \/ (p \in mesh[u] /\ u \notin unsub))
          BY <3>1, <3>3, <4>1, <2>1
        <5>2. u \in peerTopics'[p]
          BY <5>1, <2>1, <3>3 DEF Recorded
        <5>. QED  BY <5>1, <5>2, <3>1, <3>3 DEF InOtherMesh
      <4>2. ASSUME ~InSomeMesh(p) PROVE p \in joined
        <5>1. u \in grafted
          BY <3>1, <3>3, <4>2, <2>1 DEF InSomeMesh
        <5>2. ~InOtherMesh(p, grafted, mesh', peerTopics')
          BY <4>2, <2>1 DEF InOtherMesh, InSomeMesh
        <5>. QED  BY <5>1, <5>2
      <4>. QED  BY <3>3, <4>1, <4>2
    <3>. QED  BY <3>2, <3>3
  <2>3. left \in SUBSET Peers
    OBVIOUS
  <2> HIDE DEF joined, left
  <2>. QED  BY <2>1, <2>2, <2>3, ToldEnough
<1>2. ASSUME NEW ts \in SUBSET Topics, HandleGraft(p, ts)
      PROVE  Informed(q)'
  <2> DEFINE asked    == {t \in ts \cap subscribed : p \notin mesh[t]}
             refused  == {t \in asked : GraftRefused(t, p)}
             accepted == IF p \in explicit THEN {} ELSE asked \ refused
             joined   == {r \in {p} : accepted # {}
                            /\ ~InOtherMesh(p, {}, mesh, peerTopics')}
  <2>1. /\ mesh' = [t \in Topics |-> IF t \in accepted
                                     THEN mesh[t] \cup {p} ELSE mesh[t]]
        /\ peerTopics'[p] \subseteq Topics
        /\ NotifyHandlers(joined, {}) /\ UNCHANGED conns
    BY <1>2 DEF HandleGraft, TypeOK
  <2> HIDE DEF accepted
  <2>2. ASSUME q \in Connected, InSomeMesh(q)', ~InSomeMesh(q)
        PROVE  q \in joined
    <3>1. q = p /\ accepted # {}
      BY <2>1, <2>2 DEF InSomeMesh
    <3>2. ~InOtherMesh(p, {}, mesh, peerTopics')
      BY <2>1, <2>2, <3>1 DEF InOtherMesh, InSomeMesh
    <3>. QED  BY <3>1, <3>2
  <2> HIDE DEF joined
  <2>. QED  BY <2>1, <2>2, ToldEnough
<1>3. ASSUME NEW ts \in SUBSET Topics, NEW px \in SUBSET Peers,
             HandlePrune(p, ts, px)
      PROVE  Informed(q)'
  <2> DEFINE left == {r \in {p} : \E t \in ts : /\ p \in mesh[t]
                             /\ ~InOtherMesh(p, {t}, mesh', peerTopics)}
  <2>1. /\ mesh' = [t \in Topics |-> IF t \in ts THEN mesh[t] \ {p} ELSE mesh[t]]
        /\ NotifyHandlers({}, left) /\ UNCHANGED conns
    BY <1>3 DEF HandlePrune
  <2>2. ASSUME q \in Connected, InSomeMesh(q)'
        PROVE  InSomeMesh(q) /\ q \notin left
    <3>1. PICK u \in Topics : q \in mesh'[u]
      BY <2>2 DEF InSomeMesh
    <3>2. q \in mesh[u] /\ (q = p => u \notin ts) /\ u \in peerTopics[q]
      BY <2>1, <3>1 DEF Recorded
    <3>3. \A t \in ts : q = p => InOtherMesh(p, {t}, mesh', peerTopics)
      BY <3>1, <3>2 DEF InOtherMesh
    <3>. QED  BY <3>2, <3>3 DEF InSomeMesh
  <2>3. left \in SUBSET Peers
    OBVIOUS
  <2> HIDE DEF left
  <2>. QED  BY <2>1, <2>2, <2>3, ToldEnough
<1>. QED  BY <1>1, <1>2, <1>3 DEF RpcStep

(* So do JOIN and LEAVE.                                                   *)
LEMMA InformedApplicationStep ==
  ASSUME TypeOK, ConnsDistinct, ApplicationStep,
         NEW q \in Peers, Informed(q), Recorded(q)
  PROVE  Informed(q)'
<1> USE DEF peerVars
<1>1. ASSUME NEW t \in Topics, Subscribe(t) PROVE Informed(q)'
  <2>1. PICK added \in SUBSET Peers :
          /\ mesh' = [mesh EXCEPT ![t] = added]
          /\ NotifyHandlers({p \in added :
                              ~InOtherMesh(p, {t}, mesh', peerTopics)}, {})
    BY <1>1, JoinedPeers
  <2> DEFINE joined == {p \in added : ~InOtherMesh(p, {t}, mesh', peerTopics)}
  <2>2. ASSUME q \in Connected, InSomeMesh(q)', ~InSomeMesh(q) PROVE q \in joined
    BY <2>1, <2>2 DEF InOtherMesh, InSomeMesh, TypeOK
  <2>3. NotifyHandlers(joined, {}) /\ UNCHANGED conns
    BY <1>1, <2>1 DEF Subscribe
  <2> HIDE DEF joined
  <2>. QED  BY <2>2, <2>3, ToldEnough
<1>2. ASSUME NEW t \in Topics, Unsubscribe(t) PROVE Informed(q)'
  <2> DEFINE left == {p \in mesh[t] : ~InOtherMesh(p, {t}, mesh', peerTopics)}
  <2>1. /\ mesh' = [mesh EXCEPT ![t] = {}]
        /\ NotifyHandlers({}, left) /\ UNCHANGED conns
    BY <1>2 DEF Unsubscribe
  <2>2. ASSUME q \in Connected, InSomeMesh(q)' PROVE InSomeMesh(q) /\ q \notin left
    <3>1. PICK u \in Topics : q \in mesh'[u]
      BY <2>2 DEF InSomeMesh
    <3>2. u # t /\ q \in mesh[u] /\ u \in peerTopics[q]
      BY <2>1, <3>1 DEF Recorded, TypeOK
    <3>. QED  BY <3>1, <3>2 DEF InSomeMesh, InOtherMesh
  <2>3. left \in SUBSET Peers
    BY DEF TypeOK
  <2> HIDE DEF left
  <2>. QED  BY <2>1, <2>2, <2>3, ToldEnough
<1>3. CASE UNCHANGED <<conns, mesh, inMesh>>
  BY <1>3 DEF Informed, InSomeMesh, Connected, FirstConn
<1>. QED  BY <1>1, <1>2, <1>3
          DEF ApplicationStep, PublishToFanout, AddExplicitPeer,
              RemoveExplicitPeer, meshVars

(* So does a heartbeat, unless it grafts the peer into several meshes: it  *)
(* tells the handler of none of them, as each time the peer is found in    *)
(* another.                                                                *)
LEMMA InformedHeartbeat ==
  ASSUME TypeOK, MapsInv, ConnsDistinct, Heartbeat,
         NEW q \in Peers, Informed(q), Recorded(q), ~SeveralGrafts(q)
  PROVE  Informed(q)'
<1>1. PICK bo, grafts, prunes : HeartbeatMesh(bo, grafts, prunes)
  BY HeartbeatEffect
<1> DEFINE grafted  == {x[2] : x \in grafts}
           alone(x) == ~InOtherMesh(x[2], {x[1]}, mesh', peerTopics)
           joined   == {x[2] : x \in {y \in grafts : alone(y)}}
           left     == {x[2] : x \in {y \in prunes : alone(y)}} \ grafted
<1>2. NotifyHandlers(joined, left) /\ UNCHANGED conns
  BY <1>1 DEF HeartbeatMesh, SendGraftPrune, Heartbeat, peerVars
<1>3. left \in SUBSET Peers
  BY <1>1 DEF HeartbeatMesh
<1>4. ASSUME q \in Connected, InSomeMesh(q)'
      PROVE  (InSomeMesh(q) \/ q \in joined) /\ q \notin left
  <2>1. PICK u \in Topics : q \in mesh'[u]
    BY <1>4 DEF InSomeMesh
  <2>2. u \in peerTopics[q]
    <3>1. q \in mesh[u] \/ q \in GossipPeers(u)
      BY <1>1, <2>1 DEF HeartbeatMesh
    <3>. QED  BY <3>1 DEF Recorded, GossipPeers, MapsInv, SubscriptionIndex
  <2>3. q \notin left
    <3> SUFFICES ASSUME NEW x \in prunes, alone(x), x[2] = q PROVE FALSE
      OBVIOUS
    <3>1. x[1] \in Topics /\ x = <<x[1], q>>
      BY <1>1 DEF HeartbeatMesh
    <3>2. x[1] # u
      BY <1>1, <2>1, <3>1 DEF HeartbeatMesh
    <3>. QED  BY <2>1, <2>2, <3>2 DEF InOtherMesh
  <2>4. CASE ~InSomeMesh(q)
    <3>1. <<u, q>> \in grafts
      BY <1>1, <2>1, <2>4 DEF HeartbeatMesh, InSomeMesh
    <3>2. \A t \in Topics : q \in mesh'[t] => t = u
      BY <2>1, <2>4 DEF SeveralGrafts
    <3>3. alone(<<u, q>>)
      BY <3>2 DEF InOtherMesh, TypeOK
    <3>4. <<u, q>> \in {y \in grafts : alone(y)} /\ <<u, q>>[2] = q
      BY <3>1, <3>3
    <3>. QED  BY <2>3, <3>4
  <2>. QED  BY <2>3, <2>4
<1> HIDE DEF joined, left
<1>. QED  BY <1>2, <1>3, <1>4, ToldEnough

(* In every configuration, for any number of topics, peers and             *)
(* connections: a handler that knows whether its peer is in a mesh stays   *)
(* informed through every step but the heartbeat that grafts the peer into *)
(* several meshes at once.  Whoever joins a first mesh is told, only who   *)
(* leaves the last one is told so, and a closing connection hands its duty *)
(* over.  The peer must be recorded under the topics of its meshes, as     *)
(* MeshBookkeeping shows it is with flood publishing.                      *)
THEOREM HandlersStayInformed == Spec => StaysInformed
<1>1. Init => ConnsDistinct
  BY DEF Init, ConnsDistinct
<1>2. TypeOK /\ ConnsDistinct /\ [Next]_vars => ConnsDistinct'
  BY ConnsDistinctStep
<1>3. TypeOK /\ MapsInv /\ ConnsDistinct /\ [Next]_vars
        => [\A p \in Peers : KeepsInformed(p)]_vars
  <2> SUFFICES ASSUME TypeOK, MapsInv, ConnsDistinct, Next,
                      NEW q \in Peers, Informed(q), Recorded(q), ~SeveralGrafts(q)
               PROVE  Informed(q)'
    BY Zenon DEF KeepsInformed
  <2>1. CASE UNCHANGED <<conns, mesh, inMesh>>
    BY <2>1 DEF Informed, InSomeMesh, Connected, FirstConn
  <2>2. ASSUME NEW p \in Peers, SwarmStep(p) \/ RpcStep(p) PROVE Informed(q)'
    BY <2>2, InformedSwarmStep, InformedRpcStep
  <2>3. ASSUME ClockStep PROVE Informed(q)'
    BY <2>1, <2>3, InformedHeartbeat
    DEF ClockStep, BackoffElapses, ScoreChanges, peerVars, meshVars
  <2>. QED  BY <2>2, <2>3, InformedApplicationStep DEF Next
<1>4. Spec => []MapsInv
  BY MapsAgree DEF MapsInv
<1>. QED  BY <1>1, <1>2, <1>3, <1>4, TypeCorrect, PTL DEF Spec, StaysInformed

(***************************************************************************)
(* What a heartbeat leaves behind.                                         *)
(***************************************************************************)

(* get_random_peers falls short of the number it is asked for only when it *)
(* returns all there are.                                                  *)
LEMMA RandomPeersAll ==
  ASSUME NEW n \in Nat, NEW S, IsFiniteSet(S), NEW R \in RandomPeers(n, S)
  PROVE  R = S \/ Cardinality(R) = n
BY DEF RandomPeers

(* The sizes of a set and of a part that is added to it.                   *)
LEMMA AddedSize ==
  ASSUME NEW A, IsFiniteSet(A), NEW B, IsFiniteSet(B), A \cap B = {}
  PROVE  /\ IsFiniteSet(A \cup B)
         /\ Cardinality(A) \in Nat /\ Cardinality(B) \in Nat
         /\ Cardinality(A \cup B) = Cardinality(A) + Cardinality(B)
<1>1. /\ IsFiniteSet(A \cup B)
      /\ Cardinality(A \cup B) =
           Cardinality(A) + Cardinality(B) - Cardinality(A \cap B)
  BY FS_Union
<1>2. Cardinality(A) \in Nat /\ Cardinality(B) \in Nat
      /\ Cardinality(A \cap B) = 0
  BY FS_CardinalityType, FS_EmptySet
<1>. QED  BY <1>1, <1>2

(* Every outcome of a heartbeat for a topic we are subscribed to is a      *)
(* repaired mesh.                                                          *)
LEMMA OutcomeRepaired ==
  ASSUME TypeOK, NEW t \in subscribed, NEW bo, NEW o \in MeshOutcomes(t, bo)
  PROVE  /\ \A p \in o.mesh : HScore(p) >= 0
         /\ Cardinality(o.mesh) < MeshNLow => Addable(t, o.mesh, bo) = {}
         /\ Cardinality(o.mesh) <= MeshNHigh + MeshOutboundMin
         /\ Cardinality(o.mesh) >= MeshNLow =>
              \/ Cardinality(o.mesh \cap outbound) >= MeshOutboundMin
              \/ Addable(t, o.mesh, bo) \cap outbound = {}
<1> DEFINE kept == Kept(mesh[t])
           free == Addable(t, kept, bo)
<1>1. PICK low \in LowFills(t, kept, bo) : o \in ExcessOutcomes(t, low, bo)
  BY DEF MeshOutcomes
<1>2. PICK out \in Excesses(kept \cup low) :
             o \in OutboundOutcomes(t, low, out, bo)
  BY <1>1 DEF ExcessOutcomes
<1> DEFINE trim == (kept \cup low) \ out
<1>3. PICK more \in OutboundFills(t, trim, bo) : o.mesh = trim \cup more
  <2>1. PICK more \in OutboundFills(t, trim, bo) :
          o = [mesh  |-> trim \cup more,
               graft |-> low \cup more,
               prune |-> (mesh[t] \ kept) \cup out]
    BY <1>2 DEF OutboundOutcomes
  <2> HIDE DEF trim, kept
  <2>. QED  BY <2>1
<1>4. t \in Topics
  BY DEF TypeOK
<1>5. /\ IsFiniteSet(kept) /\ Cardinality(kept) \in Nat
      /\ IsFiniteSet(free) /\ kept \cap free = {}
      /\ \A p \in kept \cup free : HScore(p) >= 0
  <2>1. kept \subseteq Peers /\ free \subseteq Peers
    BY <1>4 DEF Kept, Addable, GossipPeers, TypeOK
  <2>2. kept \cap free = {} /\ \A p \in kept \cup free : HScore(p) >= 0
    BY DEF Kept, Addable
  <2>. QED  BY <2>1, <2>2, FS_Subset, FS_CardinalityType,
               EnvironmentAssumption
<1> DEFINE freeOut == Addable(t, trim, bo) \cap outbound
<1>6. /\ IsFiniteSet(freeOut) /\ trim \cap freeOut = {}
      /\ freeOut \subseteq outbound
      /\ \A p \in freeOut : HScore(p) >= 0
  <2>1. freeOut \subseteq Peers
    BY <1>4 DEF Addable, GossipPeers, TypeOK
  <2>2. trim \cap freeOut = {} /\ \A p \in freeOut : HScore(p) >= 0
    BY DEF Addable
  <2>. QED  BY <2>1, <2>2, FS_Subset, EnvironmentAssumption
<1>7. \A m, m2 : m \subseteq m2 => Addable(t, m2, bo) = Addable(t, m, bo) \ m2
  BY DEF Addable
<1>8. /\ Cardinality(kept) < MeshNLow =>
           low \in RandomPeers(MeshN - Cardinality(kept), free)
      /\ ~(Cardinality(kept) < MeshNLow) => low = {}
  BY DEF LowFills
<1>9. LET have == Cardinality(trim \cap outbound)
          need == Cardinality(trim) >= MeshNLow /\ have < MeshOutboundMin
      IN  /\ need => more \in RandomPeers(MeshOutboundMin - have, freeOut)
          /\ ~need => more = {}
  BY DEF OutboundFills
<1> HIDE DEF kept, free
(* After peers were added. *)
<1>10. /\ low \subseteq free /\ IsFiniteSet(low) /\ IsFiniteSet(kept \cup low)
       /\ Cardinality(kept \cup low) \in Nat
       /\ \/ Cardinality(kept \cup low) >= MeshNLow
          \/ free \ low = {}
  <2>1. CASE Cardinality(kept) < MeshNLow
    <3>1. MeshN - Cardinality(kept) \in Nat
      BY <2>1, <1>5, ConfigAssumption
    <3>2. low \in RandomPeers(MeshN - Cardinality(kept), free)
      BY <2>1, <1>8
    <3>3. low \subseteq free
      BY <3>2, RandomPeersSubset
    <3>4. IsFiniteSet(low) /\ Cardinality(low) \in Nat
      BY <3>3, <1>5, FS_Subset, FS_CardinalityType
    <3>5. kept \cap low = {}
      BY <3>3, <1>5
    <3>6. /\ IsFiniteSet(kept \cup low)
          /\ Cardinality(kept \cup low) = Cardinality(kept) + Cardinality(low)
      BY <3>4, <3>5, <1>5, AddedSize
    <3>7. low = free \/ Cardinality(low) = MeshN - Cardinality(kept)
      BY <3>1, <3>2, <1>5, RandomPeersAll
    <3>. QED  BY <3>3, <3>4, <3>6, <3>7, <1>5, ConfigAssumption
  <2>2. CASE ~(Cardinality(kept) < MeshNLow)
    <3>1. low = {} /\ kept \cup low = kept
      BY <2>2, <1>8
    <3>. QED  BY <3>1, <2>2, <1>5, FS_EmptySet, ConfigAssumption
  <2>. QED  BY <2>1, <2>2
(* After the excess was removed. *)
<1>11. /\ IsFiniteSet(trim) /\ Cardinality(trim) \in Nat
       /\ Cardinality(trim) <= MeshNHigh
       /\ \/ Cardinality(trim) >= MeshNLow
          \/ trim = kept \cup low /\ free \ low = {}
  <2>0. IsFiniteSet(trim) /\ Cardinality(trim) \in Nat
    BY <1>10, FS_Difference, FS_CardinalityType
  <2>1. CASE Cardinality(kept \cup low) > MeshNHigh
    <3>1. Cardinality(trim) = MeshN
      BY <2>1, <1>10, ExcessSize
    <3>. QED  BY <2>0, <3>1, ConfigAssumption
  <2>2. CASE ~(Cardinality(kept \cup low) > MeshNHigh)
    <3>1. out = {}
      BY <2>2 DEF Excesses
    <3>2. trim = kept \cup low
      BY <3>1
    <3> HIDE DEF trim
    <3>. QED  BY <2>0, <2>2, <3>2, <1>10, ConfigAssumption
  <2>. QED  BY <2>1, <2>2
<1>12. trim \subseteq kept \cup low
  OBVIOUS
<1> DEFINE have == Cardinality(trim \cap outbound)
<1>13. have \in Nat /\ IsFiniteSet(trim \cap outbound)
  BY <1>11, FS_Intersection, FS_CardinalityType
<1> DEFINE need == Cardinality(trim) >= MeshNLow /\ have < MeshOutboundMin
<1> HIDE DEF trim, freeOut
(* After outbound peers were added. *)
<1>14. /\ more \subseteq freeOut /\ IsFiniteSet(more)
       /\ Cardinality(more) \in Nat
       /\ Cardinality(more) <= MeshOutboundMin
       /\ need => more = freeOut \/ Cardinality(more) = MeshOutboundMin - have
       /\ ~need => more = {}
  <2>1. CASE need
    <3>1. MeshOutboundMin - have \in Nat
      BY <2>1, <1>13, ConfigAssumption
    <3>2. more \in RandomPeers(MeshOutboundMin - have, freeOut)
      BY <2>1, <1>9
    <3> HIDE DEF need, have
    <3>3. more \subseteq freeOut
      BY <3>2, RandomPeersSubset
    <3>4. /\ IsFiniteSet(more) /\ Cardinality(more) \in Nat
          /\ Cardinality(more) <= MeshOutboundMin - have
      BY <3>1, <3>2, <1>6, RandomPeersBound
    <3>5. more = freeOut \/ Cardinality(more) = MeshOutboundMin - have
      BY <3>1, <3>2, <1>6, RandomPeersAll
    <3>. QED  BY <2>1, <3>3, <3>4, <3>5, <1>13, ConfigAssumption
  <2>2. CASE ~need
    <3>1. more = {}
      BY <2>2, <1>9
    <3>. QED  BY <2>2, <3>1, FS_EmptySet, ConfigAssumption
  <2>. QED  BY <2>1, <2>2
<1> HIDE DEF need, have
<1>15. \A p \in o.mesh : HScore(p) >= 0
  BY <1>3, <1>5, <1>6, <1>10, <1>12, <1>14
<1>16. trim \cap more = {}
  BY <1>6, <1>14
<1>17. /\ Cardinality(o.mesh) = Cardinality(trim) + Cardinality(more)
       /\ Cardinality(o.mesh) \in Nat
  <2>1. Cardinality(trim \cup more) = Cardinality(trim) + Cardinality(more)
    BY <1>11, <1>14, <1>16, AddedSize
  <2>. QED  BY <2>1, <1>3, <1>11, <1>14
<1>18. Cardinality(o.mesh) <= MeshNHigh + MeshOutboundMin
  BY <1>11, <1>14, <1>17, ConfigAssumption
<1>19. ASSUME Cardinality(o.mesh) < MeshNLow
       PROVE  Addable(t, o.mesh, bo) = {}
  <2>1. ~(Cardinality(trim) >= MeshNLow)
    BY <1>11, <1>14, <1>17, <1>19, ConfigAssumption
  <2>2. kept \subseteq o.mesh /\ low \subseteq o.mesh /\ free \ low = {}
    BY <2>1, <1>3, <1>11
  <2>3. Addable(t, o.mesh, bo) = free \ o.mesh
    BY <2>2, <1>7 DEF free
  <2>. QED  BY <2>2, <2>3
<1>20. ASSUME Cardinality(o.mesh) >= MeshNLow,
              ~(Cardinality(o.mesh \cap outbound) >= MeshOutboundMin)
       PROVE  Addable(t, o.mesh, bo) \cap outbound = {}
  <2> DEFINE now == o.mesh \cap outbound
             before == trim \cap outbound
  <2>1. now = before \cup more /\ before \cap more = {}
    BY <1>3, <1>6, <1>14, <1>16
  <2> HIDE DEF now, before
  <2>2. /\ IsFiniteSet(now)
        /\ Cardinality(now) = have + Cardinality(more)
    BY <2>1, <1>13, <1>14, AddedSize DEF before, have
  <2>3. need
    <3>1. have < MeshOutboundMin
      BY <2>2, <1>13, <1>14, <1>20, ConfigAssumption DEF now
    <3>2. Cardinality(trim) >= MeshNLow
      <4>1. CASE ~need
        <5>1. Cardinality(more) = 0
          BY <4>1, <1>14, FS_EmptySet
        <5>. QED  BY <5>1, <1>11, <1>17, <1>20, ConfigAssumption
      <4>. QED  BY <4>1 DEF need
    <3>. QED  BY <3>1, <3>2 DEF need
  <2>4. more = freeOut
    <3>1. Cardinality(more) # MeshOutboundMin - have
      BY <2>2, <1>13, <1>14, <1>20, ConfigAssumption DEF now
    <3>. QED  BY <2>3, <3>1, <1>14
  <2>5. trim \subseteq o.mesh /\ more \subseteq o.mesh
    BY <1>3
  <2>6. Addable(t, o.mesh, bo) = Addable(t, trim, bo) \ o.mesh
    BY <2>5, <1>7
  <2>. QED  BY <2>4, <2>5, <2>6 DEF freeOut
<1>. QED  BY <1>15, <1>18, <1>19, <1>20

(* In every configuration that ConfigBuilder::build accepts, a heartbeat   *)
(* leaves every mesh repaired: the steps that drop, add, trim and top up   *)
(* peers do not undo one another.                                          *)
THEOREM HeartbeatsRepair == Spec => HeartbeatRepairs
<1>1. TypeOK /\ [Next]_vars
        => [Heartbeat => \A t \in subscribed : MeshRepaired(t)]_vars
  <2> SUFFICES ASSUME TypeOK, Heartbeat, NEW t \in subscribed
               PROVE  MeshRepaired(t)
    OBVIOUS
  <2>1. PICK gone \in SUBSET (backoff \ running) :
        \E o \in {f \in [Topics -> UNION {MeshOutcomes(u, backoff \ gone)
                                          : u \in Topics}] :
               \A u \in Topics : f[u] \in MeshOutcomes(u, backoff \ gone)} :
          /\ mesh' = [u \in Topics |-> o[u].mesh]
          /\ SendGraftPrune(UNION {{u} \X o[u].graft : u \in Topics},
                            UNION {{u} \X o[u].prune : u \in Topics},
                            backoff \ gone)
    BY DEF Heartbeat
  <2> DEFINE bo == backoff \ gone
  <2>2. PICK o : /\ \A u \in Topics : o[u] \in MeshOutcomes(u, bo)
                 /\ mesh' = [u \in Topics |-> o[u].mesh]
                 /\ bo \subseteq backoff'
    BY <2>1 DEF SendGraftPrune
  <2> HIDE DEF bo
  <2> DEFINE x == o[t]
  <2>3. t \in Topics /\ x \in MeshOutcomes(t, bo) /\ mesh'[t] = x.mesh
    BY <2>2 DEF TypeOK
  <2> HIDE DEF x
  <2>4. /\ \A p \in x.mesh : HScore(p) >= 0
        /\ Cardinality(x.mesh) < MeshNLow => Addable(t, x.mesh, bo) = {}
        /\ Cardinality(x.mesh) <= MeshNHigh + MeshOutboundMin
        /\ Cardinality(x.mesh) >= MeshNLow =>
             \/ Cardinality(x.mesh \cap outbound) >= MeshOutboundMin
             \/ Addable(t, x.mesh, bo) \cap outbound = {}
    BY <2>3, OutcomeRepaired, Zenon
  <2>5. Addable(t, mesh[t], backoff)' \subseteq Addable(t, x.mesh, bo)
    <3>1. UNCHANGED <<conns, kind, topicPeers, explicit, score>>
      BY DEF Heartbeat, peerVars, topicVars
    <3>. QED  BY <3>1, <2>2, <2>3
              DEF Addable, GossipPeers, IsGossipsub, HScore
  <2>. QED  BY <2>3, <2>4, <2>5 DEF MeshRepaired
<1>. QED  BY <1>1, TypeCorrect, PTL DEF Spec, HeartbeatRepairs
=============================================================================
