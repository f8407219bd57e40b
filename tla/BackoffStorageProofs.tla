------------------------ MODULE BackoffStorageProofs ------------------------
(***************************************************************************)
(* Theorems about BackoffStorage, for any heartbeat interval, slack, wheel *)
(* size and durations, and however late heartbeats are.                    *)
(***************************************************************************)
EXTENDS BackoffStorage, TLAPS

(* A time spans a natural number of heartbeats.                          *)
LEMMA HeartbeatsNat ==
  ASSUME NEW d \in Nat
  PROVE  Heartbeats(d) \in Nat
<1>1. Interval \in Nat /\ Interval > 0
  BY StorageAssumption
<1>2. d + Interval - 1 \in Nat
  BY <1>1
<1>. HIDE DEF Heartbeats
<1>3. \A a \in Nat, b \in Nat : b > 0 => a \div b \in Nat
  OBVIOUS
<1>. QED  BY <1>1, <1>2, <1>3 DEF Heartbeats

(* The wheel has at least one slot.                                        *)
LEMMA WheelSize == MaxHeartbeats \in Nat /\ MaxHeartbeats > 0
BY HeartbeatsNat, StorageAssumption DEF MaxHeartbeats

(* An index into the wheel is reduced to a slot.                           *)
LEMMA ReducedIndex ==
  ASSUME NEW n \in Nat
  PROVE  n % MaxHeartbeats \in Slots
<1>1. \A a \in Nat, b \in Nat : b > 0 => a % b \in 0..(b - 1)
  OBVIOUS
<1>. QED  BY <1>1, WheelSize DEF Slots

(* update_backoff files a pair under a slot that exists.                   *)
LEMMA SlotType ==
  ASSUME hand \in Slots, NEW d \in Nat
  PROVE  Slot(d) \in Slots
<1>1. hand + Heartbeats(d) + BackoffSlack \in Nat
  BY HeartbeatsNat, WheelSize, StorageAssumption DEF Slots
<1>. QED  BY <1>1, ReducedIndex DEF Slot

(***************************************************************************)
(* Types.                                                                  *)
(***************************************************************************)

(* The initial state is typed.                                             *)
LEMMA TypeInit == Init => TypeOK
<1>. SUFFICES ASSUME Init PROVE TypeOK
  OBVIOUS
<1>1. 0 \in Slots /\ -MaxLate <= Interval /\ Interval \in Int
  BY WheelSize, StorageAssumption DEF Slots
<1>2. panic \in BOOLEAN
  BY DEF Init
<1>3. /\ stored = {} /\ left = [p \in Pairs |-> 0] /\ slotOf = [p \in Pairs |-> 0]
      /\ wheel = [i \in Slots |-> {}] /\ hand = 0 /\ due = Interval
  BY DEF Init
<1>. QED  BY <1>1, <1>2, <1>3 DEF TypeOK

(* Every step keeps the types: no index leaves the wheel.                  *)
LEMMA TypeStep == TypeOK /\ [Next]_vars => TypeOK'
<1>. SUFFICES ASSUME TypeOK, [Next]_vars PROVE TypeOK'
  OBVIOUS
<1>1. ASSUME NEW p \in Pairs, NEW d \in Durations, UpdateBackoff(p, d)
      PROVE  TypeOK'
  <2>1. d \in Nat /\ Slot(d) \in Slots
    BY SlotType, StorageAssumption DEF TypeOK
  <2>2. CASE p \in stored /\ left[p] >= d
    BY <1>1, <2>2 DEF TypeOK, UpdateBackoff
  <2>3. CASE ~(p \in stored /\ left[p] >= d)
    <3>. HIDE DEF Slot
    <3>. QED  BY <1>1, <2>1, <2>3 DEF TypeOK, UpdateBackoff, Enter
  <2>. QED  BY <2>2, <2>3
<1>2. CASE Heartbeat
  <2>1. (hand + 1) % MaxHeartbeats \in Slots /\ 0 \in Slots
    BY ReducedIndex, WheelSize DEF TypeOK, Slots
  <2>2. due' \in Int /\ -MaxLate <= due' /\ due' <= Interval
    BY <1>2, StorageAssumption DEF TypeOK, Heartbeat
  <2>. QED  BY <1>2, <2>1, <2>2 DEF TypeOK, Heartbeat
<1>3. CASE Tick
  <2>1. due' \in Int /\ -MaxLate <= due' /\ due' <= Interval
    BY <1>3, StorageAssumption DEF TypeOK, Tick
  <2>2. left' \in [Pairs -> Int]
    BY <1>3 DEF TypeOK, Tick
  <2>. QED  BY <1>3, <2>1, <2>2 DEF TypeOK, Tick
<1>4. CASE UNCHANGED vars
  BY <1>4 DEF TypeOK, vars
<1>5. CASE \E d \in Durations : UpdateOverflows(d)
  BY <1>5 DEF TypeOK, UpdateOverflows
<1>. QED  BY <1>1, <1>2, <1>3, <1>4, <1>5 DEF Next

(* The state always has its type; in particular heartbeat_index and every  *)
(* stored index are positions of backoffs_by_heartbeat, whose accesses in  *)
(* update_backoff are unchecked.                                           *)
THEOREM TypeCorrect == Spec => []TypeOK
BY TypeInit, TypeStep, PTL DEF Spec

(***************************************************************************)
(* The wheel and the map agree.                                            *)
(***************************************************************************)

(* Every step keeps each stored pair in exactly the slot it remembers.     *)
LEMMA WheelStep == TypeOK /\ WheelAgrees /\ [Next]_vars => WheelAgrees'
<1>. SUFFICES ASSUME TypeOK, WheelAgrees, [Next]_vars PROVE WheelAgrees'
  OBVIOUS
<1>1. ASSUME NEW p \in Pairs, NEW d \in Durations, UpdateBackoff(p, d)
      PROVE  WheelAgrees'
  <2>1. d \in Nat /\ Slot(d) \in Slots
    BY SlotType, StorageAssumption DEF TypeOK
  <2>2. CASE p \in stored /\ left[p] >= d
    BY <1>1, <2>2 DEF TypeOK, UpdateBackoff, WheelAgrees
  <2>3. CASE ~(p \in stored /\ left[p] >= d)
    BY <1>1, <2>1, <2>3 DEF TypeOK, UpdateBackoff, Enter, WheelAgrees
  <2>. QED  BY <2>2, <2>3
<1>2. CASE Heartbeat
  BY <1>2 DEF TypeOK, Heartbeat, OverInSlot, WheelAgrees
<1>3. CASE Tick
  BY <1>3 DEF Tick, WheelAgrees
<1>4. CASE UNCHANGED vars
  BY <1>4 DEF WheelAgrees, vars
<1>5. CASE \E d \in Durations : UpdateOverflows(d)
  BY <1>5 DEF WheelAgrees, UpdateOverflows
<1>. QED  BY <1>1, <1>2, <1>3, <1>4, <1>5 DEF Next

(* backoffs and backoffs_by_heartbeat always agree: the clean-up finds     *)
(* every pair, and finds it once.                                          *)
THEOREM WheelConsistent == Spec => []WheelAgrees
<1>1. Init => WheelAgrees
  BY DEF Init, WheelAgrees
<1>. QED  BY <1>1, WheelStep, TypeCorrect, PTL DEF Spec

(***************************************************************************)
(* The storage is a Backoff.                                               *)
(***************************************************************************)

(* No update shortens a backoff, and no clean-up touches the backoff of a  *)
(* pair that it leaves.                                                    *)
THEOREM BackoffsNotShortened == Spec => NeverShortened
<1>1. TypeOK /\ [Next]_vars
        => [Tick \/ \A p \in stored \cap stored' : left'[p] >= left[p]]_vars
  <2>. SUFFICES ASSUME TypeOK, Next, ~Tick, NEW p \in stored \cap stored'
                PROVE  left'[p] >= left[p]
    OBVIOUS
  <2>0. p \in Pairs /\ left[p] \in Int
    BY DEF TypeOK
  <2>1. ASSUME NEW q \in Pairs, NEW d \in Durations, UpdateBackoff(q, d)
        PROVE  left'[p] >= left[p]
    <3>1. d \in Nat
      BY StorageAssumption
    <3>2. CASE q \in stored /\ left[q] >= d
      BY <2>0, <2>1, <3>2 DEF UpdateBackoff
    <3>3. CASE ~(q \in stored /\ left[q] >= d)
      BY <2>0, <2>1, <3>1, <3>3 DEF UpdateBackoff, Enter, TypeOK
    <3>. QED  BY <3>2, <3>3
  <2>2. CASE Heartbeat
    BY <2>0, <2>2 DEF Heartbeat
  <2>3. CASE \E d \in Durations : UpdateOverflows(d)
    BY <2>0, <2>3 DEF UpdateOverflows
  <2>. QED  BY <2>1, <2>2, <2>3 DEF Next
<1>. QED  BY <1>1, TypeCorrect, PTL DEF Spec, NeverShortened

(* What is_backoff_with_slack and get_backoff_time answer changes as the   *)
(* mesh expects: a running backoff is never forgotten, and only the        *)
(* passing of time ends it.                                                *)
THEOREM StorageImplementsBackoff == Spec => ImplementsBackoff
<1> DEFINE run == {p \in stored : left[p] > 0}
<1>1. Init => Abstract!Init
  BY DEF Init, Abstract!Init
<1>2. TypeOK /\ [Next]_vars => [Abstract!Next]_(Abstract!vars)
  <2>. SUFFICES ASSUME TypeOK, [Next]_vars
                PROVE  [Abstract!Next]_(Abstract!vars)
    OBVIOUS
  <2>1. ASSUME NEW p \in Pairs, NEW d \in Durations, UpdateBackoff(p, d)
        PROVE  Abstract!Set(p)
    <3>1. d \in Nat
      BY StorageAssumption
    <3>2. CASE p \in stored /\ left[p] >= d
      BY <2>1, <3>2 DEF UpdateBackoff, Abstract!Set
    <3>3. CASE ~(p \in stored /\ left[p] >= d)
      <4>1. stored' = stored \cup {p} /\ left' = [left EXCEPT ![p] = d]
        BY <2>1, <3>3 DEF UpdateBackoff, Enter
      <4>2. CASE d > 0
        <5>1. run' = run \cup {p}
          BY <3>1, <4>1, <4>2 DEF TypeOK
        <5>. QED  BY <4>1, <5>1 DEF Abstract!Set
      <4>3. CASE ~(d > 0)
        <5>1. p \notin run
          BY <3>1, <3>3, <4>3 DEF TypeOK
        <5>2. run' = run
          BY <3>1, <4>1, <4>3, <5>1 DEF TypeOK
        <5>. QED  BY <4>1, <5>2 DEF Abstract!Set
      <4>. QED  BY <4>2, <4>3
    <3>. QED  BY <3>2, <3>3
  <2>2. CASE Heartbeat
    <3>1. SlackTime \in Nat
      BY StorageAssumption DEF SlackTime
    <3>2. \A p \in stored \cap OverInSlot : left[p] <= 0
      BY <3>1 DEF OverInSlot, TypeOK
    <3>3. /\ stored' = stored \ OverInSlot
          /\ \A p \in Pairs \ OverInSlot : left'[p] = left[p]
      BY <2>2 DEF Heartbeat
    <3>. HIDE DEF OverInSlot
    <3>4. run \subseteq stored' /\ run' = run
      BY <3>2, <3>3 DEF TypeOK
    <3>. QED  BY <3>3, <3>4 DEF Abstract!Next, Abstract!CleanUp
  <2>3. CASE Tick
    <3>1. stored' = stored /\ run' \subseteq run
      BY <2>3 DEF Tick, TypeOK
    <3>. QED  BY <3>1 DEF Abstract!Next, Abstract!Elapse
  <2>4. CASE UNCHANGED vars
    BY <2>4 DEF vars, Abstract!vars
  <2>5. CASE \E d \in Durations : UpdateOverflows(d)
    BY <2>5 DEF UpdateOverflows, Abstract!vars
  <2>. QED  BY <2>1, <2>2, <2>3, <2>4, <2>5 DEF Next, Abstract!Next
<1>. QED  BY <1>1, <1>2, TypeCorrect, PTL DEF Spec, ImplementsBackoff, Abstract!Spec

(***************************************************************************)
(* No pair outstays a turn of the wheel.                                   *)
(***************************************************************************)

(* The longest time between two heartbeats.                                *)
Turn == Interval + MaxLate

(* How many heartbeats come before the one that looks at slot i, when the  *)
(* next one looks at slot h.                                               *)
Ahead(i, h) == IF i >= h THEN i - h ELSE (i - h) + MaxHeartbeats

(* The inductive invariant: even if every heartbeat until then is as late  *)
(* as can be, the one that looks at the pair's slot comes before the pair  *)
(* outstays its turn.                                                      *)
ReleaseInv ==
  \A p \in stored :
    left[p] + SlackTime >
      due + MaxLate + Ahead(slotOf[p], hand) * Turn
        - (MaxHeartbeats + 1) * Turn

(* The times of up to a turn of the wheel.                                 *)
LEMMA TurnTimes ==
  /\ Turn \in Nat /\ Turn > 0
  /\ \A k \in Slots : /\ k * Turn \in Nat
                      /\ k * Turn + 2 * Turn <= (MaxHeartbeats + 1) * Turn
                      /\ k > 0 => (k - 1) * Turn = k * Turn - Turn
  /\ (MaxHeartbeats + 1) * Turn \in Nat
<1>1. Turn \in Nat /\ Turn > 0 /\ MaxHeartbeats \in Nat
  BY StorageAssumption, WheelSize DEF Turn
<1>2. \A w \in Nat, a \in Nat, b \in Nat :
        /\ a * w \in Nat /\ (a + b) * w = a * w + b * w
        /\ b > 0 => (b - 1) * w = b * w - w
  OBVIOUS
<1> HIDE DEF Turn
<1>3. ASSUME NEW k \in Slots
      PROVE  k * Turn + 2 * Turn <= (MaxHeartbeats + 1) * Turn
  <2>1. k \in Nat /\ MaxHeartbeats - 1 - k \in Nat
    BY <1>1 DEF Slots
  <2> DEFINE rest == MaxHeartbeats - 1 - k
  <2>2. MaxHeartbeats + 1 = (k + 2) + rest /\ k + 2 \in Nat
    BY <1>1, <2>1
  <2> HIDE DEF rest
  <2>3. ((k + 2) + rest) * Turn = (k + 2) * Turn + rest * Turn
    BY <1>1, <1>2, <2>1, <2>2 DEF rest
  <2>4. (k + 2) * Turn = k * Turn + 2 * Turn /\ rest * Turn \in Nat
        /\ k * Turn \in Nat
    BY <1>1, <1>2, <2>1 DEF rest
  <2>. QED  BY <2>2, <2>3, <2>4, <1>1
<1>4. \A k \in Slots : k \in Nat
  BY DEF Slots
<1>5. MaxHeartbeats + 1 \in Nat
  BY <1>1
<1>. QED  BY <1>1, <1>2, <1>3, <1>4, <1>5

(* Every slot is less than a turn ahead, and a heartbeat brings it nearer, *)
(* except its own, which it puts behind all others.                        *)
LEMMA AheadTypes ==
  ASSUME TypeOK, NEW i \in Slots
  PROVE  /\ Ahead(i, hand) \in Slots
         /\ Heartbeat => IF i = hand THEN Ahead(i, hand') \in Slots
                         ELSE /\ Ahead(i, hand') = Ahead(i, hand) - 1
                              /\ Ahead(i, hand) > 0
<1>1. /\ MaxHeartbeats \in Nat /\ MaxHeartbeats > 0
      /\ hand \in Nat /\ hand < MaxHeartbeats /\ i \in Nat /\ i < MaxHeartbeats
  BY WheelSize DEF Slots, TypeOK
<1>2. \A a \in Nat, b \in Nat : /\ a < b => a % b = a
                                /\ b > 0 => b % b = 0
  OBVIOUS
<1>3. (hand + 1) % MaxHeartbeats
        = IF hand + 1 = MaxHeartbeats THEN 0 ELSE hand + 1
  BY <1>1, <1>2
<1>4. Ahead(i, hand) \in Slots
  BY <1>1 DEF Ahead, Slots
<1>5. ASSUME Heartbeat
      PROVE  IF i = hand THEN Ahead(i, hand') \in Slots
             ELSE Ahead(i, hand') = Ahead(i, hand) - 1 /\ Ahead(i, hand) > 0
  <2>1. hand' = IF hand + 1 = MaxHeartbeats THEN 0 ELSE hand + 1
    BY <1>3, <1>5 DEF Heartbeat
  <2>2. Ahead(i, hand') = IF i >= hand' THEN i - hand'
                                  ELSE (i - hand') + MaxHeartbeats
    BY DEF Ahead
  <2>. QED  BY <2>1, <2>2, <1>1 DEF Ahead, Slots
<1>. QED  BY <1>4, <1>5

(* Every step keeps the invariant.                                         *)
LEMMA ReleaseStep ==
  ASSUME TypeOK, TypeOK', WheelAgrees, ReleaseInv, [Next]_vars
  PROVE  ReleaseInv'
<1> DEFINE Limit == (MaxHeartbeats + 1) * Turn
           Wait(i, h) == Ahead(i, h) * Turn
<1>0. /\ MaxLate \in Nat /\ Interval \in Nat /\ SlackTime \in Nat
      /\ Turn = Interval + MaxLate /\ Turn \in Nat /\ Turn > 0
      /\ Limit \in Nat
  <2>1. SlackTime \in Nat
    BY StorageAssumption DEF SlackTime
  <2>. QED  BY <2>1, TurnTimes, StorageAssumption DEF Turn
<1>1. ASSUME NEW i \in Slots
      PROVE  /\ Wait(i, hand) \in Nat /\ Wait(i, hand) + 2 * Turn <= Limit
             /\ Heartbeat =>
                  IF i = hand THEN /\ Wait(i, hand') \in Nat
                                   /\ Wait(i, hand') + 2 * Turn <= Limit
                              ELSE Wait(i, hand') = Wait(i, hand) - Turn
  BY AheadTypes, TurnTimes
<1>2. due \in Int /\ due <= Interval /\ due >= -MaxLate
      /\ due' \in Int /\ due' <= Interval /\ due' >= -MaxLate
  BY <1>0 DEF TypeOK
<1>3. ASSUME NEW p \in stored
      PROVE  /\ p \in Pairs /\ left[p] \in Int /\ slotOf[p] \in Slots
             /\ left[p] + SlackTime >
                  due + MaxLate + Wait(slotOf[p], hand) - Limit
  BY DEF TypeOK, ReleaseInv
<1> SUFFICES ASSUME NEW p \in stored'
             PROVE  left'[p] + SlackTime >
                      due' + MaxLate + Wait(slotOf'[p], hand') - Limit
  BY DEF ReleaseInv, Ahead
<1>4. p \in Pairs /\ left'[p] \in Int /\ slotOf'[p] \in Slots
  BY DEF TypeOK
<1>5. ASSUME NEW q \in Pairs, NEW d \in Durations, UpdateBackoff(q, d)
      PROVE  left'[p] + SlackTime >
               due' + MaxLate + Wait(slotOf'[p], hand') - Limit
  <2>1. due' = due /\ hand' = hand /\ d \in Nat
    BY <1>5, StorageAssumption DEF UpdateBackoff
  <2>2. \A i \in Slots : Wait(i, hand') = Wait(i, hand)
    BY <2>1 DEF Ahead
  <2>3. CASE p \in stored /\ left'[p] = left[p] /\ slotOf'[p] = slotOf[p]
    <3> HIDE DEF Wait, Limit
    <3>. QED  BY <2>1, <2>2, <2>3, <1>3
  <2>4. CASE left'[p] = d
    <3>1. Wait(slotOf'[p], hand') \in Nat
          /\ Wait(slotOf'[p], hand') + 2 * Turn <= Limit
      BY <2>2, <1>1, <1>4
    <3> HIDE DEF Wait, Limit
    <3>. QED  BY <2>1, <2>4, <3>1, <1>0, <1>2
  <2>5. \/ p \in stored /\ left'[p] = left[p] /\ slotOf'[p] = slotOf[p]
        \/ left'[p] = d
    BY <1>5 DEF UpdateBackoff, Enter, TypeOK
  <2>. QED  BY <2>3, <2>4, <2>5
<1>6. ASSUME Heartbeat
      PROVE  left'[p] + SlackTime >
               due' + MaxLate + Wait(slotOf'[p], hand') - Limit
  <2>1. /\ p \in stored /\ p \notin OverInSlot
        /\ left'[p] = left[p] /\ slotOf'[p] = slotOf[p]
    BY <1>4, <1>6 DEF Heartbeat
  <2>2. CASE slotOf[p] = hand
    <3>1. p \in wheel[hand]
      BY <2>1, <2>2, <1>4 DEF WheelAgrees, TypeOK
    <3>2. left[p] + SlackTime > 0
      BY <2>1, <3>1, <1>0, <1>3 DEF OverInSlot
    <3>3. Wait(slotOf'[p], hand') \in Nat
          /\ Wait(slotOf'[p], hand') + 2 * Turn <= Limit
      BY <2>1, <2>2, <1>1, <1>4, <1>6
    <3> HIDE DEF Wait, Limit
    <3>. QED  BY <2>1, <3>2, <3>3, <1>0, <1>2, <1>3
  <2>3. CASE slotOf[p] # hand
    <3>1. Wait(slotOf'[p], hand') = Wait(slotOf[p], hand) - Turn
          /\ Wait(slotOf[p], hand) \in Nat
      BY <2>1, <2>3, <1>1, <1>4, <1>6
    <3> HIDE DEF Wait, Limit
    <3>. QED  BY <2>1, <3>1, <1>0, <1>2, <1>3
  <2>. QED  BY <2>2, <2>3
<1>7. ASSUME Tick
      PROVE  left'[p] + SlackTime >
               due' + MaxLate + Wait(slotOf'[p], hand') - Limit
  <2>1. /\ p \in stored /\ slotOf'[p] = slotOf[p] /\ due' = due - 1
        /\ left'[p] >= left[p] - 1
    BY <1>3, <1>4, <1>7 DEF Tick
  <2>2. Wait(slotOf'[p], hand') = Wait(slotOf[p], hand)
        /\ Wait(slotOf[p], hand) \in Nat
    BY <2>1, <1>1, <1>3, <1>7 DEF Tick, Ahead
  <2> HIDE DEF Wait, Limit
  <2>. QED  BY <2>1, <2>2, <1>0, <1>2, <1>3, <1>4
<1>8. ASSUME UNCHANGED vars \/ \E d \in Durations : UpdateOverflows(d)
      PROVE  left'[p] + SlackTime >
               due' + MaxLate + Wait(slotOf'[p], hand') - Limit
  <2>1. /\ p \in stored /\ slotOf' = slotOf /\ due' = due /\ left' = left
        /\ hand' = hand
    BY <1>4, <1>8 DEF vars, UpdateOverflows
  <2>2. Wait(slotOf'[p], hand') = Wait(slotOf[p], hand)
    BY <2>1 DEF Ahead
  <2> HIDE DEF Wait, Limit
  <2>. QED  BY <2>1, <2>2, <1>3
<1>. QED  BY <1>5, <1>6, <1>7, <1>8 DEF Next

(* However late heartbeats are and however long a time a PRUNE asks for,   *)
(* no pair is kept longer than a turn of the wheel after its slack: a pair *)
(* that the clean-up finds too early is found again a turn later, and by   *)
(* then it is over.                                                        *)
THEOREM ReleasedInTime == Spec => []ReleasedInOneTurn
<1>1. Init => ReleaseInv
  BY DEF Init, ReleaseInv
<1>2. TypeOK /\ TypeOK' /\ WheelAgrees /\ ReleaseInv /\ [Next]_vars
        => ReleaseInv'
  BY ReleaseStep
<1>3. TypeOK /\ ReleaseInv => ReleasedInOneTurn
  <2> SUFFICES ASSUME TypeOK, ReleaseInv, NEW p \in stored
               PROVE  left[p] + SlackTime > -((MaxHeartbeats + 1) * Turn)
    BY DEF ReleasedInOneTurn, IsBackoffWithSlack, Turn
  <2> DEFINE Limit == (MaxHeartbeats + 1) * Turn
             wait  == Ahead(slotOf[p], hand) * Turn
  <2>1. wait \in Nat /\ Limit \in Nat
    BY AheadTypes, TurnTimes DEF TypeOK
  <2>2. left[p] + SlackTime > due + MaxLate + wait - Limit
    BY DEF ReleaseInv
  <2>3. /\ left[p] \in Int /\ SlackTime \in Int
        /\ due \in Int /\ MaxLate \in Int /\ due + MaxLate >= 0
    BY StorageAssumption DEF TypeOK, SlackTime
  <2> HIDE DEF Limit, wait
  <2>4. left[p] + SlackTime > -Limit
    BY <2>1, <2>2, <2>3
  <2>. QED  BY <2>4 DEF Limit
<1>. QED  BY <1>1, <1>2, <1>3, WheelConsistent, TypeCorrect, PTL DEF Spec
=============================================================================
