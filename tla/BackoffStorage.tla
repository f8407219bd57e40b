--------------------------- MODULE BackoffStorage ---------------------------
(***************************************************************************)
(* BackoffStorage (gossipsub/backoff.rs): the backoffs of (topic, peer)    *)
(* pairs, and a wheel of slots that is advanced once per heartbeat so that *)
(* each heartbeat only looks at the pairs of one slot.                     *)
(*                                                                         *)
(* An instant is kept as the time that is left until it, so that the       *)
(* clock needs no bound: left[p] = instant - now.                          *)
(***************************************************************************)
EXTENDS Integers

CONSTANTS
  Pairs,          \* (topic, peer) pairs
  Interval,       \* heartbeat_interval, in units of time
  BackoffSlack,   \* backoff_slack, in heartbeats
  PruneBackoff,   \* prune_backoff, which sizes the wheel
  Durations,      \* the times update_backoff may be called with
  LongestTime,    \* the longest time that can be added to Instant::now()
  MaxLate         \* how late a heartbeat may be

ASSUME StorageAssumption ==
  /\ Interval \in Nat \ {0} /\ BackoffSlack \in Nat /\ PruneBackoff \in Nat
  /\ Durations \subseteq Nat /\ LongestTime \in Nat
  /\ MaxLate \in Nat

VARIABLES
  stored,     \* the pairs in backoffs
  left,       \* the time left until their instant; 0 for other pairs
  slotOf,     \* the HeartbeatIndex stored with it; 0 for other pairs
  wheel,      \* backoffs_by_heartbeat
  hand,       \* heartbeat_index
  due,        \* the time left until the next heartbeat should happen
  panic       \* the addition to Instant::now() has overflowed

vars == <<stored, left, slotOf, wheel, hand, due, panic>>

-----------------------------------------------------------------------------
(* The heartbeats that a time spans, rounded up.                           *)
Heartbeats(d) == (d + Interval - 1) \div Interval

(* The length of the wheel, with one slot for a partial heartbeat.         *)
MaxHeartbeats == Heartbeats(PruneBackoff) + BackoffSlack + 1
Slots == 0..(MaxHeartbeats - 1)

SlackTime == Interval * BackoffSlack

(* No comparison of the code, and no property, tells smaller values apart. *)
Floor == -(SlackTime + (MaxHeartbeats + 2) * (Interval + MaxLate))

Slot(d) == (hand + Heartbeats(d) + BackoffSlack) % MaxHeartbeats

(* Mutant: the pair stays in its old slot too.                             *)
EnterTwice(p, d) ==
  /\ left' = [left EXCEPT ![p] = d]
  /\ slotOf' = [slotOf EXCEPT ![p] = Slot(d)]
  /\ wheel' = [wheel EXCEPT ![Slot(d)] = @ \cup {p}]

(* Store a backoff of time d and move the pair to the slot of its end.     *)
Enter(p, d) ==
  /\ left' = [left EXCEPT ![p] = d]
  /\ slotOf' = [slotOf EXCEPT ![p] = Slot(d)]
  /\ wheel' = [i \in Slots |-> IF i = Slot(d) THEN wheel[i] \cup {p}
                               ELSE IF p \in stored /\ i = slotOf[p]
                               THEN wheel[i] \ {p} ELSE wheel[i]]

(* Mutant: a longer backoff is overwritten.                                *)
UpdateBackoffAlways(p, d) ==
  /\ ~panic /\ d <= LongestTime
  /\ stored' = stored \cup {p}
  /\ Enter(p, d)
  /\ UNCHANGED <<hand, due, panic>>

(* update_backoff: a backoff is never shortened.                           *)
UpdateBackoff(p, d) ==
  /\ ~panic /\ d <= LongestTime
  /\ stored' = stored \cup {p}
  /\ IF p \in stored /\ left[p] >= d THEN UNCHANGED <<left, slotOf, wheel>>
                                     ELSE Enter(p, d)
  /\ UNCHANGED <<hand, due, panic>>

(* update_backoff with a time that no Instant can hold: it panics.  The    *)
(* times that PRUNEs ask for are used as they come.                        *)
UpdateOverflows(d) ==
  /\ ~panic /\ d > LongestTime
  /\ panic' = TRUE
  /\ UNCHANGED <<stored, left, slotOf, wheel, hand, due>>

IsBackoffWithSlack(p) == p \in stored

(* Mutants: the clean-up does not look at the time; the wheel stops        *)
(* before its last slot.                                                   *)
OverInSlotAny == wheel[hand]
OverInSlotButLast ==
  {p \in wheel[hand] : hand < MaxHeartbeats - 1 /\ left[p] + SlackTime <= 0}

(* The pairs of the current slot whose backoff and slack are over.         *)
OverInSlot == {p \in wheel[hand] : p \in stored => left[p] + SlackTime <= 0}

(* heartbeat.  The next one is due an interval after this one was, or      *)
(* after now.                                                              *)
Heartbeat ==
  /\ ~panic /\ due <= 0
  /\ wheel' = [wheel EXCEPT ![hand] = @ \ OverInSlot]
  /\ stored' = stored \ OverInSlot
  /\ left' = [p \in Pairs |-> IF p \in OverInSlot THEN 0 ELSE left[p]]
  /\ slotOf' = [p \in Pairs |-> IF p \in OverInSlot THEN 0 ELSE slotOf[p]]
  /\ hand' = (hand + 1) % MaxHeartbeats
  /\ due' \in {Interval, Interval + due}
  /\ UNCHANGED panic

(* A unit of time passes.                                                  *)
Tick ==
  /\ ~panic /\ due > -MaxLate
  /\ due' = due - 1
  /\ left' = [p \in Pairs |-> IF p \in stored /\ left[p] > Floor
                              THEN left[p] - 1 ELSE left[p]]
  /\ UNCHANGED <<stored, slotOf, wheel, hand, panic>>

Init ==
  /\ stored = {} /\ left = [p \in Pairs |-> 0] /\ slotOf = [p \in Pairs |-> 0]
  /\ wheel = [i \in Slots |-> {}] /\ hand = 0
  /\ due = Interval /\ panic = FALSE

Next ==
  \/ \E p \in Pairs, d \in Durations : UpdateBackoff(p, d)
  \/ \E d \in Durations : UpdateOverflows(d)
  \/ Heartbeat
  \/ Tick

(* Time passes, and the swarm polls the heartbeat timer.                   *)
Fairness == WF_vars(Heartbeat) /\ WF_vars(Tick)

Spec == Init /\ [][Next]_vars
FairSpec == Spec /\ Fairness

-----------------------------------------------------------------------------
(* The state has its type.                                                 *)
TypeOK ==
  /\ stored \subseteq Pairs
  /\ left \in [Pairs -> Int] /\ slotOf \in [Pairs -> Slots]
  /\ wheel \in [Slots -> SUBSET Pairs] /\ hand \in Slots
  /\ due \in Int /\ -MaxLate <= due /\ due <= Interval
  /\ panic \in BOOLEAN

(* The two structures of the storage agree: a stored pair is in the slot   *)
(* it remembers and in no other, and no slot holds a pair that is not      *)
(* stored.  Otherwise the clean-up would miss a pair, or drop it early.    *)
WheelAgrees ==
  \A i \in Slots, p \in Pairs :
    p \in wheel[i] <=> p \in stored /\ slotOf[p] = i

(* Only the passing of time brings the end of a backoff nearer: a later    *)
(* update never shortens one.                                              *)
NeverShortened ==
  [][\/ Tick
     \/ \A p \in stored \cap stored' : left'[p] >= left[p]]_vars

(* What the mesh relies on: a pair is stored as long as its backoff runs,  *)
(* whatever slot it is in, and only time or a clean-up ends either.        *)
Abstract == INSTANCE Backoff
              WITH backoff <- stored, running <- {p \in stored : left[p] > 0}
ImplementsBackoff == Abstract!Spec

(* However late heartbeats are and however long a time a PRUNE asks for,   *)
(* a pair is not kept longer than one turn of the wheel after its slack.   *)
ReleasedInOneTurn ==
  \A p \in Pairs : IsBackoffWithSlack(p) =>
    left[p] + SlackTime > -((MaxHeartbeats + 1) * (Interval + MaxLate))

(* A pair that is not renewed for ever is forgotten again and again, as    *)
(* long as the task lives.                                                 *)
Renewed(p) == \E d \in Durations : UpdateBackoff(p, d)
EventuallyReleased ==
  \A p \in Pairs :
    <>panic \/ []<><<Renewed(p)>>_vars \/ []<>~IsBackoffWithSlack(p)
=============================================================================
