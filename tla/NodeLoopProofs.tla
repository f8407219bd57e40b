--------------------------- MODULE NodeLoopProofs ---------------------------
(***************************************************************************)
(* Theorems about NodeLoop, for any calls, channel capacities and number   *)
(* of messages.                                                            *)
(***************************************************************************)
EXTENDS NodeLoop, SequenceTheorems, TLAPS

Messages == 1..MaxMessages

(* A sequence of one element.                                              *)
LEMMA OneElement ==
  ASSUME NEW S, NEW e \in S
  PROVE  <<e>> \in Seq(S) /\ Len(<<e>>) = 1
<1>1. <<>> \in Seq(S) /\ Append(<<>>, e) = <<>> \o <<e>>
  BY EmptySeq, AppendIsConcat
<1>. QED  OBVIOUS

(* A sequence of at most one element that is not empty has one.            *)
LEMMA AtMostOne ==
  ASSUME NEW S, NEW s \in Seq(S), Len(s) <= 1, s # <<>>
  PROVE  Len(s) = 1
<1>1. Len(s) \in Nat \ {0}
  BY EmptySeq
<1>2. \A n \in Nat \ {0} : n <= 1 => n = 1
  OBVIOUS
<1>. QED  BY <1>1, <1>2, Zenon

(***************************************************************************)
(* Types.                                                                  *)
(***************************************************************************)

(* Every step keeps the types: neither channel exceeds its capacity.       *)
LEMMA TypeStep ==
  ASSUME TypeOK, [Next]_vars PROVE TypeOK'
<1> USE DEF TypeOK
<1>0. /\ Len(commands) \in Nat /\ Len(events) \in Nat
      /\ CommandCapacity \in Nat /\ EventCapacity \in Nat
      /\ MaxMessages \in Nat
  BY LenProperties, NodeAssumption
<1>1. ASSUME NEW c \in Calls, StartCall(c) PROVE TypeOK'
  BY <1>1 DEF StartCall
<1>2. ASSUME NEW c \in Calls, SendCommand(c) PROVE TypeOK'
  <2>1. /\ Append(commands, c) \in Seq(Calls)
        /\ Len(Append(commands, c)) = Len(commands) + 1
    BY AppendProperties
  <2>2. Len(commands) + 1 <= CommandCapacity
    BY <1>0, <1>2 DEF SendCommand
  <2>. QED  BY <1>2, <2>1, <2>2 DEF SendCommand
<1>3. ASSUME NEW c \in Calls, AbandonCall(c) PROVE TypeOK'
  BY <1>3 DEF AbandonCall
<1>4. CASE RecvEvent
  <2>1. events # <<>> /\ events \in Seq(Messages)
    BY <1>4 DEF RecvEvent, Messages
  <2>2. /\ Head(events) \in Messages /\ Tail(events) \in Seq(Messages)
        /\ Len(Tail(events)) = Len(events) - 1
    BY <2>1, HeadTailProperties
  <2>3. Append(received, Head(events)) \in Seq(Messages)
    BY <2>2, AppendProperties DEF Messages
  <2>4. Len(Tail(events)) <= EventCapacity
    BY <2>2, <1>0
  <2>. QED  BY <1>4, <2>2, <2>3, <2>4 DEF RecvEvent, Messages
<1>5. CASE DropNode
  BY <1>0, <1>5, EmptySeq DEF DropNode
<1>6. CASE HandleCommand
  <2>1. commands # <<>>
    BY <1>6 DEF HandleCommand
  <2>2. /\ Head(commands) \in Calls /\ Tail(commands) \in Seq(Calls)
        /\ Len(Tail(commands)) = Len(commands) - 1
    BY <2>1, HeadTailProperties
  <2>3. call' \in [Calls -> {"new", "sending", "waiting", "abandoned",
                              "ok", "err"}]
    BY <1>6, <2>2 DEF HandleCommand, Answers
  <2>4. Len(Tail(commands)) <= CommandCapacity
    BY <2>2, <1>0
  <2>. QED  BY <1>6, <2>2, <2>3, <2>4 DEF HandleCommand
<1>7. CASE RelayMessage
  <2>1. emitted + 1 \in Messages
    BY <1>7, <1>0 DEF RelayMessage, Messages
  <2>2. sending' \in Seq(Messages) /\ Len(sending') = 1
    BY <1>7, <2>1, OneElement DEF RelayMessage
  <2>. QED  BY <1>0, <1>7, <2>1, <2>2 DEF RelayMessage, Messages
<1>8. CASE SendEvent
  <2>1. Len(sending) = 1 /\ sending \in Seq(Messages)
        /\ events \in Seq(Messages)
    BY <1>8, AtMostOne DEF SendEvent, Messages
  <2>2. /\ events \o sending \in Seq(Messages)
        /\ Len(events \o sending) = Len(events) + Len(sending)
    BY <2>1, ConcatProperties
  <2>3. events' \in Seq(Messages) /\ Len(events') <= EventCapacity
    BY <1>0, <1>8, <2>1, <2>2 DEF SendEvent
  <2>4. sending' \in Seq(Messages) /\ Len(sending') <= 1
    BY <1>8, EmptySeq DEF SendEvent
  <2>. QED  BY <1>8, <2>3, <2>4 DEF SendEvent, Messages
<1>9. CASE EndLoop
  BY <1>9 DEF EndLoop
<1>10. CASE UNCHANGED vars
  BY <1>10 DEF vars
<1>. QED  BY <1>1, <1>2, <1>3, <1>4, <1>5, <1>6, <1>7, <1>8, <1>9, <1>10
          DEF Next

(* The state always has its type: no step puts more into the command or    *)
(* the event channel than it holds.                                        *)
THEOREM TypeCorrect == Spec => []TypeOK
<1>1. Init => TypeOK
  BY EmptySeq, NodeAssumption DEF Init, TypeOK
<1>2. TypeOK /\ [Next]_vars => TypeOK'
  BY TypeStep
<1>. QED  BY <1>1, <1>2, PTL DEF Spec

(***************************************************************************)
(* Events.                                                                 *)
(***************************************************************************)

(* The messages 1 to n in order, and the next one.                         *)
Upto(n) == [i \in 1..n |-> i]

(* One more message.                                                       *)
LEMMA UptoNext ==
  ASSUME NEW n \in Nat PROVE Upto(n) \o <<n + 1>> = Upto(n + 1)
<1>1. \A m \in Nat : Upto(m) \in Seq(Nat) /\ Len(Upto(m)) = m
  <2> TAKE m \in Nat
  <2>1. Upto(m) \in [1..m -> Nat]
    BY DEF Upto
  <2>2. Upto(m) \in Seq(Nat)
    BY <2>1, SeqDef
  <2>3. DOMAIN Upto(m) = 1..m /\ Len(Upto(m)) \in Nat
        /\ DOMAIN Upto(m) = 1..Len(Upto(m))
    BY <2>1, <2>2, LenProperties
  <2>. QED  BY <2>2, <2>3
<1>2. <<n + 1>> \in Seq(Nat) /\ Len(<<n + 1>>) = 1
  BY OneElement
<1> DEFINE s == Upto(n) \o <<n + 1>>
<1>3. /\ s \in Seq(Nat) /\ Len(s) = n + 1
      /\ \A i \in 1..(n + 1) :
           s[i] = IF i <= n THEN Upto(n)[i] ELSE <<n + 1>>[i - n]
  <2> DEFINE a == Upto(n)
             b == <<n + 1>>
  <2>1. a \in Seq(Nat) /\ b \in Seq(Nat) /\ Len(a) = n /\ Len(b) = 1
    BY <1>1, <1>2
  <2> HIDE DEF a, b
  <2>2. /\ a \o b \in Seq(Nat) /\ Len(a \o b) = Len(a) + Len(b)
        /\ \A i \in 1..(Len(a) + Len(b)) :
             (a \o b)[i] = IF i <= Len(a) THEN a[i] ELSE b[i - Len(a)]
    BY <2>1, ConcatProperties
  <2>. QED  BY <2>1, <2>2 DEF a, b
<1>4. ASSUME NEW i \in 1..(n + 1) PROVE s[i] = Upto(n + 1)[i]
  <2>1. CASE i <= n
    BY <1>3, <2>1 DEF Upto
  <2>2. CASE ~(i <= n)
    <3>1. i = n + 1 /\ i - n = 1
      BY <2>2
    <3>2. <<n + 1>>[1] = n + 1
      OBVIOUS
    <3>. QED  BY <1>3, <2>2, <3>1, <3>2 DEF Upto
  <2>. QED  BY <2>1, <2>2
<1> HIDE DEF s
<1>5. Upto(n + 1) \in Seq(Nat) /\ Len(Upto(n + 1)) = n + 1
  BY <1>1
<1>. QED  BY <1>3, <1>4, <1>5, SeqEqual DEF s

(* A message that moves from one place to the next keeps its position.     *)
LEMMA EventsStep ==
  ASSUME TypeOK, NoEventLost, [Next]_vars PROVE NoEventLost'
<1> SUFFICES ASSUME node' = "held"
             PROVE  received' \o events' \o sending' = Upto(emitted')
  BY DEF NoEventLost, Upto
<1>0. node = "held"
  BY DEF Next, StartCall, SendCommand, AbandonCall, RecvEvent, DropNode,
         HandleCommand, RelayMessage, SendEvent, EndLoop, vars
<1>1. received \o events \o sending = Upto(emitted)
  BY <1>0 DEF NoEventLost, Upto
<1>2. /\ received \in Seq(Messages) /\ events \in Seq(Messages)
      /\ sending \in Seq(Messages)
      /\ received \o events \in Seq(Messages)
  BY ConcatProperties DEF TypeOK, Messages
<1>3. CASE RecvEvent
  <2>1. /\ events # <<>> /\ events' = Tail(events) /\ sending' = sending
        /\ received' = Append(received, Head(events)) /\ emitted' = emitted
    BY <1>3 DEF RecvEvent
  <2> DEFINE h == Head(events)
             r == Tail(events)
  <2>2. h \in Messages /\ r \in Seq(Messages)
    BY <2>1, <1>2, HeadTailProperties
  <2>3. <<h>> \in Seq(Messages)
    BY <2>2, OneElement
  <2>4. events = <<h>> \o r
    <3>1. /\ Len(events) \in Nat /\ Len(events) # 0 /\ Len(r) = Len(events) - 1
          /\ \A i \in 1..Len(r) : r[i] = events[i + 1]
      BY <2>1, <1>2, HeadTailProperties, EmptySeq
    <3>2. h = events[1] /\ Len(<<h>>) = 1 /\ <<h>>[1] = h
      BY <1>2
    <3> HIDE DEF h, r
    <3>3. /\ <<h>> \o r \in Seq(Messages)
          /\ Len(<<h>> \o r) = 1 + Len(r)
          /\ \A i \in 1..(1 + Len(r)) :
               (<<h>> \o r)[i] = IF i <= 1 THEN <<h>>[i] ELSE r[i - 1]
      BY <2>2, <2>3, <3>2, ConcatProperties
    <3>4. ASSUME NEW i \in 1..Len(events) PROVE events[i] = (<<h>> \o r)[i]
      <4>1. CASE i = 1
        BY <3>1, <3>2, <3>3, <4>1
      <4>2. CASE i # 1
        BY <3>1, <3>3, <4>2
      <4>. QED  BY <4>1, <4>2
    <3>5. Len(<<h>> \o r) = Len(events)
      BY <3>1, <3>3
    <3>. QED  BY <3>3, <3>4, <3>5, <1>2, SeqEqual
  <2>5. Append(received, h) = received \o <<h>>
    BY <2>2, <1>2, AppendIsConcat
  <2> HIDE DEF h, r
  <2>6. (received \o <<h>>) \o r = received \o (<<h>> \o r)
    BY <2>2, <2>3, <1>2, ConcatAssociative
  <2>7. received' = Append(received, h) /\ events' = r
    BY <2>1 DEF h, r
  <2>. QED  BY <2>1, <2>4, <2>5, <2>6, <2>7, <1>1
<1>4. CASE RelayMessage
  <2>1. /\ sending = <<>> /\ sending' = <<emitted + 1>>
        /\ emitted' = emitted + 1
        /\ UNCHANGED <<events, received>>
    BY <1>4 DEF RelayMessage, Selecting
  <2>2. received \o events = Upto(emitted)
    BY <2>1, <1>1, <1>2, ConcatEmptySeq
  <2>3. emitted \in Nat
    BY NodeAssumption DEF TypeOK
  <2>. QED  BY <2>1, <2>2, <2>3, UptoNext
<1>5. CASE SendEvent
  <2>1. /\ sending' = <<>> /\ events' = events \o sending
        /\ UNCHANGED <<received, emitted>>
    BY <1>0, <1>5 DEF SendEvent
  <2>2. (received \o events) \o sending = received \o (events \o sending)
    BY <1>2, ConcatAssociative
  <2>3. received \o (events \o sending) \in Seq(Messages)
    BY <1>2, ConcatProperties
  <2>4. received \o (events \o sending) \o <<>> = received \o (events \o sending)
    BY <2>3, ConcatEmptySeq
  <2>. QED  BY <2>1, <2>2, <2>4, <1>1
<1>6. CASE UNCHANGED <<events, sending, received, emitted>>
  BY <1>1, <1>6
<1>7. ~DropNode
  BY DEF DropNode
<1>. QED  BY <1>3, <1>4, <1>5, <1>6, <1>7
          DEF Next, StartCall, SendCommand, AbandonCall, HandleCommand,
              EndLoop, vars

(* As long as the application holds the node, whatever the capacity of the *)
(* event channel and however far the application falls behind, what it has *)
(* received, what the channel holds and what the loop waits to send are    *)
(* the relay's messages, each once and in order.                           *)
THEOREM EventsArriveInOrder == Spec => []NoEventLost
<1>1. Init => NoEventLost
  <2>1. <<>> \o <<>> \o <<>> = <<>>
    <3>1. <<>> \in Seq(Messages)
      BY EmptySeq
    <3>. QED  BY <3>1, ConcatEmptySeq
  <2>2. [i \in 1..0 |-> i] = <<>>
    OBVIOUS
  <2>. QED  BY <2>1, <2>2 DEF Init, NoEventLost
<1>2. TypeOK /\ NoEventLost /\ [Next]_vars => NoEventLost'
  BY EventsStep
<1>. QED  BY <1>1, <1>2, TypeCorrect, PTL DEF Spec
=============================================================================
