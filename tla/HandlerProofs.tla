---------------------------- MODULE HandlerProofs ---------------------------
(***************************************************************************)
(* Theorems about Handler, for any number of substream attempts and of     *)
(* messages.                                                               *)
(***************************************************************************)
EXTENDS Handler, SequenceTheorems, FiniteSetTheorems, TLAPS

(* The inductive invariant.  An enabled handler has attempts left; it has  *)
(* a substream only once it knows the kind of the peer; and it has sent    *)
(* the kind only if it reported it.                                        *)
AttemptsLeft ==
  mode = "Enabled" => outAttempts < MaxAttempts /\ inAttempts < MaxAttempts
KindKnown ==
  /\ kindSent => reported # <<>>
  /\ mode = "Enabled" /\ (inSub # "None" \/ outSub # "None") => peerKind # "None"
HandlerInv ==
  TypeOK /\ OneOutboundSubstream /\ AttemptsLeft /\ KindKnown /\ KindBeforeTraffic

(***************************************************************************)
(* Types.                                                                  *)
(***************************************************************************)

(* Popping the send queue yields a message and a shorter queue.            *)
LEMMA PopType ==
  ASSUME NEW S, NEW s \in Seq(S), s # <<>>
  PROVE  Last(s) \in S /\ Front(s) \in Seq(S)
<1>1. Len(s) \in Nat /\ Len(s) > 0 /\ \A k \in 1..Len(s) : s[k] \in S
  BY EmptySeq, LenProperties, ElementOfSeq
<1>2. Last(s) \in S
  BY <1>1 DEF Last
<1>3. SubSeq(s, 1, Len(s) - 1) \in Seq(S)
  BY <1>1, SubSeqProperties
<1>. QED  BY <1>2, <1>3 DEF Front

(* An empty queue is a queue.                                              *)
LEMMA EmptyQueue == \A S : <<>> \in Seq(S) /\ Len(<<>>) = 0
OBVIOUS

(* Pushing a message yields a queue.                                       *)
LEMMA PushType ==
  ASSUME NEW S, NEW s \in Seq(S), NEW m \in S
  PROVE  Append(s, m) \in Seq(S) /\ Append(s, m) # <<>>
<1>1. Append(s, m) \in Seq(S) /\ Len(Append(s, m)) = Len(s) + 1 /\ Len(s) \in Nat
  BY AppendProperties, LenProperties
<1>. QED  BY <1>1, EmptyQueue

(* A disabled handler is typed.                                            *)
LEMMA TypeDisable ==
  ASSUME TypeOK, NEW why \in {"ProtocolUnsupported", "MaxSubstreamAttempts"},
         Disable(why), requests' \in Nat,
         outAttempts' \in 0..MaxAttempts, inAttempts' \in 0..MaxAttempts,
         woken' = TRUE
  PROVE  TypeOK'
BY EmptyQueue DEF TypeOK, Disable, history

(* Handing over messages and mesh changes keeps the types.                 *)
LEMMA TypeHandlerIn ==
  ASSUME TypeOK, HandlerInMessage \/ \E joined \in BOOLEAN : HandlerInMesh(joined)
  PROVE  TypeOK'
<1>1. CASE HandlerInMessage
  <2>1. queued + 1 \in 1..MaxMessages
    BY <1>1, HandlerAssumption DEF TypeOK, HandlerInMessage
  <2>2. sendQueue' \in Seq(1..MaxMessages)
    BY <1>1, <2>1, PushType DEF TypeOK, HandlerInMessage
  <2>. QED  BY <1>1, <2>1, <2>2
            DEF TypeOK, HandlerInMessage, tryVars, kindVars
<1>2. CASE \E joined \in BOOLEAN : HandlerInMesh(joined)
  BY <1>2 DEF TypeOK, HandlerInMesh, outVars, tryVars, kindVars, history
<1>. QED  BY <1>1, <1>2

(* poll keeps the types.                                                   *)
LEMMA TypePoll == TypeOK /\ Poll => TypeOK'
<1>. SUFFICES ASSUME TypeOK, Poll PROVE TypeOK'
  OBVIOUS
<1>1. CASE ReportKind
  <2>1. peerKind \in Kinds
    BY <1>1 DEF ReportKind, MustReport, TypeOK
  <2>2. reported' \in Seq(Kinds \cup {"NotSupported"})
    BY <1>1, <2>1 DEF ReportKind, TypeOK
  <2>. QED  BY <1>1, <2>2 DEF TypeOK, ReportKind, outVars, tryVars, history
<1>2. CASE ReportUnsupported
  <2>1. reported' \in Seq(Kinds \cup {"NotSupported"})
    BY <1>2 DEF ReportUnsupported, TypeOK
  <2>. QED  BY <1>2, <2>1 DEF TypeOK, ReportUnsupported, outVars, tryVars, history
<1>3. CASE RequestSubstream
  BY <1>3 DEF TypeOK, RequestSubstream, outVars, kindVars, history
<1>4. CASE TakeMessage
  <2>1. Last(sendQueue) \in 1..MaxMessages /\ Front(sendQueue) \in Seq(1..MaxMessages)
    BY <1>4, PopType DEF TypeOK, TakeMessage
  <2>. HIDE DEF Last, Front
  <2>2. current' \in Seq(1..MaxMessages) /\ Len(current') = 1
    BY <1>4, <2>1 DEF TakeMessage
  <2>. QED  BY <1>4, <2>1, <2>2
            DEF TypeOK, TakeMessage, tryVars, kindVars, history
<1>5. ASSUME NEW ok \in BOOLEAN, StartSend(ok) PROVE TypeOK'
  <2>1. wire' \in Seq(1..MaxMessages)
    BY <1>5, ConcatProperties DEF TypeOK, StartSend
  <2>2. current' \in Seq(1..MaxMessages) /\ Len(current') = 0
    BY <1>5 DEF StartSend
  <2>. QED  BY <1>5, <2>1, <2>2 DEF TypeOK, StartSend, tryVars, kindVars
<1>6. ASSUME NEW ok \in BOOLEAN, Flush(ok) PROVE TypeOK'
  BY <1>6 DEF TypeOK, Flush, tryVars, kindVars
<1>7. CASE ReceiveMessage
  BY <1>7 DEF TypeOK, ReceiveMessage, outVars, tryVars, kindVars
<1>8. CASE CloseInbound
  BY <1>8 DEF TypeOK, CloseInbound, outVars, tryVars, kindVars, history
<1>. QED  BY <1>1, <1>2, <1>3, <1>4, <1>5, <1>6, <1>7, <1>8
          DEF Poll, PollOutbound

(* The results of negotiations keep the types.                             *)
LEMMA TypeEvent ==
  ASSUME TypeOK, OneOutboundSubstream, AttemptsLeft,
         \/ \E ok \in BOOLEAN, k \in Kinds : InboundEvent(ok, k)
         \/ Negotiated
  PROVE  TypeOK'
<1>1. ASSUME NEW ok \in BOOLEAN, NEW k \in Kinds, InboundEvent(ok, k)
      PROVE  TypeOK'
  <2>1. CASE inAttempts + 1 = MaxAttempts
    BY <1>1, <2>1, TypeDisable DEF TypeOK, InboundEvent
  <2>2. CASE inAttempts + 1 # MaxAttempts
    <3>1. inAttempts' \in 0..MaxAttempts
      BY <1>1, <2>2, HandlerAssumption
      DEF TypeOK, InboundEvent, IsEnabled, AttemptsLeft
    <3>2. peerKind' \in Kinds \cup {"None"}
      BY <1>1, <2>2 DEF TypeOK, InboundEvent, LearnKind
    <3>3. /\ inSub' \in {"WaitingInput", inSub} /\ woken' = TRUE
          /\ UNCHANGED <<outAttempts, requests, mode, outVars, establishing,
                         kindSent, reported, inMesh, recent, history, panic>>
      BY <1>1, <2>2 DEF InboundEvent
    <3>. QED  BY <3>1, <3>2, <3>3 DEF TypeOK, outVars, history
  <2>. QED  BY <2>1, <2>2
<1>2. ASSUME NEW result \in {"ok", "failed", "error"}, NEW k \in Kinds,
             OutboundEvent(result, k)
      PROVE  TypeOK'
  <2>0. requests' \in Nat
    BY <1>2 DEF TypeOK, OutboundEvent
  <2>1. CASE outAttempts + 1 = MaxAttempts
    BY <1>2, <2>0, <2>1, TypeDisable DEF TypeOK, OutboundEvent
  <2>2. CASE outAttempts + 1 # MaxAttempts /\ result = "failed"
    <3>1. outAttempts' \in 0..MaxAttempts
      BY <1>2, <2>2, HandlerAssumption
      DEF TypeOK, OutboundEvent, IsEnabled, AttemptsLeft
    <3>. QED  BY <1>2, <2>0, <2>2, <3>1, TypeDisable DEF TypeOK, OutboundEvent
  <2>3. CASE outAttempts + 1 # MaxAttempts /\ result # "failed"
    <3>1. outAttempts' \in 0..MaxAttempts
      BY <1>2, <2>3, HandlerAssumption
      DEF TypeOK, OutboundEvent, IsEnabled, AttemptsLeft
    <3>2. /\ UNCHANGED <<mode, current, sendQueue, inSub, kindSent, reported,
                         inMesh, recent, history, inAttempts>>
          /\ establishing' = FALSE
          /\ outSub' = IF result = "ok" THEN "WaitingOutput" ELSE outSub
          /\ panic' \in BOOLEAN /\ woken' = TRUE
          /\ peerKind' \in {peerKind, k}
      BY <1>2, <2>3 DEF OutboundEvent, LearnKind
    <3>3. outSub = "None"
      BY <1>2 DEF TypeOK, OutboundEvent, IsEnabled, OneOutboundSubstream
    <3>. QED  BY <2>0, <3>1, <3>2, <3>3 DEF TypeOK, history
  <2>. QED  BY <2>1, <2>2, <2>3
<1>. QED  BY <1>1, <1>2 DEF Negotiated

(* Every step keeps the types, given the rest of the invariant.            *)
LEMMA TypeStep == HandlerInv /\ [Next]_vars => TypeOK'
<1>. SUFFICES ASSUME HandlerInv, [Next]_vars PROVE TypeOK'
  OBVIOUS
<1>. USE DEF HandlerInv
<1>1. CASE IdleTimeout
  BY <1>1 DEF TypeOK, IdleTimeout, outVars, tryVars, kindVars, history
<1>2. CASE CloseIdle
  BY <1>2 DEF TypeOK, CloseIdle, outVars, tryVars, kindVars, history
<1>3. CASE UNCHANGED vars
  BY <1>3 DEF TypeOK, vars, outVars, tryVars, kindVars, history
<1>. QED  BY <1>1, <1>2, <1>3, TypeHandlerIn, TypePoll, TypeEvent DEF Next

(***************************************************************************)
(* The outbound substream.                                                 *)
(***************************************************************************)

(* Every step keeps at most one outbound substream or request.             *)
LEMMA SubstreamStep ==
  HandlerInv /\ [Next]_vars => OneOutboundSubstream' /\ AttemptsLeft'
<1>. SUFFICES ASSUME HandlerInv, [Next]_vars
              PROVE  OneOutboundSubstream' /\ AttemptsLeft'
  OBVIOUS
<1>. USE DEF HandlerInv
<1>1. CASE HandlerInMessage \/ \E joined \in BOOLEAN : HandlerInMesh(joined)
  BY <1>1 DEF HandlerInMessage, HandlerInMesh, OneOutboundSubstream,
              AttemptsLeft, outVars, tryVars
<1>2. CASE ReportKind \/ ReportUnsupported \/ ReceiveMessage \/ CloseInbound
  BY <1>2 DEF ReportKind, ReportUnsupported, ReceiveMessage, CloseInbound,
              OneOutboundSubstream, AttemptsLeft, outVars, tryVars
<1>3. CASE RequestSubstream
  BY <1>3 DEF RequestSubstream, MustRequest, OneOutboundSubstream,
              AttemptsLeft, outVars, TypeOK
<1>4. CASE TakeMessage
  BY <1>4 DEF TakeMessage, OneOutboundSubstream, AttemptsLeft, tryVars
<1>5. CASE \E ok \in BOOLEAN : StartSend(ok) \/ Flush(ok)
  BY <1>5 DEF StartSend, Flush, OneOutboundSubstream, AttemptsLeft, tryVars
<1>6. ASSUME NEW ok \in BOOLEAN, NEW k \in Kinds, InboundEvent(ok, k)
      PROVE  OneOutboundSubstream' /\ AttemptsLeft'
  BY <1>6, HandlerAssumption
  DEF InboundEvent, Disable, IsEnabled, OneOutboundSubstream, AttemptsLeft,
      outVars, TypeOK
<1>7. ASSUME NEW result \in {"ok", "failed", "error"}, NEW k \in Kinds,
             OutboundEvent(result, k)
      PROVE  OneOutboundSubstream' /\ AttemptsLeft'
  BY <1>7, HandlerAssumption
  DEF OutboundEvent, Disable, IsEnabled, OneOutboundSubstream, AttemptsLeft,
      TypeOK
<1>8. CASE IdleTimeout \/ CloseIdle
  BY <1>8 DEF IdleTimeout, CloseIdle, OneOutboundSubstream, AttemptsLeft,
              outVars, tryVars
<1>9. CASE UNCHANGED vars
  BY <1>9 DEF vars, OneOutboundSubstream, AttemptsLeft, outVars, tryVars
<1>. QED  BY <1>1, <1>2, <1>3, <1>4, <1>5, <1>6, <1>7, <1>8, <1>9
          DEF Next, Poll, PollOutbound, Negotiated

(***************************************************************************)
(* The kind of the peer.                                                   *)
(***************************************************************************)

(* Every step keeps the kind reported before any traffic.                  *)
LEMMA KindStep ==
  HandlerInv /\ [Next]_vars => KindKnown' /\ KindBeforeTraffic'
<1>. SUFFICES ASSUME HandlerInv, [Next]_vars
              PROVE  KindKnown' /\ KindBeforeTraffic'
  OBVIOUS
<1>. USE DEF HandlerInv
<1>1. CASE HandlerInMessage \/ \E joined \in BOOLEAN : HandlerInMesh(joined)
  BY <1>1 DEF HandlerInMessage, HandlerInMesh, KindKnown, KindBeforeTraffic,
              outVars, kindVars, history
<1>2. CASE ReportKind \/ ReportUnsupported
  <2>1. reported' # <<>>
    BY <1>2, PushType DEF ReportKind, ReportUnsupported, MustReport, TypeOK
  <2>. QED  BY <1>2, <2>1
            DEF ReportKind, ReportUnsupported, KindKnown, KindBeforeTraffic,
                outVars
<1>3. CASE RequestSubstream \/ CloseInbound
  BY <1>3 DEF RequestSubstream, CloseInbound, KindKnown, KindBeforeTraffic,
              outVars, kindVars, history
<1>4. CASE TakeMessage
  BY <1>4 DEF TakeMessage, KindKnown, KindBeforeTraffic, kindVars, history
<1>5. ASSUME PollsSubstreams, inSub # "None" \/ outSub # "None"
      PROVE  reported # <<>>
  BY <1>5 DEF PollsSubstreams, IsEnabled, MustReport, KindKnown
<1>6. CASE ReceiveMessage \/ \E ok \in BOOLEAN : StartSend(ok) \/ Flush(ok)
  <2>1. reported # <<>>
    BY <1>5, <1>6 DEF ReceiveMessage, StartSend, Flush
  <2>. QED  BY <1>6, <2>1
            DEF ReceiveMessage, StartSend, Flush, KindKnown, KindBeforeTraffic,
                outVars, kindVars
<1>7. ASSUME NEW ok \in BOOLEAN, NEW k \in Kinds, InboundEvent(ok, k)
      PROVE  KindKnown' /\ KindBeforeTraffic'
  BY <1>7, HandlerAssumption
  DEF InboundEvent, Disable, LearnKind, KindKnown, KindBeforeTraffic, outVars,
      history
<1>8. ASSUME NEW result \in {"ok", "failed", "error"}, NEW k \in Kinds,
             OutboundEvent(result, k)
      PROVE  KindKnown' /\ KindBeforeTraffic'
  BY <1>8, HandlerAssumption
  DEF OutboundEvent, Disable, LearnKind, KindKnown, KindBeforeTraffic, history
<1>9. CASE IdleTimeout \/ CloseIdle \/ UNCHANGED vars
  BY <1>9 DEF IdleTimeout, CloseIdle, vars, KindKnown, KindBeforeTraffic,
              outVars, kindVars, history
<1>. QED  BY <1>1, <1>2, <1>3, <1>4, <1>6, <1>7, <1>8, <1>9
          DEF Next, Poll, PollOutbound, Negotiated

(***************************************************************************)
(* The theorems.                                                           *)
(***************************************************************************)

(* The invariant holds in every reachable state.                           *)
LEMMA InvHolds == Spec => []HandlerInv
<1>1. Init => HandlerInv
  <2>1. Init => TypeOK
    <3>. SUFFICES ASSUME Init PROVE TypeOK
      OBVIOUS
    <3>1. /\ current \in Seq(1..MaxMessages) /\ Len(current) = 0
          /\ sendQueue \in Seq(1..MaxMessages) /\ wire \in Seq(1..MaxMessages)
          /\ reported \in Seq(Kinds \cup {"NotSupported"})
      BY EmptyQueue DEF Init
    <3>2. 0 \in 0..MaxAttempts /\ 0 \in 0..MaxMessages
      BY HandlerAssumption
    <3>3. /\ mode = "Enabled" /\ outSub = "None" /\ inSub = "None"
          /\ establishing = FALSE /\ kindSent = FALSE /\ inMesh = FALSE
          /\ recent = TRUE /\ received = FALSE /\ panic = FALSE
          /\ outAttempts = 0 /\ inAttempts = 0 /\ requests = 0 /\ queued = 0
          /\ failures = 0 /\ peerKind = "None" /\ woken = TRUE
      BY DEF Init
    <3>. QED  BY <3>1, <3>2, <3>3 DEF TypeOK
  <2>2. Init => OneOutboundSubstream
    BY DEF Init, OneOutboundSubstream
  <2>3. Init => AttemptsLeft
    BY HandlerAssumption DEF Init, AttemptsLeft
  <2>4. Init => KindKnown /\ KindBeforeTraffic
    BY DEF Init, KindKnown, KindBeforeTraffic
  <2>. QED  BY <2>1, <2>2, <2>3, <2>4 DEF HandlerInv
<1>2. HandlerInv /\ [Next]_vars => HandlerInv'
  BY TypeStep, SubstreamStep, KindStep DEF HandlerInv
<1>. QED  BY <1>1, <1>2, PTL DEF Spec

(* The handler's state always has its type.                                *)
THEOREM TypeCorrect == Spec => []TypeOK
<1>1. HandlerInv => TypeOK
  BY DEF HandlerInv
<1>. QED  BY <1>1, InvHolds, PTL

(* The assert! of on_fully_negotiated_outbound never fails, and there is   *)
(* never more than one outbound substream or request for one.              *)
THEOREM SingleSubstream == Spec => []OneOutboundSubstream
<1>1. HandlerInv => OneOutboundSubstream
  BY DEF HandlerInv
<1>. QED  BY <1>1, InvHolds, PTL

(* PeerKind is reported before the first RPC in either direction.          *)
THEOREM KindReportedFirst == Spec => []KindBeforeTraffic
<1>1. HandlerInv => KindBeforeTraffic
  BY DEF HandlerInv
<1>. QED  BY <1>1, InvHolds, PTL

(***************************************************************************)
(* Every message once.                                                     *)
(***************************************************************************)

(* The inductive form: the queue, the message of the substream and the     *)
(* wire hold no number twice, neither in one of them nor in two, and no    *)
(* number that was not handed over yet.                                    *)
Distinct(s) == \A i, j \in 1..Len(s) : s[i] = s[j] => i = j
There == Range(sendQueue) \cup Range(current) \cup Range(wire)
Once ==
  /\ Distinct(sendQueue) /\ Distinct(current) /\ Distinct(wire)
  /\ Range(sendQueue) \cap Range(current) = {}
  /\ Range(sendQueue) \cap Range(wire) = {}
  /\ Range(current) \cap Range(wire) = {}
  /\ There \subseteq 1..queued
MissingExplained ==
  mode = "Enabled" => Cardinality((1..queued) \ There) <= failures

(* The range of a sequence, by its positions.                              *)
LEMMA RangePositions ==
  ASSUME NEW S, NEW s \in Seq(S)
  PROVE  \A x : x \in Range(s) <=> \E i \in 1..Len(s) : s[i] = x
BY LenProperties DEF Range

(* An empty sequence and one of a single message.                          *)
LEMMA ShortDistinct ==
  /\ Range(<<>>) = {} /\ Distinct(<<>>)
  /\ \A x : Range(<<x>>) = {x} /\ Distinct(<<x>>)
<1>1. Range(<<>>) = {} /\ Distinct(<<>>)
  BY DEF Range, Distinct
<1>2. \A x : Range(<<x>>) = {x} /\ Distinct(<<x>>)
  BY DEF Range, Distinct
<1>. QED  BY <1>1, <1>2

(* Pushing a new number.                                                   *)
LEMMA PushDistinct ==
  ASSUME NEW S, NEW s \in Seq(S), NEW m \in S
  PROVE  /\ Range(Append(s, m)) = Range(s) \cup {m}
         /\ Distinct(s) /\ m \notin Range(s) => Distinct(Append(s, m))
<1>. DEFINE t == Append(s, m)
<1>1. /\ t \in Seq(S) /\ Len(t) = Len(s) + 1 /\ Len(s) \in Nat
      /\ \A i \in 1..Len(s) : t[i] = s[i]
      /\ t[Len(s) + 1] = m
  BY AppendProperties, LenProperties
<1>. HIDE DEF t
<1>2. \A x : x \in Range(t) <=> x \in Range(s) \cup {m}
  <2>1. 1..Len(t) = (1..Len(s)) \cup {Len(s) + 1}
    BY <1>1
  <2>. QED  BY <1>1, <2>1, RangePositions
<1>3. ASSUME Distinct(s), m \notin Range(s) PROVE Distinct(t)
  <2>1. \A i \in 1..Len(s) : s[i] # m
    BY <1>3, RangePositions
  <2>. QED  BY <1>1, <1>3, <2>1 DEF Distinct
<1>. QED  BY <1>2, <1>3 DEF t

(* Popping the last number.                                                *)
LEMMA PopDistinct ==
  ASSUME NEW S, NEW s \in Seq(S), s # <<>>
  PROVE  /\ Range(s) = Range(Front(s)) \cup {Last(s)}
         /\ Distinct(s) => Distinct(Front(s)) /\ Last(s) \notin Range(Front(s))
<1>. DEFINE f == Front(s)
<1>1. Len(s) \in Nat /\ Len(s) > 0 /\ \A k \in 1..Len(s) : s[k] \in S
  BY EmptySeq, LenProperties, ElementOfSeq
<1>2. /\ f \in Seq(S) /\ Len(f) = Len(s) - 1
      /\ \A i \in 1..Len(f) : f[i] = s[i]
  <2>1. \A i \in 1..Len(s) - 1 : s[i] \in S
    BY <1>1
  <2>2. /\ f \in Seq(S)
        /\ Len(f) = IF 1 <= Len(s) - 1 THEN (Len(s) - 1) - 1 + 1 ELSE 0
        /\ \A i \in 1..(Len(s) - 1) - 1 + 1 : f[i] = s[1 + i - 1]
    BY <1>1, <2>1, SubSeqProperties DEF Front
  <2>. HIDE DEF f
  <2>3. \A n \in Nat : /\ (n - 1) - 1 + 1 = n - 1 /\ 1 + n - 1 = n
                       /\ n > 0 /\ ~(1 <= n - 1) => n - 1 = 0
    OBVIOUS
  <2>4. Len(f) = Len(s) - 1
    BY <1>1, <2>2, <2>3
  <2>5. \A i \in 1..Len(f) : 1 + i - 1 = i
    OBVIOUS
  <2>. QED  BY <2>2, <2>3, <2>4, <2>5
<1>3. Last(s) = s[Len(s)]
  BY DEF Last
<1>. HIDE DEF f
<1>4. 1..Len(s) = (1..Len(f)) \cup {Len(s)}
  BY <1>1, <1>2
<1>5. \A x : x \in Range(s) <=> x \in Range(f) \cup {Last(s)}
  BY <1>2, <1>3, <1>4, RangePositions
<1>6. ASSUME Distinct(s) PROVE Distinct(f) /\ Last(s) \notin Range(f)
  <2>1. Distinct(f)
    BY <1>1, <1>2, <1>6 DEF Distinct
  <2>2. \A i \in 1..Len(f) : f[i] # s[Len(s)]
    BY <1>1, <1>2, <1>6 DEF Distinct
  <2>. QED  BY <1>2, <1>3, <2>1, <2>2, RangePositions
<1>. QED  BY <1>5, <1>6 DEF f

(* A sequence without repetitions has as many members as positions.        *)
LEMMA DistinctCardinality ==
  ASSUME NEW S, NEW s \in Seq(S), Distinct(s)
  PROVE  IsFiniteSet(Range(s)) /\ Cardinality(Range(s)) = Len(s)
<1>1. Len(s) \in Nat /\ DOMAIN s = 1..Len(s) /\ s \in [1..Len(s) -> S]
  BY LenProperties
<1>2. s \in Bijection(1..Len(s), Range(s))
  <2>1. s \in [1..Len(s) -> Range(s)]
    BY <1>1 DEF Range
  <2>2. \A x \in Range(s) : \E i \in 1..Len(s) : s[i] = x
    BY RangePositions
  <2>. QED  BY <2>1, <2>2 DEF Distinct, Bijection, Injection, Surjection, IsInjective
<1>3. IsFiniteSet(1..Len(s)) /\ Cardinality(1..Len(s)) = Len(s)
  BY <1>1, FS_Interval
<1>. QED  BY <1>2, <1>3, FS_Bijection DEF ExistsBijection

(* The union of two finite sets without a common member.                   *)
LEMMA DisjointUnion ==
  ASSUME NEW A, NEW B, IsFiniteSet(A), IsFiniteSet(B), A \cap B = {}
  PROVE  /\ IsFiniteSet(A \cup B)
         /\ Cardinality(A \cup B) = Cardinality(A) + Cardinality(B)
<1>1. Cardinality(A) \in Nat /\ Cardinality(B) \in Nat
  BY FS_CardinalityType
<1>2. Cardinality(A \cap B) = 0
  BY FS_EmptySet
<1>3. /\ IsFiniteSet(A \cup B)
      /\ Cardinality(A \cup B)
           = Cardinality(A) + Cardinality(B) - Cardinality(A \cap B)
  BY FS_Union
<1>. QED  BY <1>1, <1>2, <1>3

(* The numbers up to n that are not in a set can be counted.               *)
LEMMA MissingFinite ==
  ASSUME NEW n \in Nat, NEW T
  PROVE  IsFiniteSet((1..n) \ T) /\ Cardinality((1..n) \ T) \in Nat
<1>1. IsFiniteSet(1..n)
  BY FS_Interval
<1>2. IsFiniteSet((1..n) \ T)
  BY <1>1, FS_Difference
<1>. QED  BY <1>2, FS_CardinalityType

(* Together they say what NothingLostOrDoubled says.                       *)
LEMMA OnceCounts ==
  ASSUME TypeOK, Once, MissingExplained
  PROVE  NothingLostOrDoubled
<1>1. /\ IsFiniteSet(Range(sendQueue)) /\ Cardinality(Range(sendQueue)) = Len(sendQueue)
      /\ IsFiniteSet(Range(current)) /\ Cardinality(Range(current)) = Len(current)
      /\ IsFiniteSet(Range(wire)) /\ Cardinality(Range(wire)) = Len(wire)
  BY DistinctCardinality DEF TypeOK, Once
<1>2. Len(sendQueue) \in Nat /\ Len(current) \in Nat /\ Len(wire) \in Nat
  BY LenProperties DEF TypeOK
<1>. DEFINE first == Range(sendQueue) \cup Range(current)
<1>3. IsFiniteSet(first) /\ Cardinality(first) = Len(sendQueue) + Len(current)
  BY <1>1, DisjointUnion DEF Once
<1>4. first \cap Range(wire) = {}
  BY DEF Once
<1>5. Cardinality(first \cup Range(wire)) = Len(sendQueue) + Len(current) + Len(wire)
  <2>. HIDE DEF first
  <2>1. Cardinality(first \cup Range(wire)) = Cardinality(first) + Cardinality(Range(wire))
    BY <1>1, <1>3, <1>4, DisjointUnion
  <2>. QED  BY <1>1, <1>3, <2>1
<1>. QED  BY <1>5 DEF NothingLostOrDoubled, MissingExplained, There

(* Steps that move no message.                                             *)
LEMMA OnceFrame ==
  ASSUME Once, MissingExplained, UNCHANGED <<outVars, queued, wire>>,
         failures' = failures, mode' = "Enabled" => mode = "Enabled"
  PROVE  Once' /\ MissingExplained'
BY DEF Once, MissingExplained, There, outVars

(* A handler that is disabled drops what it held, and the wire remains.    *)
LEMMA OnceDisable ==
  ASSUME TypeOK, Once, NEW why \in {"ProtocolUnsupported", "MaxSubstreamAttempts"},
         Disable(why)
  PROVE  Once' /\ MissingExplained'
<1>1. /\ sendQueue' = <<>> /\ current' = <<>> /\ wire' = wire /\ queued' = queued
      /\ mode' # "Enabled"
  BY DEF Disable, history
<1>2. There' \subseteq There
  BY <1>1, ShortDistinct DEF There
<1>. QED  BY <1>1, <1>2, ShortDistinct DEF Once, MissingExplained

(* A message is handed over.                                               *)
LEMMA OnceMessage ==
  ASSUME TypeOK, Once, MissingExplained, HandlerInMessage
  PROVE  Once' /\ MissingExplained'
<1>1. /\ queued \in Nat /\ queued' = queued + 1 /\ mode' = mode
      /\ current' = current /\ wire' = wire /\ failures' = failures
  BY HandlerAssumption DEF TypeOK, HandlerInMessage
<1>2. \A x \in There : x \in 1..queued
  BY DEF Once
<1>3. queued + 1 \notin There /\ queued + 1 \in 1..MaxMessages
  BY <1>1, <1>2, HandlerAssumption DEF HandlerInMessage, TypeOK
<1>4. CASE mode = "Enabled"
  <2>1. sendQueue' = Append(sendQueue, queued + 1)
    BY <1>4 DEF HandlerInMessage
  <2>2. /\ Range(sendQueue') = Range(sendQueue) \cup {queued + 1}
        /\ Distinct(sendQueue')
    <3>1. /\ sendQueue \in Seq(1..MaxMessages) /\ Distinct(sendQueue)
          /\ queued + 1 \notin Range(sendQueue)
      BY <1>3 DEF TypeOK, Once, There
    <3>2. /\ Range(Append(sendQueue, queued + 1)) = Range(sendQueue) \cup {queued + 1}
          /\ Distinct(Append(sendQueue, queued + 1))
      BY <1>3, <3>1, PushDistinct, Zenon
    <3>. QED  BY <2>1, <3>2
  <2>3. There' = There \cup {queued + 1}
    BY <1>1, <2>2 DEF There
  <2>4. There' \subseteq 1..queued'
    BY <1>1, <1>2, <2>3
  <2>5. Once'
    BY <1>1, <1>3, <2>2, <2>4 DEF Once, There
  <2>6. (1..queued') \ There' = (1..queued) \ There
    BY <1>1, <1>2, <2>3
  <2>. QED  BY <1>1, <2>5, <2>6 DEF MissingExplained
<1>5. CASE mode # "Enabled"
  <2>1. sendQueue' = sendQueue
    BY <1>5 DEF HandlerInMessage
  <2>2. There' = There
    BY <1>1, <2>1 DEF There
  <2>3. There' \subseteq 1..queued'
    BY <1>1, <1>2, <2>2
  <2>. QED  BY <1>1, <1>5, <2>1, <2>3 DEF Once, MissingExplained
<1>. QED  BY <1>4, <1>5

(* The last message of the queue becomes the message of the substream.     *)
LEMMA OnceTake ==
  ASSUME TypeOK, Once, MissingExplained, TakeMessage
  PROVE  Once' /\ MissingExplained'
<1>1. current = <<>>
  <2>1. Len(current) = 0
    BY DEF TypeOK, TakeMessage
  <2>. QED  BY <2>1, EmptySeq DEF TypeOK
<1>2. /\ sendQueue' = Front(sendQueue) /\ current' = <<Last(sendQueue)>>
      /\ wire' = wire /\ queued' = queued /\ failures' = failures /\ mode' = mode
  BY DEF TakeMessage, history
<1>3. /\ Range(sendQueue) = Range(Front(sendQueue)) \cup {Last(sendQueue)}
      /\ Distinct(Front(sendQueue)) /\ Last(sendQueue) \notin Range(Front(sendQueue))
  BY PopDistinct DEF TypeOK, Once, TakeMessage
<1>4. Range(current') = {Last(sendQueue)} /\ Distinct(current')
  BY <1>2, ShortDistinct
<1>5. There' = There
  BY <1>1, <1>2, <1>3, <1>4, ShortDistinct DEF There
<1>6. Range(sendQueue') \subseteq Range(sendQueue)
  BY <1>2, <1>3
<1>. QED  BY <1>2, <1>3, <1>4, <1>5, <1>6 DEF Once, MissingExplained

(* It is written, or lost with the substream.                              *)
LEMMA OnceSend ==
  ASSUME TypeOK, Once, MissingExplained, NEW ok \in BOOLEAN, StartSend(ok)
  PROVE  Once' /\ MissingExplained'
<1>1. PICK m \in 1..MaxMessages : current = <<m>>
  <2>1. current \in Seq(1..MaxMessages) /\ Len(current) = 1
    BY DEF TypeOK, StartSend
  <2>2. current[1] \in 1..MaxMessages
    <3>1. 1 \in 1..Len(current)
      BY <2>1
    <3>. QED  BY <2>1, <3>1, ElementOfSeq
  <2>3. current = <<current[1]>>
    BY <2>1, <2>2, SeqEqual
  <2>. QED  BY <2>2, <2>3
<1>2. /\ sendQueue' = sendQueue /\ current' = <<>> /\ queued' = queued /\ mode' = mode
      /\ queued \in Nat /\ failures \in Nat
  BY HandlerAssumption DEF StartSend, TypeOK
<1>3. /\ Range(current) = {m} /\ Range(current') = {} /\ Distinct(current')
      /\ There' = Range(sendQueue) \cup Range(wire')
  BY <1>1, <1>2, ShortDistinct DEF There
<1>4. m \notin Range(sendQueue) /\ m \notin Range(wire)
  BY <1>3 DEF Once
<1>5. CASE ok
  <2>1. wire' = wire \o <<m>> /\ failures' = failures
    BY <1>1, <1>5 DEF StartSend
  <2>2. wire' = Append(wire, m)
    BY <2>1, AppendIsConcat DEF TypeOK
  <2>3. Range(wire') = Range(wire) \cup {m} /\ Distinct(wire')
    <3>1. wire \in Seq(1..MaxMessages) /\ Distinct(wire)
      BY DEF TypeOK, Once
    <3>2. /\ Range(Append(wire, m)) = Range(wire) \cup {m}
          /\ Distinct(wire) /\ m \notin Range(wire) => Distinct(Append(wire, m))
      BY <3>1, PushDistinct
    <3>. QED  BY <1>4, <2>2, <3>1, <3>2
  <2>4. There' = There
    BY <1>3, <2>3 DEF There
  <2>. QED  BY <1>2, <1>3, <1>4, <2>1, <2>3, <2>4 DEF Once, MissingExplained
<1>6. CASE ~ok
  <2>1. wire' = wire /\ failures' = failures + 1
    BY <1>6 DEF StartSend
  <2>2. There' \subseteq There /\ There \subseteq There' \cup {m}
    BY <1>3, <2>1 DEF There
  <2>3. Once'
    BY <1>2, <1>3, <2>1, <2>2 DEF Once
  <2>4. Cardinality((1..queued) \ There') <= Cardinality((1..queued) \ There) + 1
    <3>. DEFINE missing == (1..queued) \ There
    <3>1. IsFiniteSet(missing)
      BY <1>2, MissingFinite
    <3>2. /\ IsFiniteSet(missing \cup {m})
          /\ Cardinality(missing \cup {m}) <= Cardinality(missing) + 1
      <4>. HIDE DEF missing
      <4>1. Cardinality(missing) \in Nat
        BY <3>1, FS_CardinalityType
      <4>2. /\ IsFiniteSet(missing \cup {m})
            /\ Cardinality(missing \cup {m})
                 = IF m \in missing THEN Cardinality(missing)
                                    ELSE Cardinality(missing) + 1
        BY <3>1, FS_AddElement
      <4>. QED  BY <4>1, <4>2
    <3>3. (1..queued) \ There' \in SUBSET (missing \cup {m})
      BY <2>2
    <3>4. /\ Cardinality((1..queued) \ There') <= Cardinality(missing \cup {m})
          /\ IsFiniteSet((1..queued) \ There')
      BY <3>2, <3>3, FS_Subset
    <3>5. /\ Cardinality(missing) \in Nat /\ Cardinality(missing \cup {m}) \in Nat
          /\ Cardinality((1..queued) \ There') \in Nat
      BY <3>1, <3>2, <3>4, FS_CardinalityType
    <3>. QED  BY <3>2, <3>4, <3>5
  <2>5. Cardinality((1..queued) \ There) \in Nat /\ Cardinality((1..queued) \ There') \in Nat
    BY <1>2, MissingFinite
  <2>. QED  BY <1>2, <2>1, <2>3, <2>4, <2>5 DEF MissingExplained
<1>. QED  BY <1>5, <1>6

(* A flush that fails breaks the substream after its message was counted.  *)
LEMMA OnceFlush ==
  ASSUME TypeOK, Once, MissingExplained, NEW ok \in BOOLEAN, Flush(ok)
  PROVE  Once' /\ MissingExplained'
<1>1. /\ UNCHANGED <<sendQueue, current, wire, queued, mode>>
      /\ failures' \in {failures, failures + 1} /\ failures \in Nat /\ queued \in Nat
  BY HandlerAssumption DEF Flush, TypeOK
<1>2. Cardinality((1..queued) \ There) \in Nat
  BY <1>1, MissingFinite
<1>3. There' = There
  BY <1>1 DEF There
<1>. QED  BY <1>1, <1>2, <1>3 DEF Once, MissingExplained

(* Every step keeps it.                                                    *)
LEMMA OnceStep ==
  HandlerInv /\ Once /\ MissingExplained /\ [Next]_vars
    => Once' /\ MissingExplained'
<1>. SUFFICES ASSUME HandlerInv, Once, MissingExplained, [Next]_vars
              PROVE  Once' /\ MissingExplained'
  OBVIOUS
<1>0. TypeOK
  BY DEF HandlerInv
<1>1. ASSUME NEW joined \in BOOLEAN, HandlerInMesh(joined)
      PROVE  Once' /\ MissingExplained'
  BY <1>1, OnceFrame DEF HandlerInMesh, outVars, history
<1>2. CASE ReportKind \/ ReportUnsupported \/ RequestSubstream \/ CloseInbound
  BY <1>2, OnceFrame DEF ReportKind, ReportUnsupported, RequestSubstream,
                         CloseInbound, outVars, history
<1>3. CASE ReceiveMessage
  BY <1>3, OnceFrame DEF ReceiveMessage
<1>4. ASSUME NEW ok \in BOOLEAN, NEW k \in Kinds, InboundEvent(ok, k)
      PROVE  Once' /\ MissingExplained'
  <2>1. CASE Disable("MaxSubstreamAttempts")
    BY <1>0, <2>1, OnceDisable
  <2>2. CASE ~Disable("MaxSubstreamAttempts")
    BY <1>4, <2>2, OnceFrame DEF InboundEvent, outVars, history
  <2>. QED  BY <2>1, <2>2
<1>5. ASSUME NEW result \in {"ok", "failed", "error"}, NEW k \in Kinds,
             OutboundEvent(result, k)
      PROVE  Once' /\ MissingExplained'
  <2>1. ASSUME NEW why \in {"ProtocolUnsupported", "MaxSubstreamAttempts"}, Disable(why)
        PROVE  Once' /\ MissingExplained'
    BY <1>0, <2>1, OnceDisable
  <2>2. CASE /\ \A why \in {"ProtocolUnsupported", "MaxSubstreamAttempts"} : ~Disable(why)
    <3>1. UNCHANGED <<mode, current, sendQueue, history>>
      BY <1>5, <2>2 DEF OutboundEvent
    <3>. QED  BY <3>1 DEF Once, MissingExplained, There, history
  <2>. QED  BY <2>1, <2>2
<1>6. CASE IdleTimeout \/ CloseIdle
  BY <1>6, OnceFrame DEF IdleTimeout, CloseIdle, history
<1>7. CASE UNCHANGED vars
  BY <1>7, OnceFrame DEF vars, history
<1>. QED  BY <1>0, <1>1, <1>2, <1>3, <1>4, <1>5, <1>6, <1>7, OnceMessage, OnceTake,
             OnceSend, OnceFlush DEF Next, Poll, PollOutbound, Negotiated

(* No message is written twice, and an enabled handler misses none but     *)
(* those whose substream broke while it was their turn.                    *)
THEOREM NoMessageLostOrDoubled == Spec => []NothingLostOrDoubled
<1>. DEFINE Inv == HandlerInv /\ Once /\ MissingExplained
<1>1. Init => Once /\ MissingExplained
  <2>. SUFFICES ASSUME Init PROVE Once /\ MissingExplained
    OBVIOUS
  <2>1. /\ sendQueue = <<>> /\ current = <<>> /\ wire = <<>> /\ queued = 0
        /\ failures = 0
    BY DEF Init
  <2>2. There = {} /\ (1..queued) \ There = {}
    BY <2>1, ShortDistinct DEF There
  <2>. QED  BY <2>1, <2>2, ShortDistinct, FS_EmptySet DEF Once, MissingExplained
<1>2. HandlerInv /\ (Once /\ MissingExplained) /\ [Next]_vars
        => (Once /\ MissingExplained)'
  BY OnceStep
<1>3. HandlerInv /\ Once /\ MissingExplained => NothingLostOrDoubled
  BY OnceCounts DEF HandlerInv
<1>. QED  BY <1>1, <1>2, <1>3, InvHolds, PTL DEF Spec
=============================================================================
