------------------------------ MODULE Handler -------------------------------
(***************************************************************************)
(* The connection handler of the gossipsub behaviour (gossipsub/           *)
(* handler.rs), one per connection: it opens an outbound substream when    *)
(* there is something to send, sends one message after the other over it,  *)
(* reads the inbound substream that the remote opened, and is disabled     *)
(* when the remote does not speak gossipsub or substreams keep failing.    *)
(*                                                                         *)
(* The loops of EnabledHandler::poll are taken one iteration per step: a   *)
(* substream may answer Pending to any of its polls, so a poll can end     *)
(* after any iteration.  Messages are numbered in the order in which the   *)
(* behaviour hands them over.                                              *)
(***************************************************************************)
EXTENDS Integers, Sequences, FiniteSets, SequencesExt

CONSTANTS
  MaxAttempts,    \* MAX_SUBSTREAM_ATTEMPTS
  MaxMessages,    \* bounds the messages the behaviour sends
  Kinds           \* the protocols a substream may be negotiated for

ASSUME HandlerAssumption ==
  /\ MaxAttempts \in Nat \ {0} /\ MaxMessages \in Nat
  /\ "None" \notin Kinds /\ "NotSupported" \notin Kinds

VARIABLES
  mode,           \* Enabled, or why it is Disabled; or Closed
  outSub,         \* outbound_substream
  current,        \* the message of PendingSend: <<m>> or <<>>
  inSub,          \* inbound_substream
  sendQueue,      \* send_queue
  establishing,   \* outbound_substream_establishing
  outAttempts,    \* outbound_substream_attempts
  inAttempts,     \* inbound_substream_attempts
  peerKind,       \* peer_kind
  kindSent,       \* peer_kind_sent
  inMesh,         \* in_mesh
  recent,         \* last_io_activity is less than idle_timeout ago
  requests,       \* outbound substreams the swarm is negotiating
  queued,         \* history: how many messages were handed over
  wire,           \* history: the messages started on a substream
  failures,       \* history: how many outbound substreams broke
  received,       \* history: an RPC was handed to the behaviour
  reported,       \* history: the kinds reported to the behaviour
  panic,          \* an assert! has failed
  woken           \* a poll is due: the connection's task is woken, or will be
                  \* by the substream that the last poll found Pending

outVars  == <<outSub, current, sendQueue>>
tryVars  == <<establishing, outAttempts, inAttempts, requests>>
kindVars == <<peerKind, kindSent, reported>>
history  == <<queued, wire, failures, received>>
vars == <<mode, outVars, inSub, tryVars, kindVars, inMesh, recent, history, panic,
          woken>>

-----------------------------------------------------------------------------
(* Helpers.                                                                *)

IsEnabled == mode = "Enabled" /\ ~panic

(* poll first reports the kind, then asks for an outbound substream; only  *)
(* when there is neither to do it looks at the substreams.                 *)
MustReport == peerKind # "None" /\ ~kindSent

(* Mutant: forgets that a request is under way.                            *)
MustRequestAgain == sendQueue # <<>> /\ outSub = "None"

(* Mutant: a substream that broke is not replaced.                         *)
MustRequestOnce == sendQueue # <<>> /\ outSub = "None" /\ outAttempts = 0
                   /\ ~establishing

MustRequest == sendQueue # <<>> /\ outSub = "None" /\ ~establishing

(* Mutant: looks at the substreams before it reports the kind.             *)
PollsSubstreamsEarly == IsEnabled /\ ~MustRequest

PollsSubstreams == IsEnabled /\ ~MustReport /\ ~MustRequest

(* *self = Handler::Disabled(...): everything an enabled handler held is   *)
(* dropped.                                                                *)
Disable(why) ==
  /\ mode' = why
  /\ outSub' = "None" /\ current' = <<>> /\ sendQueue' = <<>>
  /\ inSub' = "None"
  /\ establishing' = FALSE
  /\ peerKind' = "None" /\ kindSent' = FALSE
  /\ inMesh' = FALSE
  /\ UNCHANGED <<recent, history, reported, panic>>

(* update the known kind of peer                                           *)
LearnKind(k) == peerKind' = IF peerKind = "None" THEN k ELSE peerKind

-----------------------------------------------------------------------------
(* on_behaviour_event; a handler that is disabled drops the message.       *)

HandlerInMessage ==
  /\ ~panic /\ mode # "Closed"
  /\ queued < MaxMessages
  /\ queued' = queued + 1
  /\ sendQueue' = IF mode = "Enabled" THEN Append(sendQueue, queued + 1)
                                      ELSE sendQueue
  /\ woken' = TRUE
  /\ UNCHANGED <<mode, outSub, current, inSub, tryVars, kindVars, inMesh,
                 recent, wire, failures, received, panic>>

HandlerInMesh(joined) ==
  /\ IsEnabled
  /\ inMesh' = joined
  /\ woken' = TRUE
  /\ UNCHANGED <<mode, outVars, inSub, tryVars, kindVars, recent, history, panic>>

-----------------------------------------------------------------------------
(* poll.  After a poll that returns an event the handler is polled again.  *)
(* One that has dropped the outbound substream returns Pending, and leaves *)
(* no waker anywhere.                                                      *)

ReportKind ==
  /\ IsEnabled /\ MustReport
  /\ kindSent' = TRUE
  /\ reported' = Append(reported, peerKind)
  /\ woken' = TRUE
  /\ UNCHANGED <<mode, outVars, inSub, tryVars, peerKind, inMesh, recent,
                 history, panic>>

RequestSubstream ==
  /\ IsEnabled /\ ~MustReport /\ MustRequest
  /\ establishing' = TRUE
  /\ requests' = requests + 1
  /\ woken' = TRUE
  /\ UNCHANGED <<mode, outVars, inSub, outAttempts, inAttempts, kindVars,
                 inMesh, recent, history, panic>>

(* The inbound substream yields a message, or it fails or ends and is      *)
(* closed; closing it may end either way.                                  *)
ReceiveMessage ==
  /\ PollsSubstreams /\ inSub = "WaitingInput"
  /\ recent' = TRUE /\ received' = TRUE
  /\ woken' = TRUE
  /\ UNCHANGED <<mode, outVars, inSub, tryVars, kindVars, inMesh, queued,
                 wire, failures, panic>>

CloseInbound ==
  /\ PollsSubstreams
  /\ \/ inSub = "WaitingInput" /\ inSub' = "Closing"
     \/ inSub = "Closing" /\ inSub' = "None"
  /\ UNCHANGED <<mode, outVars, tryVars, kindVars, inMesh, recent, history, panic,
                 woken>>

(* WaitingOutput: the last message of the send queue is popped.            *)
TakeMessage ==
  /\ PollsSubstreams /\ outSub = "WaitingOutput" /\ sendQueue # <<>>
  /\ outSub' = "PendingSend"
  /\ current' = <<Last(sendQueue)>>
  /\ sendQueue' = Front(sendQueue)
  /\ UNCHANGED <<mode, inSub, tryVars, kindVars, inMesh, recent, history, panic,
                 woken>>

(* PendingSend: poll_ready and start_send; either may fail, which drops    *)
(* the substream and the message.                                          *)
StartSend(ok) ==
  /\ PollsSubstreams /\ outSub = "PendingSend"
  /\ outSub' = IF ok THEN "PendingFlush" ELSE "None"
  /\ wire' = IF ok THEN wire \o current ELSE wire
  /\ failures' = IF ok THEN failures ELSE failures + 1
  /\ woken' = ok
  /\ current' = <<>>
  /\ UNCHANGED <<mode, sendQueue, inSub, tryVars, kindVars, inMesh, recent,
                 queued, received, panic>>

(* Mutant: what could not be flushed is queued again.                      *)
FlushOrRequeue(ok) ==
  /\ PollsSubstreams /\ outSub = "PendingFlush"
  /\ outSub' = IF ok THEN "WaitingOutput" ELSE "None"
  /\ sendQueue' = IF ok THEN sendQueue ELSE Append(sendQueue, Last(wire))
  /\ recent' = (ok \/ recent)
  /\ failures' = IF ok THEN failures ELSE failures + 1
  /\ woken' = ok
  /\ UNCHANGED <<mode, current, inSub, tryVars, kindVars, inMesh, queued,
                 wire, received, panic>>

(* PendingFlush: poll_flush may fail too.                                  *)
Flush(ok) ==
  /\ PollsSubstreams /\ outSub = "PendingFlush"
  /\ outSub' = IF ok THEN "WaitingOutput" ELSE "None"
  /\ recent' = (ok \/ recent)
  /\ failures' = IF ok THEN failures ELSE failures + 1
  /\ woken' = ok
  /\ UNCHANGED <<mode, current, sendQueue, inSub, tryVars, kindVars, inMesh,
                 queued, wire, received, panic>>

(* poll of a handler disabled with ProtocolUnsupported.                    *)
ReportUnsupported ==
  /\ mode = "ProtocolUnsupported" /\ ~kindSent
  /\ kindSent' = TRUE
  /\ reported' = Append(reported, "NotSupported")
  /\ woken' = TRUE
  /\ UNCHANGED <<mode, outVars, inSub, tryVars, peerKind, inMesh, recent,
                 history, panic>>

-----------------------------------------------------------------------------
(* on_connection_event.                                                    *)

(* FullyNegotiatedInbound, or ListenUpgradeError.  A new inbound substream *)
(* replaces the old one.  A disabled handler denies inbound substreams.    *)
InboundEvent(ok, k) ==
  /\ IsEnabled
  /\ inAttempts' = inAttempts + 1
  /\ woken' = TRUE
  /\ UNCHANGED <<outAttempts, requests>>
  /\ IF inAttempts + 1 = MaxAttempts
     THEN Disable("MaxSubstreamAttempts")
     ELSE /\ inSub' = IF ok THEN "WaitingInput" ELSE inSub
          /\ IF ok THEN LearnKind(k) ELSE UNCHANGED peerKind
          /\ UNCHANGED <<mode, outVars, establishing, kindSent, reported,
                         inMesh, recent, history, panic>>

(* FullyNegotiatedOutbound ("ok"), or DialUpgradeError: the remote does    *)
(* not support the protocol ("failed"), or the negotiation did not end     *)
(* well for another reason ("error").                                      *)
OutboundEvent(result, k) ==
  /\ IsEnabled /\ requests > 0
  /\ requests' = requests - 1
  /\ outAttempts' = outAttempts + 1
  /\ woken' = TRUE
  /\ UNCHANGED inAttempts
  /\ \/ /\ outAttempts + 1 = MaxAttempts
        /\ Disable("MaxSubstreamAttempts")
     \/ /\ outAttempts + 1 # MaxAttempts /\ result = "failed"
        /\ Disable("ProtocolUnsupported")
     \/ /\ outAttempts + 1 # MaxAttempts /\ result # "failed"
        /\ establishing' = FALSE
        /\ IF result = "ok" THEN LearnKind(k) ELSE UNCHANGED peerKind
        /\ panic' = (result = "ok" /\ outSub # "None")
        /\ outSub' = IF result = "ok" THEN "WaitingOutput" ELSE outSub
        /\ UNCHANGED <<mode, current, sendQueue, inSub, kindSent, reported,
                       inMesh, recent, history>>

-----------------------------------------------------------------------------
(* connection_keep_alive, and the swarm's use of it.                       *)

KeepAliveYes ==
  /\ mode = "Enabled"
  /\ inMesh \/ outSub \in {"PendingSend", "PendingFlush"}

IdleTimeout ==
  /\ ~panic /\ mode # "Closed"
  /\ recent
  /\ recent' = FALSE
  /\ UNCHANGED <<mode, outVars, inSub, tryVars, kindVars, inMesh, history, panic,
                 woken>>

CloseIdle ==
  /\ ~panic /\ mode # "Closed"
  /\ ~KeepAliveYes
  /\ mode = "Enabled" => ~recent
  /\ mode' = "Closed"
  /\ UNCHANGED <<outVars, inSub, tryVars, kindVars, inMesh, recent, history, panic,
                 woken>>

-----------------------------------------------------------------------------
Init ==
  /\ mode = "Enabled"
  /\ outSub = "None" /\ current = <<>> /\ inSub = "None" /\ sendQueue = <<>>
  /\ establishing = FALSE /\ outAttempts = 0 /\ inAttempts = 0
  /\ peerKind = "None" /\ kindSent = FALSE
  /\ inMesh = FALSE /\ recent = TRUE
  /\ requests = 0
  /\ queued = 0 /\ wire = <<>> /\ failures = 0 /\ received = FALSE
  /\ reported = <<>>
  /\ panic = FALSE /\ woken = TRUE

PollOutbound ==
  \/ RequestSubstream
  \/ TakeMessage
  \/ \E ok \in BOOLEAN : StartSend(ok) \/ Flush(ok)

Poll == ReportKind \/ ReportUnsupported \/ PollOutbound
        \/ ReceiveMessage \/ CloseInbound

Negotiated == \E result \in {"ok", "failed", "error"}, k \in Kinds :
                OutboundEvent(result, k)

Next ==
  \/ HandlerInMessage
  \/ \E joined \in BOOLEAN : HandlerInMesh(joined)
  \/ Poll
  \/ \E ok \in BOOLEAN, k \in Kinds : InboundEvent(ok, k)
  \/ Negotiated
  \/ IdleTimeout
  \/ CloseIdle

Spec == Init /\ [][Next]_vars

(* The swarm polls the handler after every event and wake-up, and whenever *)
(* it likes, but need not do so otherwise; negotiations end, if only by    *)
(* their timeout; a substream is ready or fails sometime, and the inbound  *)
(* one is not readable at every poll.                                      *)
Fairness ==
  /\ WF_vars(woken /\ ReportKind) /\ WF_vars(woken /\ ReportUnsupported)
  /\ WF_vars(woken /\ PollOutbound)
  /\ WF_vars(Negotiated)
FairSpec == Spec /\ Fairness

-----------------------------------------------------------------------------
(* The state has its type.                                                 *)
TypeOK ==
  /\ mode \in {"Enabled", "ProtocolUnsupported", "MaxSubstreamAttempts", "Closed"}
  /\ outSub \in {"None", "WaitingOutput", "PendingSend", "PendingFlush"}
  /\ current \in Seq(1..MaxMessages)
  /\ Len(current) = IF outSub = "PendingSend" THEN 1 ELSE 0
  /\ inSub \in {"None", "WaitingInput", "Closing"}
  /\ sendQueue \in Seq(1..MaxMessages)
  /\ establishing \in BOOLEAN
  /\ outAttempts \in 0..MaxAttempts /\ inAttempts \in 0..MaxAttempts
  /\ peerKind \in Kinds \cup {"None"} /\ kindSent \in BOOLEAN
  /\ inMesh \in BOOLEAN /\ recent \in BOOLEAN
  /\ requests \in Nat
  /\ queued \in 0..MaxMessages /\ wire \in Seq(1..MaxMessages)
  /\ failures \in Nat /\ received \in BOOLEAN
  /\ reported \in Seq(Kinds \cup {"NotSupported"})
  /\ panic \in BOOLEAN /\ woken \in BOOLEAN

(* An enabled handler has one outbound substream or one request for it,    *)
(* never both and never two: outbound_substream_establishing, cleared by   *)
(* events and set by polls, tells the truth.  This is why the assert! of   *)
(* on_fully_negotiated_outbound cannot fail.                               *)
OneOutboundSubstream ==
  /\ ~panic
  /\ mode = "Enabled" => /\ requests = IF establishing THEN 1 ELSE 0
                         /\ establishing => outSub = "None"

(* The kind of the peer has been reported before a message is read from it *)
(* or written to it: until then the behaviour takes it for a floodsub peer.*)
KindBeforeTraffic == received \/ wire # <<>> => reported # <<>>

(* No message is written twice, and as long as the handler is enabled, a   *)
(* message is missing only if a substream broke while it was its turn.     *)
NothingLostOrDoubled ==
  LET there == Range(sendQueue) \cup Range(current) \cup Range(wire)
  IN /\ Cardinality(there) = Len(sendQueue) + Len(current) + Len(wire)
     /\ mode = "Enabled" => Cardinality((1..queued) \ there) <= failures

(* Every message handed over is written, unless its substream breaks, the  *)
(* handler is disabled or the connection is closed; or the poll that found *)
(* the substream broken was the last one: it asks for no other substream   *)
(* and for no wake-up, so the rest of the queue stays until something else *)
(* happens to the connection.                                              *)
QueueDrains ==
  <>[](\/ sendQueue = <<>> /\ current = <<>>
       \/ mode = "Closed"
       \/ ~woken)
=============================================================================
