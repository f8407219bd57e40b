------------------------------ MODULE NodeLoop ------------------------------
(***************************************************************************)
(* The node (waku-node/src/node.rs) and its event loop (waku-node/src/     *)
(* event_loop/event_loop.rs): the application's calls travel to the loop   *)
(* through one bounded channel, relay messages travel back through         *)
(* another, and each call waits for its answer on a oneshot channel.       *)
(*                                                                         *)
(* The calls borrow the node, so several may be under way, but receiving   *)
(* an event borrows it mutably: an application that waits for an answer    *)
(* does not receive events meanwhile.                                      *)
(***************************************************************************)
EXTENDS Integers, Sequences, SequencesExt

CONSTANTS
  RelayCalls,       \* calls of relay_subscribe, relay_unsubscribe, ...
  SwitchCalls,      \* calls of switch_listen_on and switch_dial
  CommandCapacity,  \* of the command channel (32 in the code)
  EventCapacity,    \* of the event channel (32 in the code)
  RelayEnabled,     \* NodeConfig::relay is set
  MaxMessages       \* bounds the messages the relay delivers

Calls == RelayCalls \cup SwitchCalls

ASSUME NodeAssumption ==
  /\ CommandCapacity \in Nat \ {0} /\ EventCapacity \in Nat \ {0}
  /\ RelayEnabled \in BOOLEAN /\ MaxMessages \in Nat
  /\ RelayCalls \cap SwitchCalls = {}

VARIABLES
  call,       \* where each call is
  commands,   \* the command channel
  events,     \* the event channel
  sending,    \* the message that handle_waku_relay_event waits to send
  loop,       \* "running" or "ended"
  node,       \* "held" by the application, or "dropped"
  emitted,    \* history: how many messages the relay has delivered
  received    \* history: the messages the application has received

vars == <<call, commands, events, sending, loop, node, emitted, received>>

-----------------------------------------------------------------------------
(* The application.                                                        *)

UnderWay == {c \in Calls : call[c] \in {"sending", "waiting"}}

(* A call is made, and waits until its command fits into the channel.      *)
StartCall(c) ==
  /\ node = "held" /\ call[c] = "new"
  /\ call' = [call EXCEPT ![c] = "sending"]
  /\ UNCHANGED <<commands, events, sending, loop, node, emitted, received>>

SendCommand(c) ==
  /\ call[c] = "sending" /\ loop = "running"
  /\ Len(commands) < CommandCapacity
  /\ commands' = Append(commands, c)
  /\ call' = [call EXCEPT ![c] = "waiting"]
  /\ UNCHANGED <<events, sending, loop, node, emitted, received>>

(* The application drops the future of a call, for instance on a timeout.  *)
AbandonCall(c) ==
  /\ c \in UnderWay
  /\ call' = [call EXCEPT ![c] = "abandoned"]
  /\ UNCHANGED <<commands, events, sending, loop, node, emitted, received>>

(* recv_event.                                                             *)
RecvEvent ==
  /\ node = "held" /\ UnderWay = {}
  /\ events # <<>>
  /\ received' = Append(received, Head(events))
  /\ events' = Tail(events)
  /\ UNCHANGED <<call, commands, sending, loop, node, emitted>>

(* The application drops the node, and with it both ends it holds.         *)
DropNode ==
  /\ node = "held" /\ UnderWay = {}
  /\ node' = "dropped"
  /\ events' = <<>>
  /\ UNCHANGED <<call, commands, sending, loop, emitted, received>>

-----------------------------------------------------------------------------
(* The event loop.  It looks at both of its sources, unless it is in the   *)
(* middle of sending an event.                                             *)

Selecting == loop = "running" /\ sending = <<>>

(* handle_command: the answer goes to whoever still waits for it.  The     *)
(* swarm and the behaviour may refuse what they are asked.                 *)
Answers(c) == IF c \in RelayCalls /\ ~RelayEnabled THEN {"err"} ELSE {"ok", "err"}

(* Mutant: an early return keeps what the swarm refused from the caller.   *)
HandleCommandRefusing ==
  /\ Selecting /\ commands # <<>>
  /\ LET c == Head(commands)
     IN \E answer \in Answers(c) :
          call' = IF call[c] = "waiting" /\ answer = "ok"
                  THEN [call EXCEPT ![c] = answer] ELSE call
  /\ commands' = Tail(commands)
  /\ UNCHANGED <<events, sending, loop, node, emitted, received>>

HandleCommand ==
  /\ Selecting /\ commands # <<>>
  /\ LET c == Head(commands)
     IN \E answer \in Answers(c) :
          call' = IF call[c] = "waiting" THEN [call EXCEPT ![c] = answer] ELSE call
  /\ commands' = Tail(commands)
  /\ UNCHANGED <<events, sending, loop, node, emitted, received>>

(* The swarm yields a relay message; other events are only logged.         *)
RelayMessage ==
  /\ Selecting /\ RelayEnabled
  /\ emitted < MaxMessages
  /\ emitted' = emitted + 1
  /\ sending' = <<emitted + 1>>
  /\ UNCHANGED <<call, commands, events, loop, node, received>>

(* Mutant: what does not fit into the channel is dropped.                  *)
TrySendEvent ==
  /\ sending # <<>>
  /\ events' = IF node = "held" /\ Len(events) < EventCapacity
               THEN events \o sending ELSE events
  /\ sending' = <<>>
  /\ UNCHANGED <<call, commands, loop, node, emitted, received>>

(* Mutant: does not notice that nobody can receive the event any more.     *)
SendEventHeld ==
  /\ sending # <<>>
  /\ Len(events) < EventCapacity /\ node = "held"
  /\ events' = events \o sending
  /\ sending' = <<>>
  /\ UNCHANGED <<call, commands, loop, node, emitted, received>>

(* event_sink.send: waits for room in the channel; fails, and the message  *)
(* is dropped, when nobody can receive it.                                 *)
SendEvent ==
  /\ sending # <<>>
  /\ node = "held" => Len(events) < EventCapacity
  /\ events' = IF node = "held" THEN events \o sending ELSE events
  /\ sending' = <<>>
  /\ UNCHANGED <<call, commands, loop, node, emitted, received>>

(* command_source yields None: the sender is gone and the channel empty.   *)
EndLoop ==
  /\ Selecting /\ commands = <<>> /\ node = "dropped"
  /\ loop' = "ended"
  /\ UNCHANGED <<call, commands, events, sending, node, emitted, received>>

-----------------------------------------------------------------------------
Init ==
  /\ call = [c \in Calls |-> "new"]
  /\ commands = <<>> /\ events = <<>> /\ sending = <<>>
  /\ loop = "running" /\ node = "held"
  /\ emitted = 0 /\ received = <<>>

Next ==
  \/ \E c \in Calls : StartCall(c) \/ SendCommand(c) \/ AbandonCall(c)
  \/ RecvEvent
  \/ DropNode
  \/ HandleCommand
  \/ RelayMessage
  \/ SendEvent
  \/ EndLoop

Spec == Init /\ [][Next]_vars

(* The runtime polls the tasks that can go on; tokio::select! starts with  *)
(* a random branch, so that a branch that is ready again and again is      *)
(* taken.  The application receives events whenever it may; it need not    *)
(* make calls, abandon them or drop the node.                              *)
Fairness ==
  /\ \A c \in Calls : WF_vars(SendCommand(c))
  /\ SF_vars(HandleCommand) /\ WF_vars(SendEvent) /\ SF_vars(EndLoop)
  /\ WF_vars(RecvEvent)
FairSpec == Spec /\ Fairness

-----------------------------------------------------------------------------
(* The state has its type, and the channels keep their capacity.           *)
TypeOK ==
  /\ call \in [Calls -> {"new", "sending", "waiting", "abandoned", "ok", "err"}]
  /\ commands \in Seq(Calls) /\ Len(commands) <= CommandCapacity
  /\ events \in Seq(1..MaxMessages) /\ Len(events) <= EventCapacity
  /\ sending \in Seq(1..MaxMessages) /\ Len(sending) <= 1
  /\ loop \in {"running", "ended"} /\ node \in {"held", "dropped"}
  /\ emitted \in 0..MaxMessages /\ received \in Seq(1..MaxMessages)

(* As long as the application holds the node it receives every relay       *)
(* message once and in order, however far it falls behind.                 *)
NoEventLost ==
  node = "held" => received \o events \o sending = [i \in 1..emitted |-> i]

(* Once the node is dropped, the loop ends, even if it was about to send   *)
(* an event.                                                               *)
LoopEnds == node = "dropped" ~> loop = "ended"

(* A call gets its answer, unless the event channel fills up before.       *)
EventChannelFull == sending # <<>> /\ Len(events) = EventCapacity
AnsweredUnlessFull ==
  \A c \in Calls : call[c] = "sending" ~> c \notin UnderWay \/ EventChannelFull

=============================================================================
