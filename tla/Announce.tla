------------------------------ MODULE Announce ------------------------------
(***************************************************************************)
(* What one remote peer knows of our subscriptions: the composition of the *)
(* behaviour that announces them (subscribe, unsubscribe and the greeting  *)
(* of a new peer), the fragmentation of RPCs, the queues of the connection *)
(* handlers, the substreams, and the remote peer's subscription filter.    *)
(*                                                                         *)
(* Of a handler only what decides when and in which order RPCs leave is    *)
(* kept here; module Handler has the rest.                                 *)
(***************************************************************************)
EXTENDS Naturals, FiniteSets, SequencesExt, Fragmentation, SubscriptionFilter

CONSTANTS
  Topics,       \* the topics that our own filter lets us subscribe to
  Conns,        \* connections to the remote peer (ConnectionId)
  SizeOf,       \* the encoded length of a subscription to each topic
  Filters,      \* the subscription filters the remote peer may have
  MaxTransmit,  \* Config::max_transmit_size
  MaxQueue      \* bound: RPCs under way over one connection

(* ConfigBuilder::build asks for at least 100 bytes.                       *)
ASSUME SizesAssumption ==
  /\ IsFiniteSet(Topics) /\ SizeOf \in [Topics -> Nat]
  /\ MaxTransmit \in Nat /\ MaxTransmit >= 100 /\ MaxQueue \in Nat

ASSUME FiltersAssumption ==
  \A f \in Filters : /\ f.allowed \subseteq Topics
                     /\ f.maxTopics \in Nat /\ f.maxPerRequest \in Nat

VARIABLES
  subs,         \* the keys of mesh: the topics we are subscribed to
  blacklisted,  \* is the remote peer in blacklisted_peers?
  conns,        \* the connections that are open, to us
  remote,       \* the connections that are open, to the remote peer
  queue,        \* EnabledHandler.send_queue of each connection
  substream,    \* its outbound substream: "None", "Open", or "Disabled"
  wire,         \* RPCs sent over it and not yet received
  filter,       \* the remote peer's subscription_filter
  view,         \* the remote peer's peer_topics for us
  unsure        \* history: topics of which announcements overtook one another,
                \* were lost, refused or not made, see ViewsAgree

connVars == <<conns, remote, queue, substream, wire>>
vars == <<subs, blacklisted, connVars, filter, view, unsure>>

-----------------------------------------------------------------------------
(* RPCs.                                                                   *)

(* A subscription as an object of an RPC.                                  *)
Object(s) == [topic |-> s.topic, action |-> s.action, size |-> SizeOf[s.topic]]

SubscriptionsOf(rpc) ==
  [i \in DOMAIN rpc.plain |-> [topic  |-> rpc.plain[i].topic,
                               action |-> rpc.plain[i].action]]

Mentioned(rpcs) ==
  UNION {{rpcs[i].plain[j].topic : j \in DOMAIN rpcs[i].plain} :
         i \in DOMAIN rpcs}

(* The topics that an RPC under way announces.                             *)
UnderWay == UNION {Mentioned(queue[c]) \cup Mentioned(wire[c]) : c \in Conns}

UnderWayOver(c) == Len(queue[c]) + Len(wire[c])

(* send_rpc_message to the handler of connection c; a disabled handler     *)
(* drops what it is given.                                                 *)
Send(c, rpcs) ==
  queue' = IF substream[c] = "Disabled" THEN queue
           ELSE [queue EXCEPT ![c] = @ \o rpcs]

-----------------------------------------------------------------------------
(* The behaviour.                                                          *)

(* The RPC that announces s.                                               *)
Change(s) == IntoProto(<<Object(s)>>, <<>>)

(* It is announced over whichever connection the swarm picks; what becomes *)
(* of our topics.  It fails, and changes nothing, if s is too large for an *)
(* RPC.                                                                    *)
AnnounceChange(s, topics) ==
  \/ /\ conns = {}
     /\ subs' = topics
     /\ UNCHANGED <<queue, unsure>>
  \/ \E c \in conns :
       /\ UnderWayOver(c) < MaxQueue
       /\ ~TooLarge(Change(s), MaxTransmit)
       /\ subs' = topics
       /\ Send(c, Fragments(Change(s), MaxTransmit))
       /\ unsure' = IF s.topic \in UnderWay \/ substream[c] = "Disabled"
                    THEN unsure \cup {s.topic} ELSE unsure \ {s.topic}

Subscribe(t) ==
  /\ t \notin subs
  /\ AnnounceChange(Subscribed(t), subs \cup {t})
  /\ UNCHANGED <<blacklisted, conns, remote, substream, wire, filter, view>>

Unsubscribe(t) ==
  /\ t \in subs
  /\ AnnounceChange(Unsubscribed(t), subs \ {t})
  /\ UNCHANGED <<blacklisted, conns, remote, substream, wire, filter, view>>

Blacklist ==
  /\ blacklisted' = ~blacklisted
  /\ UNCHANGED <<subs, connVars, filter, view, unsure>>

(* Mutant: the first topic is left out of the greeting.                    *)
GreetingOfRest(order) ==
  IntoProto(Tail([i \in DOMAIN order |-> Object(Subscribed(order[i]))]), <<>>)

(* The RPC that greets a new peer, with our topics in some order.          *)
Greeting(order) ==
  IntoProto([i \in DOMAIN order |-> Object(Subscribed(order[i]))], <<>>)

(* on_connection_established: the first connection of a peer that is not   *)
(* blacklisted is greeted with our subscriptions, if there are any and     *)
(* none is too large.  The remote peer may not know yet that the earlier   *)
(* connections are closed, and keep the topics it knew.                    *)
ConnectionEstablished(c) ==
  /\ c \notin conns \cup remote
  /\ conns' = conns \cup {c}
  /\ remote' = remote \cup {c}
  /\ substream' = [substream EXCEPT ![c] = "None"]
  /\ \E order \in SetToSeqs(subs) :
       LET rpc   == Greeting(order)
           greet == /\ conns = {} /\ ~blacklisted /\ subs # {}
                    /\ ~TooLarge(rpc, MaxTransmit)
       IN /\ queue' = [queue EXCEPT ![c] = IF greet
                         THEN Fragments(rpc, MaxTransmit) ELSE <<>>]
          /\ unsure' = IF conns # {} THEN unsure
                       ELSE UnderWay \cup IF greet THEN view \ subs
                                          ELSE view \cup subs
  /\ UNCHANGED <<subs, blacklisted, wire, filter, view>>

-----------------------------------------------------------------------------
(* The connections.                                                        *)

(* A connection is closed, for us.  What is queued is lost with it; what   *)
(* was sent may still arrive.                                              *)
ConnectionClosed(c) ==
  /\ c \in conns
  /\ conns' = conns \ {c}
  /\ queue' = [queue EXCEPT ![c] = <<>>]
  /\ substream' = [substream EXCEPT ![c] = "None"]
  /\ unsure' = unsure \cup Mentioned(queue[c])
  /\ UNCHANGED <<subs, blacklisted, remote, wire, filter, view>>

(* It is closed for the remote peer, sooner or later than for us: the end  *)
(* of its last connection makes it forget our topics.                      *)
RemoteClosed(c) ==
  /\ c \in remote
  /\ remote' = remote \ {c}
  /\ wire' = [wire EXCEPT ![c] = <<>>]
  /\ view' = IF remote' = {} THEN {} ELSE view
  /\ unsure' = unsure \cup Mentioned(wire[c])
                  \cup IF remote' = {} THEN subs ELSE {}
  /\ UNCHANGED <<subs, blacklisted, conns, queue, substream, filter>>

(* An outbound substream is requested for queued messages and negotiated.  *)
Negotiated(c) ==
  /\ c \in conns /\ substream[c] = "None" /\ queue[c] # <<>>
  /\ substream' = [substream EXCEPT ![c] = "Open"]
  /\ UNCHANGED <<subs, blacklisted, conns, remote, queue, wire, filter, view,
                 unsure>>

(* The codec refuses what exceeds max_transmit_size.                       *)
Encodes(rpc) == EncodedLen(rpc) <= MaxTransmit

(* The handler pops the end of its queue and sends that message.  One that *)
(* the codec refuses is lost, and the substream with it; so is one that    *)
(* nobody receives any more.                                               *)
Transmit(c) ==
  LET rpc == Last(queue[c]) IN
  /\ c \in conns /\ substream[c] = "Open" /\ queue[c] # <<>>
  /\ queue' = [queue EXCEPT ![c] = Front(@)]
  /\ IF Encodes(rpc) /\ c \in remote
     THEN /\ wire' = [wire EXCEPT ![c] = Append(@, rpc)]
          /\ UNCHANGED <<substream, unsure>>
     ELSE /\ substream' = [substream EXCEPT ![c] = "None"]
          /\ unsure' = unsure \cup Mentioned(<<rpc>>)
          /\ UNCHANGED wire
  /\ UNCHANGED <<subs, blacklisted, conns, remote, filter, view>>

(* The substream breaks; what it has not delivered is lost.                *)
SubstreamFails(c) ==
  /\ c \in conns /\ substream[c] = "Open"
  /\ substream' = [substream EXCEPT ![c] = "None"]
  /\ wire' = [wire EXCEPT ![c] = <<>>]
  /\ unsure' = unsure \cup Mentioned(wire[c])
  /\ UNCHANGED <<subs, blacklisted, conns, remote, queue, filter, view>>

(* The last attempt at a substream, or a protocol that is not supported,   *)
(* disables the handler while the connection stays.                        *)
HandlerDisabled(c) ==
  /\ c \in conns /\ substream[c] = "None" /\ queue[c] # <<>>
  /\ substream' = [substream EXCEPT ![c] = "Disabled"]
  /\ queue' = [queue EXCEPT ![c] = <<>>]
  /\ unsure' = unsure \cup Mentioned(queue[c])
  /\ UNCHANGED <<subs, blacklisted, conns, remote, wire, filter, view>>

(* The remote peer receives an RPC: handle_received_subscriptions.         *)
Receive(c) ==
  LET request == SubscriptionsOf(Head(wire[c])) IN
  /\ c \in remote /\ wire[c] # <<>>
  /\ wire' = [wire EXCEPT ![c] = Tail(@)]
  /\ view' = TopicsAfter(filter, request, view)
  /\ unsure' = IF Acceptable(filter, request, view) THEN unsure
               ELSE unsure \cup Mentioned(<<Head(wire[c])>>)
  /\ UNCHANGED <<subs, blacklisted, conns, remote, queue, substream, filter>>

-----------------------------------------------------------------------------
Init ==
  /\ subs = {} /\ blacklisted = FALSE /\ conns = {} /\ remote = {}
  /\ queue = [c \in Conns |-> <<>>] /\ wire = [c \in Conns |-> <<>>]
  /\ substream = [c \in Conns |-> "None"]
  /\ filter \in Filters
  /\ view = {} /\ unsure = {}

Next ==
  \/ \E t \in Topics : Subscribe(t) \/ Unsubscribe(t)
  \/ Blacklist
  \/ \E c \in Conns :
       \/ ConnectionEstablished(c) \/ ConnectionClosed(c) \/ RemoteClosed(c)
       \/ Negotiated(c) \/ Transmit(c) \/ SubstreamFails(c)
       \/ HandlerDisabled(c) \/ Receive(c)

Spec == Init /\ [][Next]_vars

-----------------------------------------------------------------------------
(* Properties.                                                             *)

(* While a connection is open, and nothing about a topic is under way, the *)
(* remote peer knows whether we are subscribed to it: whatever the order   *)
(* of connections, greetings, fragments, changes and failures, over one    *)
(* connection or several.  Excepted are topics that its filter does not    *)
(* allow, and until their next announcement that travels alone those of    *)
(* which                                                                   *)
(*   - two announcements were under way at once (the queue is popped from  *)
(*     its end, and connections overtake one another),                     *)
(*   - one was lost, refused by the filter or not made, or                 *)
(*   - the two sides saw connections begin and end in different orders, so *)
(*     that the remote peer kept what we did not, or the other way round.  *)
ViewsAgree ==
  conns # {} => \A t \in filter.allowed \ (unsure \cup UnderWay) :
                  t \in view <=> t \in subs

(* The remote peer never has us subscribed to more topics than its filter  *)
(* admits, or to one that it does not allow, though requests come in       *)
(* pieces and out of order.                                                *)
ViewWithinFilter ==
  /\ Cardinality(view) <= filter.maxTopics
  /\ view \subseteq filter.allowed

(* An RPC that is too long for the codec, and will be lost, is too long by *)
(* a few bytes, and for one of three reasons:                              *)
(*   - it fit until the empty control field was added to it, which is      *)
(*     added without a test of the length;                                 *)
(*   - it ends in an object shorter than 40 bytes, for which 5% of its     *)
(*     size are not enough for its length prefix; or                       *)
(*   - it is a single object of 128 bytes or more, whose prefix takes more *)
(*     than the two bytes that are set aside for it.                       *)
RpcsFit ==
  \A c \in conns : \A i \in DOMAIN queue[c] :
    LET rpc  == queue[c][i]
        last == Last(rpc.plain)
    IN EncodedLen(rpc) > MaxTransmit =>
         IF rpc.control # <<>> THEN EncodedLen(rpc) <= MaxTransmit + 2
         ELSE /\ EncodedLen(rpc) <= MaxTransmit + 4
              /\ last.size < 40 \/ (Len(rpc.plain) = 1 /\ last.size >= 128)
=============================================================================
