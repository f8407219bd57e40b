------------------------- MODULE SubscriptionFilter -------------------------
(***************************************************************************)
(* The filters on incoming subscriptions                                   *)
(* (gossipsub/subscription_filter.rs).  A filter is a record: the topics   *)
(* it allows (all of them, those of a whitelist, those that a callback or  *)
(* a regular expression accepts, or those of two filters combined), and    *)
(* the limits that MaxCountSubscriptionFilter adds, which a filter without *)
(* them has out of reach.                                                  *)
(***************************************************************************)
EXTENDS Naturals, FiniteSets, SequencesExt

Subscribed(t)   == [topic |-> t, action |-> "Subscribe"]
Unsubscribed(t) == [topic |-> t, action |-> "Unsubscribe"]

(* filter_incoming_subscriptions: one subscription for each topic, the     *)
(* first; one that contradicts it removes it.                              *)
Deduplicate(subscriptions) ==
  LET Enter(kept, s) ==
        LET old == {k \in kept : k.topic = s.topic} IN
        IF old = {} THEN kept \cup {s}
        ELSE IF s \in old THEN kept ELSE kept \ old
  IN FoldLeft(Enter, {}, subscriptions)

(* filter_incoming_subscription_set: those of topics that are allowed.     *)
AllowedSubscriptions(filter, subscriptions) ==
  {s \in subscriptions : s.topic \in filter.allowed}

(* CombinedSubscriptionFilters, of filters without limits.                 *)
Combined(f, g) == [f EXCEPT !.allowed = @ \cap g.allowed]

(* Mutant: topics that are given up are not looked at, nor those that the  *)
(* peer has already.                                                       *)
AcceptableAlone(filter, subscriptions, current) ==
  /\ Len(subscriptions) <= filter.maxPerRequest
  /\ Len(subscriptions) <= filter.maxTopics

(* MaxCountSubscriptionFilter: is the request within the limits, for a     *)
(* peer that is subscribed to the topics current?                          *)
Acceptable(filter, subscriptions, current) ==
  LET kept == AllowedSubscriptions(filter, Deduplicate(subscriptions))
      left == {t \in current : Unsubscribed(t) \in kept}
      new  == {s.topic : s \in {k \in kept : k.action = "Subscribe"}} \ current
  IN /\ Len(subscriptions) <= filter.maxPerRequest
     /\ Cardinality(new) + Cardinality(current)
          <= filter.maxTopics + Cardinality(left)

(* What handle_received_subscriptions makes of a peer's topics: a request  *)
(* that the filter refuses is ignored as a whole.                          *)
TopicsAfter(filter, subscriptions, current) ==
  LET kept == AllowedSubscriptions(filter, Deduplicate(subscriptions)) IN
  IF Acceptable(filter, subscriptions, current)
  THEN (current \cup {s.topic : s \in {k \in kept : k.action = "Subscribe"}})
         \ {s.topic : s \in {k \in kept : k.action = "Unsubscribe"}}
  ELSE current
=============================================================================
