------------------------------ MODULE Backoff -------------------------------
(***************************************************************************)
(* What the behaviour expects of the backoff storage: the pairs that it    *)
(* must not graft itself, and those of them whose GRAFT it must refuse.    *)
(* Mesh is written against this interface: its variables of the same names *)
(* take these steps.                                                       *)
(***************************************************************************)
CONSTANT Pairs          \* (topic, peer) pairs

VARIABLES backoff,      \* is_backoff_with_slack
          running       \* get_backoff_time is in the future

vars == <<backoff, running>>

Init == backoff = {} /\ running = {}

(* A pair is entered; it only does not run when the time asked for is 0.   *)
Set(p) ==
  /\ backoff' = backoff \cup {p}
  /\ running' \in {running, running \cup {p}}

(* Time passes.                                                            *)
Elapse ==
  /\ running' \in SUBSET running
  /\ UNCHANGED backoff

(* A heartbeat forgets pairs, none of which still runs.                    *)
CleanUp ==
  /\ backoff' \in SUBSET backoff
  /\ running \subseteq backoff'
  /\ UNCHANGED running

Next == (\E p \in Pairs : Set(p)) \/ Elapse \/ CleanUp

Spec == Init /\ [][Next]_vars
=============================================================================
