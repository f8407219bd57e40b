----------------------------- MODULE TimeCache ------------------------------
(***************************************************************************)
(* The time cache of gossipsub/time_cache.rs, as operators: a function     *)
(* from keys to the time an element has left.  Every element gets the same *)
(* ttl when it is inserted and keeps it, so the list of keys is in the     *)
(* order of their expiry and popping its front until an element has time   *)
(* left removes exactly the expired keys.                                  *)
(*                                                                         *)
(* Only entry() removes: an expired key that no entry() has met yet is     *)
(* still there for contains_key and get.                                   *)
(***************************************************************************)
EXTENDS Integers

Absent == -1

Empty(Keys) == [k \in Keys |-> Absent]

(* contains_key, get.                                                      *)
Contains(cache, k) == cache[k] # Absent

(* Mutant: an element goes one unit early.                                 *)
RemoveExpiredEarly(cache) ==
  [k \in DOMAIN cache |-> IF cache[k] <= 1 THEN Absent ELSE cache[k]]

(* remove_expired_keys: `expires > now' stays.                             *)
RemoveExpired(cache) ==
  [k \in DOMAIN cache |-> IF cache[k] = 0 THEN Absent ELSE cache[k]]

(* entry(k): the expired keys go first, so k is vacant once its time is    *)
(* over.                                                                   *)
Vacant(cache, k) == ~Contains(RemoveExpired(cache), k)

(* entry(k).or_insert_with, DuplicateCache::insert.                        *)
Insert(cache, k, ttl) ==
  IF Vacant(cache, k) THEN [RemoveExpired(cache) EXCEPT ![k] = ttl]
  ELSE RemoveExpired(cache)

(* A unit of time passes.                                                  *)
Aged(cache) ==
  [k \in DOMAIN cache |-> IF cache[k] > 0 THEN cache[k] - 1 ELSE cache[k]]
=============================================================================
