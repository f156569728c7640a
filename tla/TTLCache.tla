------------------------------ MODULE TTLCache ------------------------------
(***************************************************************************)
(* internal/service/cache.go as functions on the items of one cache: a     *)
(* function from the keys that are there to a value and the time it is     *)
(* good until, 0 for ever.  Each operator is one region of the lock.       *)
(* Delete, Clear and GetOrSet have no caller that meets an item.           *)
(***************************************************************************)
EXTENDS Naturals, Functions

NoItems == [k \in {} |-> 0]

Expired(item, now) == item.expiration > 0 /\ now > item.expiration

\* Mutation of Found: expiry is left to the cleanup.
FoundUnchecked(items, key, now) == key \in DOMAIN items

(* Get answers with a value or reports a miss; an item that has expired    *)
(* counts as a miss and stays where it is.                                 *)
Found(items, key, now) ==
  key \in DOMAIN items /\ ~Expired(items[key], now)

Set(items, key, value, ttl, now) ==
  [k \in DOMAIN items \cup {key} |->
     IF k = key
       THEN [value |-> value, expiration |-> IF ttl > 0 THEN now + ttl ELSE 0]
       ELSE items[k]]

(* cleanup removes what has expired.                                       *)
Cleaned(items, now) ==
  Restrict(items, {k \in DOMAIN items : ~Expired(items[k], now)})
=============================================================================
