--------------------------- MODULE TransportCache ---------------------------
(***************************************************************************)
(* transport_cache.go: the bounded cache of transports as operators on     *)
(* [entries, order].  Each is one critical section of boundedTransport-    *)
(* Cache.mu; getOrCreate looks twice, because the transport is built       *)
(* outside the mutex, before it inserts.                                   *)
(***************************************************************************)
EXTENDS Naturals, Sequences, FiniteSets, Functions

CONSTANT MaxCached

(* newBoundedTransportCache raises a smaller limit to 1. *)
ASSUME TransportCacheAssumption == MaxCached \in Nat \ {0}

EmptyCache == [entries |-> [k \in {} |-> 0], order |-> << >>]

Keys(c) == DOMAIN c.entries
Cached(c, k) == k \in Keys(c)

(* The victim is the oldest key of order still cached; keys that were      *)
(* removed meanwhile are dropped on the way.                               *)
Oldest(c) == CHOOSE i \in DOMAIN c.order : Cached(c, c.order[i]) /\ \A j \in 1..(i-1) : ~Cached(c, c.order[j])

Full(c) == Cardinality(Keys(c)) >= MaxCached

Evicted(c) ==
  IF Full(c)
  THEN [entries |-> Restrict(c.entries, Keys(c) \ {c.order[Oldest(c)]}),
        order   |-> SubSeq(c.order, Oldest(c) + 1, Len(c.order))]
  ELSE c

InsertEntry(c, k, v) ==
  [entries |-> [x \in Keys(Evicted(c)) \cup {k} |-> IF x = k THEN v ELSE c.entries[x]],
   order   |-> Append(Evicted(c).order, k)]

(* remove: only if the key still stands for the caller's entry. *)
RemoveEntry(c, k, v) ==
  IF Cached(c, k) /\ c.entries[k] = v
  THEN [c EXCEPT !.entries = Restrict(c.entries, Keys(c) \ {k})] ELSE c
=============================================================================
