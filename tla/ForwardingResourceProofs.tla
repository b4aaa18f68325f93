---------------------- MODULE ForwardingResourceProofs ----------------------
(***************************************************************************)
(* How much the transport cache holds, and what requests give back when    *)
(* they end, for any number of requests, entries, candidates and limits.   *)
(***************************************************************************)
EXTENDS ForwardingProofs, FiniteSetTheorems

(* The bound of the cache. *)

(* The natural numbers are well ordered; every set of them that has a      *)
(* member has a least one.                                                 *)
Less == {ss \in Nat \X Nat : ss[1] < ss[2]}

LEMMA LessIsWellFounded == IsWellFoundedOn(Less, Nat)
BY NatLessThanWellFounded, Zenon DEF OpToRel, Less

LEMMA LeastOf ==
  ASSUME NEW T, \A t \in T : t \in Nat, NEW t \in T
  PROVE  \E x \in T : \A y \in T : x <= y
<1>1. PICK x \in T : \A y \in T : << y, x >> \notin Less
  BY LessIsWellFounded, WFMin
<1>2. ASSUME NEW y \in T PROVE x <= y
  <2>1. x \in Nat /\ y \in Nat /\ << y, x >> \notin Less
    BY <1>1
  <2>2. y < x => << y, x >> \in Less
    BY <2>1 DEF Less
  <2> QED
    BY <2>1, <2>2
<1> QED
  BY <1>2

(* Every cached key is in order, so that it can be evicted. *)
Evictable(c) == \A k \in Keys(c) : \E i \in DOMAIN c.order : c.order[i] = k

Listed(c) == (\E S : c.order \in Seq(S)) /\ IsFiniteSet(Keys(c)) /\ Evictable(c)

(* order begins with the oldest key that is cached, once those that were   *)
(* removed are skipped.                                                    *)
LEMMA OldestFound ==
  ASSUME NEW c, Listed(c), Keys(c) # {}
  PROVE  /\ Oldest(c) \in DOMAIN c.order /\ c.order[Oldest(c)] \in Keys(c)
         /\ \A j \in 1..(Oldest(c) - 1) : c.order[j] \notin Keys(c)
<1> DEFINE T == {i \in DOMAIN c.order : c.order[i] \in Keys(c)}
<1>1. PICK S : c.order \in Seq(S)
  BY DEF Listed
<1>2. (\A i \in T : i \in Nat) /\ \E i : i \in T
  BY <1>1 DEF Listed, Evictable
<1>3. PICK m \in T : \A i \in T : m <= i
  <2> HIDE DEF T
  <2> QED
    BY <1>2, LeastOf
<1>4. m \in DOMAIN c.order /\ c.order[m] \in Keys(c) /\ \A j \in 1..(m - 1) : c.order[j] \notin Keys(c)
  BY <1>1, <1>3
<1> QED
  BY <1>4 DEF Oldest, Cached

(* Evicting makes room for one. *)
LEMMA EvictedRoom ==
  ASSUME NEW c, Listed(c), Cardinality(Keys(c)) <= MaxCached
  PROVE  Listed(Evicted(c)) /\ Cardinality(Keys(Evicted(c))) < MaxCached
<1>1. PICK S : c.order \in Seq(S)
  BY DEF Listed
<1>2. IsFiniteSet(Keys(c)) /\ Cardinality(Keys(c)) \in Nat /\ MaxCached \in Nat \ {0}
  BY FS_CardinalityType, TransportCacheAssumption DEF Listed
<1>3. CASE ~Full(c)
  BY <1>2, <1>3 DEF Full, Evicted
<1>4. CASE Full(c)
  <2> DEFINE o == Oldest(c)
             n == c.order[o]
             f == Restrict(c.entries, Keys(c) \ {n})
             q == SubSeq(c.order, o + 1, Len(c.order))
             d == [entries |-> f, order |-> q]
  <2>1. Keys(c) # {}
    BY <1>2, <1>4, FS_EmptySet DEF Full
  <2>2. o \in DOMAIN c.order /\ n \in Keys(c) /\ \A j \in 1..(o - 1) : c.order[j] \notin Keys(c)
    BY <2>1, OldestFound
  <2>3. Evicted(c) = d
    BY <1>4 DEF Evicted
  <2>4. DOMAIN f = Keys(c) \ {n}
    BY DEF Restrict
  <2> HIDE DEF o, n, f
  <2>5. /\ o \in 1..Len(c.order) /\ q \in Seq(S) /\ Len(q) = Len(c.order) - o
        /\ \A j \in 1..(Len(c.order) - o) : q[j] = c.order[o + j]
    BY <1>1, <2>2, SMTT(30)
  <2> HIDE DEF q
  <2>6. d.entries = f /\ d.order = q
    OBVIOUS
  <2> HIDE DEF d
  <2>7. IsFiniteSet(Keys(d)) /\ Cardinality(Keys(d)) = Cardinality(Keys(c)) - 1
    BY <1>2, <2>2, <2>4, <2>6, FS_RemoveElement DEF Keys
  <2>8. ASSUME NEW y \in Keys(d) PROVE \E i \in DOMAIN q : q[i] = y
    <3>1. y \in Keys(c) /\ y # n
      BY <2>4, <2>6 DEF Keys
    <3>2. PICK i \in DOMAIN c.order : c.order[i] = y
      BY <3>1 DEF Listed, Evictable
    <3>3. i # o /\ i \notin 1..(o - 1)
      BY <2>2, <3>1, <3>2 DEF n
    <3>4. i \in 1..Len(c.order) /\ i > o
      BY <1>1, <2>5, <3>3
    <3>5. i - o \in 1..(Len(c.order) - o) /\ o + (i - o) = i
      BY <1>1, <2>5, <3>4
    <3>6. q[i - o] = c.order[o + (i - o)]
      BY <2>5, <3>5
    <3>7. DOMAIN q = 1..(Len(c.order) - o)
      BY <2>5
    <3> QED
      BY <3>2, <3>5, <3>6, <3>7
  <2> QED
    BY <1>2, <2>3, <2>5, <2>6, <2>7, <2>8 DEF Listed, Evictable
<1> QED
  BY <1>3, <1>4

LEMMA InsertBounded ==
  ASSUME NEW c, NEW k, NEW v, Listed(c), Cardinality(Keys(c)) <= MaxCached
  PROVE  Listed(InsertEntry(c, k, v)) /\ Cardinality(Keys(InsertEntry(c, k, v))) <= MaxCached
<1> DEFINE d == Evicted(c)
           f == [x \in Keys(d) \cup {k} |-> IF x = k THEN v ELSE c.entries[x]]
           q == Append(d.order, k)
           e == [entries |-> f, order |-> q]
<1>1. Listed(d) /\ Cardinality(Keys(d)) < MaxCached
  BY EvictedRoom
<1>2. InsertEntry(c, k, v) = e
  BY DEF InsertEntry
<1> HIDE DEF d
<1>3. DOMAIN f = Keys(d) \cup {k}
  OBVIOUS
<1> HIDE DEF f
<1>4. PICK S : d.order \in Seq(S)
  BY <1>1 DEF Listed
<1>5. /\ q \in Seq(S \cup {k}) /\ DOMAIN q = 1..(Len(d.order) + 1) /\ q[Len(d.order) + 1] = k
      /\ \A i \in DOMAIN d.order : i \in DOMAIN q /\ q[i] = d.order[i]
  BY <1>4
<1>6. Len(d.order) + 1 \in DOMAIN q
  BY <1>4, <1>5
<1> HIDE DEF q
<1>7. e.entries = f /\ e.order = q
  OBVIOUS
<1> HIDE DEF e
<1>8. IsFiniteSet(Keys(e)) /\ Cardinality(Keys(e)) <= Cardinality(Keys(d)) + 1
  <2>1. Keys(e) = Keys(d) \cup {k} /\ IsFiniteSet(Keys(d)) /\ Cardinality(Keys(d)) \in Nat
    BY <1>1, <1>3, <1>7, FS_CardinalityType DEF Keys, Listed
  <2> QED
    BY <2>1, FS_AddElement
<1>9. Cardinality(Keys(e)) <= MaxCached
  <2>1. Cardinality(Keys(e)) \in Nat /\ Cardinality(Keys(d)) \in Nat /\ MaxCached \in Nat
    BY <1>1, <1>8, FS_CardinalityType, TransportCacheAssumption DEF Listed
  <2> QED
    BY <1>1, <1>8, <2>1
<1>10. Evictable(e)
  BY <1>1, <1>3, <1>5, <1>6, <1>7 DEF Evictable, Listed, Keys
<1> QED
  BY <1>2, <1>5, <1>7, <1>8, <1>9, <1>10 DEF Listed

LEMMA RemoveBounded ==
  ASSUME NEW c, DOMAIN c = {"entries", "order"}, NEW k, NEW v,
         Listed(c), Cardinality(Keys(c)) <= MaxCached
  PROVE  Listed(RemoveEntry(c, k, v)) /\ Cardinality(Keys(RemoveEntry(c, k, v))) <= MaxCached
<1> DEFINE f == Restrict(c.entries, Keys(c) \ {k})
           d == [c EXCEPT !.entries = f]
<1>1. DOMAIN f = Keys(c) \ {k}
  BY DEF Restrict
<1>2. RemoveEntry(c, k, v) \in {c, d}
  BY DEF RemoveEntry
<1> HIDE DEF f
<1>3. d.entries = f /\ d.order = c.order
  OBVIOUS
<1> HIDE DEF d
<1>4. Keys(d) \subseteq Keys(c)
  BY <1>1, <1>3 DEF Keys
<1>5. IsFiniteSet(Keys(d)) /\ Cardinality(Keys(d)) <= MaxCached
  <2>1. IsFiniteSet(Keys(d)) /\ Cardinality(Keys(d)) <= Cardinality(Keys(c))
    BY <1>4, FS_Subset DEF Listed
  <2>2. Cardinality(Keys(d)) \in Nat /\ Cardinality(Keys(c)) \in Nat /\ MaxCached \in Nat
    BY <2>1, FS_CardinalityType, TransportCacheAssumption DEF Listed
  <2> QED
    BY <2>1, <2>2
<1>6. Listed(d)
  BY <1>3, <1>4, <1>5 DEF Listed, Evictable
<1> QED
  BY <1>2, <1>5, <1>6

(* What boundedTransportCache promises: no more than max transports, and   *)
(* none that can no longer be evicted, however often keys are removed,     *)
(* evicted, cleared and inserted again while their old places stay in      *)
(* order.                                                                  *)
CacheBounded == Cardinality(Keys(cache)) <= MaxCached /\ Evictable(cache)

(* The cache of transports stays within its limit, for any number of       *)
(* requests and keys; the inductive invariant is Listed.                   *)
THEOREM CacheIsBounded == Spec => []CacheBounded
<1> DEFINE CInv == Listed(cache) /\ Cardinality(Keys(cache)) <= MaxCached
<1>1. CInv => CacheBounded
  BY DEF Listed, CacheBounded
<1>2. cache = EmptyCache => CInv
  <2> SUFFICES ASSUME cache = EmptyCache PROVE CInv
    OBVIOUS
  <2>1. Keys(cache) = {} /\ cache.order = << >>
    BY DEF EmptyCache, Keys
  <2>2. << >> \in Seq({})
    OBVIOUS
  <2>3. Evictable(cache)
    BY <2>1 DEF Evictable
  <2> QED
    BY <2>1, <2>2, <2>3, FS_EmptySet, TransportCacheAssumption DEF Listed
<1>3. Init => CInv
  BY <1>2 DEF Init
<1>4. ASSUME IInv, CInv, [Next]_vars PROVE CInv'
  <2>1. DOMAIN cache = {"entries", "order"}
    BY <1>4 DEF IInv, Shape
  <2>2. ASSUME NEW x, cache' = Retired(x) PROVE CInv'
    BY <1>4, <2>1, <2>2, RemoveBounded DEF Retired
  <2>3. ASSUME NEW k, NEW v, cache' = InsertEntry(cache, k, v) PROVE CInv'
    BY <1>4, <2>3, InsertBounded
  <2>4. CASE cache' = EmptyCache
    <3>1. (cache = EmptyCache => CInv)'
      BY <1>2, PTL
    <3> QED
      BY <2>4, <3>1
  <2>5. \/ cache' \in {cache, EmptyCache} \/ (\E x : cache' = Retired(x))
        \/ \E k, v : cache' = InsertEntry(cache, k, v)
    BY <1>4, CacheSteps DEF Next, ClearTransports, vars
  <2> QED
    BY <1>4, <2>2, <2>3, <2>4, <2>5
<1> QED
  BY <1>1, <1>3, <1>4, InitInv, NextInv, PTL DEF Spec

-----------------------------------------------------------------------------
(* What is left behind: files, budget, sockets, sessions. *)

(* The file of one request has as many chunks as it has reserved. *)
LEMMA OneFile ==
  ASSUME NEW x, NEW n \in Nat
  PROVE  IsFiniteSet({x} \X (1..n)) /\ Cardinality({x} \X (1..n)) = n
<1>1. IsFiniteSet({x}) /\ Cardinality({x}) = 1
  BY FS_Singleton
<1>2. IsFiniteSet(1..n) /\ Cardinality(1..n) = n
  BY FS_Interval
<1>3. IsFiniteSet({x} \X (1..n)) /\ Cardinality({x} \X (1..n)) = Cardinality({x}) * Cardinality(1..n)
  BY <1>1, <1>2, FS_Product
<1>4. QED
  BY <1>1, <1>2, <1>3

(* When the reservation of one request changes, the sum changes with it. *)
LEMMA SpooledMoves ==
  ASSUME NEW b, NEW c, NEW r \in Requests, \A x \in Requests : b[x].reserved \in Nat,
         c[r].reserved \in Nat, \A x \in Requests : x # r => c[x].reserved = b[x].reserved
  PROVE  /\ Cardinality(Spooled(b)) \in Nat /\ Cardinality(Spooled(c)) \in Nat
         /\ b[r].reserved <= Cardinality(Spooled(b))
         /\ Cardinality(Spooled(c)) = Cardinality(Spooled(b)) - b[r].reserved + c[r].reserved
<1> DEFINE file(x) == {x} \X (1..b[x].reserved)
           others == Requests \ {r}
           f == [x \in others |-> file(x)]
           F == {f[x] : x \in others}
           rest == UNION F
           old == file(r)
           new == {r} \X (1..c[r].reserved)
<1>1. IsFiniteSet(others)
  BY SpoolAssumption, FS_RemoveElement
<1>2. IsFiniteSet(F)
  <2>1. f \in Surjection(others, F)
    BY DEF Surjection
  <2>2. QED
    BY <1>1, <2>1, FS_Surjection
<1>3. \A S \in F : IsFiniteSet(S)
  <2>1. ASSUME NEW x \in others PROVE IsFiniteSet(f[x])
    BY OneFile
  <2>2. QED
    BY <2>1
<1>4. IsFiniteSet(rest) /\ Cardinality(rest) \in Nat
  BY <1>2, <1>3, FS_UNION, FS_CardinalityType
<1>5. /\ IsFiniteSet(old) /\ Cardinality(old) = b[r].reserved
      /\ IsFiniteSet(new) /\ Cardinality(new) = c[r].reserved
  BY OneFile
<1>6. Spooled(b) = rest \cup old /\ Spooled(c) = rest \cup new
  <2>1. \A x \in others : f[x] = {x} \X (1..b[x].reserved) /\ f[x] = {x} \X (1..c[x].reserved)
    OBVIOUS
  <2>2. Spooled(b) = rest \cup old
    BY <2>1 DEF Spooled
  <2>3. Spooled(c) = rest \cup new
    BY <2>1 DEF Spooled
  <2>4. QED
    BY <2>2, <2>3
<1>7. rest \cap old = {} /\ rest \cap new = {}
  <2>1. \A z \in rest : z[1] # r
    OBVIOUS
  <2>2. \A z \in old \cup new : z[1] = r
    OBVIOUS
  <2>3. QED
    BY <2>1, <2>2
<1> HIDE DEF rest, old, new
<1>8. Cardinality(rest \cup old) = Cardinality(rest) + Cardinality(old) - Cardinality({})
  BY <1>4, <1>5, <1>7, FS_Union
<1>9. Cardinality(rest \cup new) = Cardinality(rest) + Cardinality(new) - Cardinality({})
  BY <1>4, <1>5, <1>7, FS_Union
<1>10. Cardinality({}) = 0
  BY FS_EmptySet
<1> DEFINE m == Cardinality(rest)
<1>11. Cardinality(Spooled(b)) = m + b[r].reserved /\ Cardinality(Spooled(c)) = m + c[r].reserved /\ m \in Nat
  BY <1>4, <1>5, <1>6, <1>8, <1>9, <1>10
<1> HIDE DEF m
<1>12. QED
  BY <1>11

Body(b) ==
  /\ DOMAIN b = {"left", "got", "file", "reserved"}
  /\ b.got \in Nat /\ b.file \in BOOLEAN /\ b.reserved = IF b.file THEN b.got ELSE 0

SpoolInv ==
  /\ used \in Nat /\ lost \in Nat /\ body = [r \in Requests |-> body[r]]
  /\ \A r \in Requests : Body(body[r])
  /\ used = lost + Cardinality(Spooled(body)) /\ used <= MaxSpoolBytes

(* The frame of the steps that change the body of one request. *)
LEMMA SpoolPut ==
  ASSUME SpoolInv, NEW r \in Requests, NEW d, Body(d), body' = [body EXCEPT ![r] = d],
         used' \in Nat, lost' \in Nat, used' <= MaxSpoolBytes,
         used' - lost' = used - lost - body[r].reserved + d.reserved
  PROVE  SpoolInv' /\ body'[r] = d /\ \A x \in Requests : x # r => body'[x] = body[x]
<1>1. /\ body' = [x \in Requests |-> body'[x]] /\ body'[r] = d
      /\ \A x \in Requests : x # r => body'[x] = body[x]
  BY DEF SpoolInv
<1>2. /\ \A x \in Requests : body[x].reserved \in Nat
      /\ body'[r].reserved \in Nat
      /\ \A x \in Requests : x # r => body'[x].reserved = body[x].reserved
  BY <1>1 DEF SpoolInv, Body
<1>3. \A x \in Requests : Body(body'[x])
  BY <1>1 DEF SpoolInv
<1> DEFINE n == Cardinality(Spooled(body))
           m == Cardinality(Spooled(body'))
<1>4. n \in Nat /\ m \in Nat /\ m = n - body[r].reserved + body'[r].reserved
  BY <1>2, SpooledMoves, ZenonT(30)
<1> HIDE DEF n, m
<1>5. used' = lost' + m
  BY <1>1, <1>2, <1>4 DEF SpoolInv, n
<1>6. QED
  BY <1>1, <1>3, <1>5 DEF SpoolInv, m

LEMMA EmptyBody == Body(NoBody) /\ NoBody.left = 0 /\ NoBody.reserved = 0 /\ ~NoBody.file
BY DEF Body, NoBody

LEMMA GiveBackInv ==
  ASSUME SpoolInv, NEW r \in Requests, NEW n \in Nat, used + n <= MaxSpoolBytes, GiveBack(r, n)
  PROVE  SpoolInv' /\ body'[r] = NoBody /\ \A x \in Requests : x # r => body'[x] = body[x]
<1> DEFINE k == body[r].reserved
<1>1. k \in Nat /\ used \in Nat /\ lost \in Nat /\ MaxSpoolBytes \in Nat
  BY SpoolAssumption DEF SpoolInv, Body
<1>2. k <= used
  <2>1. \A x \in Requests : body[x].reserved \in Nat
    BY DEF SpoolInv, Body
  <2>2. Cardinality(Spooled(body)) \in Nat /\ k <= Cardinality(Spooled(body))
    BY <2>1, SpooledMoves
  <2>3. QED
    BY <1>1, <2>2 DEF SpoolInv
<1>3. body' = [body EXCEPT ![r] = NoBody]
  BY DEF GiveBack
<1>4. \/ used' = used - k /\ lost' = lost
      \/ used' = used + n /\ lost' = lost + k + n
  BY DEF GiveBack
<1>5. used <= MaxSpoolBytes
  BY DEF SpoolInv
<1> HIDE DEF k
<1>6. /\ used' \in Nat /\ lost' \in Nat /\ used' <= MaxSpoolBytes
      /\ used' - lost' = used - lost - k + 0
  BY <1>1, <1>2, <1>4, <1>5
<1>7. used' - lost' = used - lost - body[r].reserved + NoBody.reserved
  BY <1>6, EmptyBody DEF k
<1>8. QED
  BY <1>3, <1>6, <1>7, EmptyBody, SpoolPut

LEMMA AbandonInv ==
  ASSUME SpoolInv, NEW r \in Requests, Abandon(r)
  PROVE  SpoolInv' /\ body'[r] = NoBody /\ \A x \in Requests : x # r => body'[x] = body[x]
<1>1. 0 \in Nat /\ used + 0 <= MaxSpoolBytes /\ GiveBack(r, 0)
  BY DEF SpoolInv, Abandon
<1>2. QED
  BY <1>1, GiveBackInv

LEMMA CaptureFailsInv ==
  ASSUME SpoolInv, NEW r \in Requests, CaptureFails(r)
  PROVE  SpoolInv' /\ body'[r] = NoBody /\ \A x \in Requests : x # r => body'[x] = body[x]
<1>1. CASE Abandon(r)
  BY <1>1, AbandonInv
<1>2. CASE Reserve(Needed(r)) /\ GiveBack(r, Needed(r))
  <2>1. Needed(r) \in Nat /\ used + Needed(r) <= MaxSpoolBytes
    BY <1>2 DEF SpoolInv, Body, Needed, Reserve
  <2>2. QED
    BY <1>2, <2>1, GiveBackInv
<1>3. QED
  BY <1>1, <1>2 DEF CaptureFails

LEMMA ArrivesInv ==
  ASSUME SpoolInv, NEW r \in Requests, NEW n, Arrives(r, n)
  PROVE  SpoolInv' /\ body'[r].left = n /\ \A x \in Requests : x # r => body'[x] = body[x]
<1> DEFINE d == [body[r] EXCEPT !.left = n]
<1>1. Body(body[r]) /\ body' = [body EXCEPT ![r] = d] /\ used' = used /\ lost' = lost
  BY DEF Arrives, SpoolInv
<1>2. Body(d) /\ d.left = n /\ d.reserved = body[r].reserved
  BY <1>1 DEF Body
<1> HIDE DEF d
<1>3. /\ used' \in Nat /\ lost' \in Nat /\ used' <= MaxSpoolBytes
      /\ used' - lost' = used - lost - body[r].reserved + d.reserved
  BY <1>1, <1>2, SMTT(30) DEF SpoolInv, Body
<1>4. QED
  BY <1>1, <1>2, <1>3, SpoolPut

LEMMA CaptureInv ==
  ASSUME SpoolInv, NEW r \in Requests, CaptureInMemory(r) \/ CaptureToFile(r)
  PROVE  SpoolInv' /\ \A x \in Requests : x # r => body'[x] = body[x]
<1>1. Body(body[r]) /\ used \in Nat /\ lost \in Nat /\ used <= MaxSpoolBytes
  BY DEF SpoolInv
<1>2. CASE CaptureInMemory(r)
  <2> DEFINE d == [body[r] EXCEPT !.left = @ - 1, !.got = @ + 1]
  <2>1. body' = [body EXCEPT ![r] = d] /\ used' = used /\ lost' = lost /\ ~body[r].file
    BY <1>2 DEF CaptureInMemory, SpoolInv, ToFile
  <2>2. Body(d) /\ d.reserved = body[r].reserved
    BY <1>1, <2>1 DEF Body
  <2> HIDE DEF d
  <2>3. used' - lost' = used - lost - body[r].reserved + d.reserved
    BY <1>1, <2>1, <2>2 DEF Body
  <2>4. QED
    BY <1>1, <2>1, <2>2, <2>3, SpoolPut
<1>3. CASE CaptureToFile(r)
  <2> DEFINE k == Needed(r)
             d == [left |-> body[r].left - 1, got |-> body[r].got + 1, file |-> TRUE,
                   reserved |-> body[r].reserved + k]
  <2>1. /\ body' = [body EXCEPT ![r] = d] /\ used' = used + k /\ lost' = lost
        /\ used + k <= MaxSpoolBytes
    BY <1>3 DEF CaptureToFile, SpoolInv, Reserve
  <2>2. k \in Nat /\ body[r].reserved + k = body[r].got + 1 /\ body[r].reserved \in Nat /\ body[r].got \in Nat
    BY <1>1, SMTT(30) DEF Body, Needed
  <2> HIDE DEF k
  <2>3. Body(d) /\ d.reserved = body[r].reserved + k
    BY <2>2, SMTT(30) DEF Body
  <2> HIDE DEF d
  <2>4. /\ used' \in Nat /\ lost' \in Nat /\ used' <= MaxSpoolBytes
        /\ used' - lost' = used - lost - body[r].reserved + d.reserved
    BY <1>1, <2>1, <2>2, <2>3, SMTT(30)
  <2>5. QED
    BY <2>1, <2>3, <2>4, SpoolPut
<1>4. QED
  BY <1>2, <1>3

LEMMA SpoolStart == SpoolInit => SpoolInv
<1> SUFFICES ASSUME SpoolInit PROVE SpoolInv
  OBVIOUS
<1>1. body = [r \in Requests |-> NoBody] /\ used = 0 /\ lost = 0
  BY DEF SpoolInit
<1>2. body = [r \in Requests |-> body[r]] /\ \A r \in Requests : body[r] = NoBody
  BY <1>1
<1>3. Spooled(body) = {}
  <2>1. \A r \in Requests : body[r].reserved = 0
    BY <1>2, EmptyBody
  <2>2. QED
    BY <2>1 DEF Spooled
<1>4. Cardinality(Spooled(body)) = 0
  BY <1>3, FS_EmptySet
<1>5. QED
  BY <1>1, <1>2, <1>4, EmptyBody, SpoolAssumption DEF SpoolInv

-----------------------------------------------------------------------------
(* The places at which a streamed body has not been sent yet. *)
Unsent == {"try", "lockPooled", "transport", "build", "open"}

(* A body b that is still to come from the client belongs to a request q   *)
(* with one candidate; it is being captured, goes out with the only        *)
(* attempt, or is abandoned.                                               *)
Orderly(b, q) ==
  /\ q.sent \in {0, 1}
  /\ q.pc = "done" => q.via = None /\ q.sess = "none" /\ q.sock = FALSE /\ ~b.file
  /\ q.pc \in {"route", "capture"} => q.sent = 0 /\ q.i = 1 /\ q.kind = "http"
  /\ q.pc = "route" => ~(b.left > 0)
  /\ b.left > 0 => \/ q.pc \in {"capture", "finish"}
                   \/ /\ q.i = 1 /\ q.kind = "http" /\ ~(Len(q.plan) > 1)
                      /\ q.pc = "send" \/ (q.pc \in Unsent /\ q.sent = 0)

Accounts == SpoolInv /\ \A r \in Requests : Orderly(body[r], rq[r])

LEMMA StepOrderly ==
  ASSUME Accounts, NEW r \in Requests, Moved(r), SpoolInv',
         \A x \in Requests : x # r => body'[x] = body[x], Orderly(body'[r], rq'[r])
  PROVE  Accounts'
<1>1. ASSUME NEW x \in Requests PROVE Orderly(body'[x], rq'[x])
  BY DEF Accounts, Moved
<1>2. QED
  BY <1>1 DEF Accounts

(* Most steps leave the bodies alone, ... *)
LEMMA RequestOrderly ==
  ASSUME Accounts, NEW r \in Requests, Moved(r), UNCHANGED spool, Orderly(body[r], rq'[r])
  PROVE  Accounts'
<1>1. body' = body /\ used' = used /\ lost' = lost
  BY DEF spool
<1>2. SpoolInv'
  BY <1>1 DEF Accounts, SpoolInv
<1>3. QED
  BY <1>1, <1>2, StepOrderly

(* ... and where nothing is streamed, there is nothing to send twice. *)
LEMMA NothingStreamed ==
  ASSUME Accounts, NEW r \in Requests,
         rq[r].pc \notin {"capture", "finish", "send"} \cup Unsent
  PROVE  ~(body[r].left > 0)
BY DEF Accounts, Orderly

LEMMA AfterBody ==
  ASSUME Accounts, NEW r \in Requests, Moved(r), UNCHANGED spool, ~(body[r].left > 0),
         rq'[r].sent \in {0, 1}, rq'[r].pc \notin {"route", "capture", "done"}
  PROVE  Accounts'
<1>1. Orderly(body[r], rq'[r])
  BY DEF Orderly
<1>2. QED
  BY <1>1, RequestOrderly

(* A request whose end has come needs no more. *)
LEMMA EndsOrderly ==
  ASSUME Accounts, NEW r \in Requests, Moved(r), UNCHANGED spool,
         rq'[r].sent \in {0, 1}, rq'[r].pc = "finish"
  PROVE  Accounts'
<1>1. Orderly(body[r], rq'[r])
  BY DEF Orderly
<1>2. QED
  BY <1>1, RequestOrderly

LEMMA SentType ==
  ASSUME Accounts, NEW r \in Requests
  PROVE  rq[r].sent \in {0, 1}
BY DEF Accounts, Orderly

(* What the steps before the first attempt keep. *)
Alike(q, d) == d.sent = q.sent /\ d.plan = q.plan /\ d.i = q.i /\ d.kind = q.kind

LEMMA OnTheWay ==
  ASSUME Accounts, NEW r \in Requests, Moved(r), UNCHANGED spool, Alike(rq[r], rq'[r]),
         rq[r].pc \in Unsent, rq'[r].pc \in Unsent
  PROVE  Accounts'
<1>1. Orderly(body[r], rq[r])
  BY DEF Accounts
<1>2. Orderly(body[r], rq'[r])
  BY <1>1 DEF Orderly, Alike, Unsent
<1>3. QED
  BY <1>2, RequestOrderly

(* The ways in which a record is written, once more. *)
LEMMA GoAlike ==
  ASSUME IInv, NEW r \in Requests, NEW y, Go(r, y)
  PROVE  Moved(r) /\ rq'[r].pc = y /\ Alike(rq[r], rq'[r])
<1> DEFINE x == [rq[r] EXCEPT !.pc = y]
<1>1. DOMAIN x = Fields /\ x.pc = y /\ Alike(rq[r], x)
  BY DEF IInv, Shape, Fields, Alike
<1>2. rq' = [rq EXCEPT ![r] = x]
  BY DEF Go
<1> HIDE DEF x
<1>3. QED
  BY <1>1, <1>2, SetRequest

LEMMA ViaAlike ==
  ASSUME IInv, NEW r \in Requests, NEW v, NEW y, rq' = [rq EXCEPT ![r].via = v, ![r].pc = y]
  PROVE  Moved(r) /\ rq'[r].pc = y /\ Alike(rq[r], rq'[r])
<1> DEFINE x == [rq[r] EXCEPT !.via = v, !.pc = y]
<1>1. DOMAIN x = Fields /\ x.pc = y /\ Alike(rq[r], x)
  BY DEF IInv, Shape, Fields, Alike
<1>2. rq' = [rq EXCEPT ![r] = x]
  BY DEF IInv, Shape
<1> HIDE DEF x
<1>3. QED
  BY <1>1, <1>2, SetRequest

LEMMA SrcAlike ==
  ASSUME IInv, NEW r \in Requests, NEW y, NEW z, rq' = [rq EXCEPT ![r].pc = y, ![r].src = z]
  PROVE  Moved(r) /\ rq'[r].pc = y /\ Alike(rq[r], rq'[r])
<1> DEFINE x == [rq[r] EXCEPT !.pc = y, !.src = z]
<1>1. DOMAIN x = Fields /\ x.pc = y /\ Alike(rq[r], x)
  BY DEF IInv, Shape, Fields, Alike
<1>2. rq' = [rq EXCEPT ![r] = x]
  BY DEF IInv, Shape
<1> HIDE DEF x
<1>3. QED
  BY <1>1, <1>2, SetRequest

LEMMA NextCandidateOrderly ==
  ASSUME IInv, Accounts, NEW r \in Requests, NextCandidate(r), UNCHANGED spool,
         rq[r].pc \notin {"route", "capture", "finish", "done"}
  PROVE  Accounts'
<1>1. DOMAIN NewRequest = Fields
  BY DEF NewRequest, Fields
<1>2. rq[r].sent \in {0, 1} /\ Orderly(body[r], rq[r])
  BY DEF Accounts, Orderly
<1>3. CASE rq' = [rq EXCEPT ![r] = [NewRequest EXCEPT !.pc = "finish", !.sent = rq[r].sent]]
  <2> DEFINE d == [NewRequest EXCEPT !.pc = "finish", !.sent = rq[r].sent]
  <2>1. DOMAIN d = Fields /\ d.pc = "finish" /\ d.sent = rq[r].sent
    BY <1>1 DEF Fields
  <2>2. rq' = [rq EXCEPT ![r] = d]
    BY <1>3
  <2> HIDE DEF d
  <2>3. Moved(r) /\ rq'[r] = d
    BY <2>1, <2>2, SetRequest
  <2>4. QED
    BY <1>2, <2>1, <2>3, EndsOrderly
<1>4. CASE /\ rq[r].i < Len(rq[r].plan)
           /\ rq' = [rq EXCEPT ![r] = [NewRequest EXCEPT !.pc = "try", !.kind = kind(r), !.plan = rq[r].plan,
                                                         !.i = rq[r].i + 1, !.sent = rq[r].sent]]
  <2> DEFINE d == [NewRequest EXCEPT !.pc = "try", !.kind = kind(r), !.plan = rq[r].plan,
                                     !.i = rq[r].i + 1, !.sent = rq[r].sent]
  <2>1. DOMAIN d = Fields /\ d.pc = "try" /\ d.sent = rq[r].sent
    BY <1>1 DEF Fields
  <2>2. rq' = [rq EXCEPT ![r] = d]
    BY <1>4
  <2> HIDE DEF d
  <2>3. Moved(r) /\ rq'[r] = d
    BY <2>1, <2>2, SetRequest
  <2>4. ~(body[r].left > 0)
    BY <1>2, <1>4 DEF Orderly
  <2>5. QED
    BY <1>2, <2>1, <2>3, <2>4, AfterBody
<1>5. QED
  BY <1>3, <1>4 DEF NextCandidate

LEMMA AnsweredOrderly ==
  ASSUME IInv, Accounts, NEW r \in Requests, Answered(r), UNCHANGED spool
  PROVE  Accounts'
<1> DEFINE d == [NewRequest EXCEPT !.pc = "finish", !.src = rq[r].via, !.sent = rq[r].sent]
<1>1. DOMAIN NewRequest = Fields
  BY DEF NewRequest, Fields
<1>2. DOMAIN d = Fields /\ d.pc = "finish" /\ d.sent = rq[r].sent
  BY <1>1 DEF Fields
<1>3. rq' = [rq EXCEPT ![r] = d]
  BY DEF Answered
<1> HIDE DEF d
<1>4. Moved(r) /\ rq'[r] = d
  BY <1>2, <1>3, SetRequest
<1>5. QED
  BY <1>2, <1>4, SentType, EndsOrderly

LEMMA ChallengedOrderly ==
  ASSUME IInv, Accounts, NEW r \in Requests, NEW c, NEW n, Challenged(r, c, n), UNCHANGED spool,
         ~(body[r].left > 0)
  PROVE  Accounts'
<1> DEFINE d == [rq[r] EXCEPT !.pc = Selected(r, c), !.att = n, !.chal = c, !.src = rq[r].via]
<1>1. Selected(r, c) \in {"header", "getPool", "switch"}
  BY DEF Selected
<1>2. DOMAIN d = Fields /\ d.pc = Selected(r, c) /\ d.sent = rq[r].sent
  BY DEF IInv, Shape, Fields
<1>3. rq' = [rq EXCEPT ![r] = d]
  BY DEF Challenged, IInv, Shape
<1> HIDE DEF d
<1>4. Moved(r) /\ rq'[r] = d
  BY <1>2, <1>3, SetRequest
<1>5. QED
  BY <1>1, <1>2, <1>4, SentType, AfterBody

(* Nothing is streamed when a body is sent again. *)
LEMMA OutboundSent ==
  ASSUME IInv, NEW r \in Requests, ~(body[r].left > 0)
  PROVE  DOMAIN Outbound(r) = Fields /\ Outbound(r).sent = rq[r].sent
BY DEF IInv, Shape, Fields, Outbound, Streamed

LEMMA SentAgain ==
  ASSUME IInv, Accounts, NEW r \in Requests, NEW d, rq' = [rq EXCEPT ![r] = d], UNCHANGED spool,
         DOMAIN d = Fields, d.sent = rq[r].sent, ~(body[r].left > 0), d.pc \notin {"route", "capture", "done"}
  PROVE  Accounts'
BY SetRequest, SentType, AfterBody, ZenonT(30)

-----------------------------------------------------------------------------
(* The steps with a body to come, ... *)
LEMMA FindProxyOrderly ==
  ASSUME IInv, Accounts, NEW r \in Requests, FindProxy(r)
  PROVE  Accounts'
<1>1. /\ rq[r].pc = "route" /\ SpoolInv /\ rq[r].sent = 0 /\ rq[r].i = 1 /\ rq[r].kind = "http"
      /\ ~(body[r].left > 0) /\ DOMAIN rq[r] = Fields
  BY DEF FindProxy, At, Accounts, Orderly, IInv, Shape
<1>2. CASE Go(r, "finish") /\ UNCHANGED spool
  <2>1. Moved(r) /\ rq'[r].pc = "finish" /\ Alike(rq[r], rq'[r])
    BY <1>2, GoAlike
  <2>2. QED
    BY <1>1, <1>2, <2>1, EndsOrderly DEF Alike
<1>3. ASSUME NEW p, NEW n, Arrives(r, n),
             rq' = [rq EXCEPT ![r].plan = p, ![r].pc = IF NeedsReplayableBody(n, p) THEN "capture" ELSE "try"]
      PROVE  Accounts'
  <2> DEFINE y == IF NeedsReplayableBody(n, p) THEN "capture" ELSE "try"
             d == [rq[r] EXCEPT !.plan = p, !.pc = y]
  <2>1. /\ DOMAIN d = Fields /\ d.pc = y /\ d.plan = p
        /\ d.sent = 0 /\ d.i = 1 /\ d.kind = "http"
    BY <1>1 DEF Fields
  <2>2. rq' = [rq EXCEPT ![r] = d]
    BY <1>3 DEF IInv, Shape
  <2>3. y \in {"capture", "try"} /\ (n > 0 /\ y = "try" => ~(Len(p) > 1))
    BY DEF NeedsReplayableBody
  <2> HIDE DEF d, y
  <2>4. Moved(r) /\ rq'[r] = d
    BY <2>1, <2>2, SetRequest
  <2>5. SpoolInv' /\ body'[r].left = n /\ \A x \in Requests : x # r => body'[x] = body[x]
    BY <1>1, <1>3, ArrivesInv
  <2>6. Orderly(body'[r], d)
    BY <2>1, <2>3, <2>5 DEF Orderly, Unsent
  <2>7. QED
    BY <2>4, <2>5, <2>6, StepOrderly
<1>4. ASSUME NEW p, rq' = [rq EXCEPT ![r].plan = p, ![r].kind = "connect", ![r].pc = "try"], UNCHANGED spool
      PROVE  Accounts'
  <2> DEFINE d == [rq[r] EXCEPT !.plan = p, !.kind = "connect", !.pc = "try"]
  <2>1. DOMAIN d = Fields /\ d.pc = "try" /\ d.sent = 0
    BY <1>1 DEF Fields
  <2>2. rq' = [rq EXCEPT ![r] = d]
    BY <1>4 DEF IInv, Shape
  <2> HIDE DEF d
  <2>3. Moved(r) /\ rq'[r] = d
    BY <2>1, <2>2, SetRequest
  <2>4. QED
    BY <1>1, <1>4, <2>1, <2>3, AfterBody
<1>5. QED
  BY <1>2, <1>3, <1>4 DEF FindProxy

LEMMA CaptureOrderly ==
  ASSUME IInv, Accounts, NEW r \in Requests, Capture(r) \/ CaptureEnds(r) \/ CaptureError(r)
  PROVE  Accounts'
<1>1. /\ rq[r].pc = "capture" /\ SpoolInv /\ Orderly(body[r], rq[r])
      /\ rq[r].sent = 0 /\ rq[r].i = 1 /\ rq[r].kind = "http"
  BY DEF Capture, CaptureEnds, CaptureError, At, Accounts, Orderly
<1>2. CASE Capture(r)
  <2>1. SpoolInv' /\ \A x \in Requests : x # r => body'[x] = body[x]
    BY <1>1, <1>2, CaptureInv DEF Capture
  <2>2. rq' = rq /\ Moved(r)
    BY <1>2 DEF Capture, Moved, IInv, Shape
  <2>3. Orderly(body'[r], rq'[r])
    BY <1>1, <2>2 DEF Orderly
  <2>4. QED
    BY <2>1, <2>2, <2>3, StepOrderly
<1>3. CASE CaptureEnds(r)
  <2>1. Moved(r) /\ rq'[r].pc = "try" /\ Alike(rq[r], rq'[r]) /\ UNCHANGED spool /\ body[r].left = 0
    BY <1>3, GoAlike DEF CaptureEnds, Captured
  <2>2. ~(body[r].left > 0) /\ rq'[r].sent = 0
    BY <1>1, <2>1 DEF Alike
  <2>3. QED
    BY <2>1, <2>2, AfterBody
<1>4. CASE CaptureError(r)
  <2>1. Moved(r) /\ rq'[r].pc = "finish" /\ Alike(rq[r], rq'[r])
    BY <1>4, GoAlike DEF CaptureError
  <2>2. SpoolInv' /\ body'[r] = NoBody /\ \A x \in Requests : x # r => body'[x] = body[x]
    BY <1>1, <1>4, CaptureFailsInv DEF CaptureError
  <2>3. Orderly(body'[r], rq'[r])
    BY <1>1, <2>1 DEF Orderly, Alike
  <2>4. QED
    BY <2>1, <2>2, <2>3, StepOrderly
<1>5. QED
  BY <1>2, <1>3, <1>4

LEMMA FinishOrderly ==
  ASSUME IInv, Accounts, NEW r \in Requests, Finish(r)
  PROVE  Accounts'
<1> DEFINE d == [NewRequest EXCEPT !.pc = "done"]
<1>1. /\ DOMAIN d = Fields /\ d.pc = "done" /\ d.sent = 0 /\ d.via = None /\ d.sess = "none" /\ d.sock = FALSE
  BY DEF NewRequest, Fields
<1>2. rq' = [rq EXCEPT ![r] = d]
  BY DEF Finish
<1> HIDE DEF d
<1>3. Moved(r) /\ rq'[r] = d
  BY <1>1, <1>2, SetRequest
<1>4. SpoolInv' /\ body'[r] = NoBody /\ \A x \in Requests : x # r => body'[x] = body[x]
  BY AbandonInv DEF Finish, Accounts
<1>5. Orderly(body'[r], d)
  BY <1>1, <1>4, EmptyBody, SMTT(30) DEF Orderly
<1>6. QED
  BY <1>3, <1>4, <1>5, StepOrderly

LEMMA RouteOrderly ==
  ASSUME IInv, Accounts, NEW r \in Requests, Try(r) \/ LockPooled(r) \/ Transport(r) \/ Build(r)
  PROVE  Accounts'
<1>1. UNCHANGED spool
  BY DEF Try, LockPooled, Transport, Build
<1>2. rq[r].pc \in Unsent
  BY DEF Try, LockPooled, Transport, Build, At, Unsent
<1>3. CASE Try(r)
  <2>1. \E v, y : y \in {"lockPooled", "transport"} /\ rq' = [rq EXCEPT ![r].via = v, ![r].pc = y]
    BY <1>3 DEF Try
  <2>2. Moved(r) /\ rq'[r].pc \in {"lockPooled", "transport"} /\ Alike(rq[r], rq'[r])
    BY <2>1, ViaAlike
  <2>3. QED
    BY <1>1, <1>2, <2>2, OnTheWay DEF Unsent
<1>4. CASE LockPooled(r)
  <2>1. Go(r, "open") \/ rq' = [rq EXCEPT ![r].via = None, ![r].pc = "transport"]
    BY <1>4 DEF LockPooled
  <2>2. Moved(r) /\ rq'[r].pc \in {"open", "transport"} /\ Alike(rq[r], rq'[r])
    BY <2>1, GoAlike, ViaAlike
  <2>3. QED
    BY <1>1, <1>2, <2>2, OnTheWay DEF Unsent
<1>5. CASE Transport(r) \/ Build(r)
  <2>1. \E y \in {"open", "build"} : Go(r, y)
    BY <1>5 DEF Transport, Build
  <2>2. Moved(r) /\ rq'[r].pc \in {"open", "build"} /\ Alike(rq[r], rq'[r])
    BY <2>1, GoAlike
  <2>3. QED
    BY <1>1, <1>2, <2>2, OnTheWay DEF Unsent
<1>6. QED
  BY <1>3, <1>4, <1>5

LEMMA OpenOrderly ==
  ASSUME IInv, Accounts, NEW r \in Requests, Open(r)
  PROVE  Accounts'
<1>1. UNCHANGED spool /\ rq[r].pc = "open" /\ Orderly(body[r], rq[r]) /\ rq[r].sent \in {0, 1} /\ DOMAIN rq[r] = Fields
  BY DEF Open, At, Accounts, Orderly, IInv, Shape
<1>2. CASE rq' = [rq EXCEPT ![r] = [Outbound(r) EXCEPT !.pc = "send"]]
  <2> DEFINE w == Outbound(r)
             d == [w EXCEPT !.pc = "send"]
  <2>1. /\ DOMAIN w = Fields /\ w.plan = rq[r].plan /\ w.i = rq[r].i /\ w.kind = rq[r].kind
        /\ w.sent = IF body[r].left > 0 THEN rq[r].sent + 1 ELSE rq[r].sent
    BY <1>1 DEF Fields, Outbound, Streamed
  <2> HIDE DEF w
  <2>2. /\ DOMAIN d = Fields /\ d.pc = "send" /\ d.plan = rq[r].plan /\ d.i = rq[r].i /\ d.kind = rq[r].kind
        /\ d.sent = w.sent
    BY <2>1 DEF Fields
  <2>3. rq' = [rq EXCEPT ![r] = d]
    BY <1>2 DEF w
  <2> HIDE DEF d
  <2>4. Moved(r) /\ rq'[r] = d
    BY <2>2, <2>3, SetRequest
  <2>5. d.sent \in {0, 1}
    BY <1>1, <2>1, <2>2, SMTT(30) DEF Orderly
  <2>6. Orderly(body[r], d)
    BY <1>1, <2>2, <2>5 DEF Orderly
  <2>7. QED
    BY <1>1, <2>4, <2>6, RequestOrderly
<1>3. CASE NextCandidate(r)
  BY <1>1, <1>3, NextCandidateOrderly
<1>4. QED
  BY <1>2, <1>3 DEF Open

LEMMA SendOrderly ==
  ASSUME IInv, Accounts, NEW r \in Requests, SendFails(r) \/ Response(r) \/ Response407(r)
  PROVE  Accounts'
<1>1. UNCHANGED spool /\ rq[r].pc = "send"
  BY DEF SendFails, Response, Response407, At
<1>2. CASE NextCandidate(r)
  BY <1>1, <1>2, NextCandidateOrderly
<1>3. CASE Answered(r)
  BY <1>1, <1>3, AnsweredOrderly
<1>4. CASE ~(body[r].left > 0) /\ \E c \in Challenges : Challenged(r, c, 0)
  BY <1>1, <1>4, ChallengedOrderly
<1>5. QED
  BY <1>2, <1>3, <1>4 DEF SendFails, Response, Response407, Streamed

(* ... those of the authentication loop, ... *)
LEMMA PoolOrderly ==
  ASSUME IInv, Accounts, NEW r \in Requests, SwitchScheme(r) \/ GetPool(r) \/ BuildPool(r) \/ LockAuth(r)
  PROVE  Accounts'
<1>1. UNCHANGED spool /\ rq[r].pc \in {"switch", "getPool", "buildPool", "lockAuth"}
  BY DEF SwitchScheme, GetPool, BuildPool, LockAuth, At
<1>2. ~(body[r].left > 0) /\ rq[r].sent \in {0, 1}
  BY <1>1, NothingStreamed, SentType DEF Unsent
<1>3. \/ \E v, y : y \in {"getPool", "lockAuth"} /\ rq' = [rq EXCEPT ![r].via = v, ![r].pc = y]
      \/ \E y \in {"buildPool", "replay", "header"} : Go(r, y)
  BY DEF SwitchScheme, GetPool, BuildPool, LockAuth, Go
<1>4. /\ Moved(r) /\ rq'[r].pc \in {"getPool", "lockAuth", "buildPool", "replay", "header"}
      /\ Alike(rq[r], rq'[r])
  BY <1>3, GoAlike, ViaAlike
<1>5. QED
  BY <1>1, <1>2, <1>4, AfterBody DEF Alike

LEMMA AgainOrderly ==
  ASSUME IInv, Accounts, NEW r \in Requests, NEW c, Again(r, c), UNCHANGED spool, ~(body[r].left > 0)
  PROVE  Accounts'
<1>1. CASE Challenged(r, c, rq[r].att + 1)
  BY <1>1, ChallengedOrderly
<1>2. CASE rq' = [rq EXCEPT ![r].pc = "leave", ![r].src = rq[r].via]
  <2>1. Moved(r) /\ rq'[r].pc = "leave" /\ Alike(rq[r], rq'[r])
    BY <1>2, SrcAlike
  <2>2. QED
    BY <2>1, SentType, AfterBody DEF Alike
<1>3. QED
  BY <1>1, <1>2 DEF Again

LEMMA ReplayOrderly ==
  ASSUME IInv, Accounts, NEW r \in Requests, Replay(r) \/ ReplayReply(r)
  PROVE  Accounts'
<1>1. UNCHANGED spool /\ rq[r].pc \in {"replay", "replaySend"}
  BY DEF Replay, ReplayReply, At
<1>2. ~(body[r].left > 0) /\ rq[r].sent \in {0, 1}
  BY <1>1, NothingStreamed, SentType DEF Unsent
<1>3. CASE rq' = [rq EXCEPT ![r] = [Outbound(r) EXCEPT !.pc = "replaySend"]]
  <2> DEFINE w == Outbound(r)
             d == [w EXCEPT !.pc = "replaySend"]
  <2>1. DOMAIN w = Fields /\ w.sent = rq[r].sent
    BY <1>2, OutboundSent
  <2>2. rq' = [rq EXCEPT ![r] = d]
    BY <1>3
  <2> HIDE DEF w
  <2>3. DOMAIN d = Fields /\ d.sent = rq[r].sent /\ d.pc = "replaySend"
    BY <2>1 DEF Fields
  <2> HIDE DEF d
  <2>4. QED
    BY <1>1, <1>2, <2>2, <2>3, SentAgain
<1>4. CASE Go(r, "leave") \/ \E z : rq' = [rq EXCEPT ![r].pc = "leave", ![r].src = z]
  <2>1. Moved(r) /\ rq'[r].pc = "leave" /\ Alike(rq[r], rq'[r])
    BY <1>4, GoAlike, SrcAlike
  <2>2. QED
    BY <1>1, <1>2, <2>1, AfterBody DEF Alike
<1>5. CASE \E c \in Challenges : Again(r, c)
  BY <1>1, <1>2, <1>5, AgainOrderly
<1>6. QED
  BY <1>3, <1>4, <1>5 DEF Replay, ReplayReply

LEMMA AuthOrderly ==
  ASSUME IInv, Accounts, NEW r \in Requests, Header(r) \/ AuthReply(r)
  PROVE  Accounts'
<1>1. UNCHANGED spool /\ rq[r].pc \in {"header", "authSend"}
  BY DEF Header, AuthReply, At
<1>2. ~(body[r].left > 0) /\ rq[r].sent \in {0, 1}
  BY <1>1, NothingStreamed, SentType DEF Unsent
<1>3. CASE rq' = [rq EXCEPT ![r] = [Outbound(r) EXCEPT !.pc = "authSend", !.sess = Session(r, rq[r].chal)]]
  <2> DEFINE w == Outbound(r)
             z == Session(r, rq[r].chal)
             d == [w EXCEPT !.pc = "authSend", !.sess = z]
  <2>1. DOMAIN w = Fields /\ w.sent = rq[r].sent
    BY <1>2, OutboundSent
  <2>2. rq' = [rq EXCEPT ![r] = d]
    BY <1>3
  <2> HIDE DEF w, z
  <2>3. DOMAIN d = Fields /\ d.sent = rq[r].sent /\ d.pc = "authSend"
    BY <2>1 DEF Fields
  <2> HIDE DEF d
  <2>4. QED
    BY <1>1, <1>2, <2>2, <2>3, SentAgain
<1>4. ASSUME NEW x, rq' = [rq EXCEPT ![r].pc = "leave", ![r].sess = x, ![r].src = None]
      PROVE  Accounts'
  <2> DEFINE d == [rq[r] EXCEPT !.pc = "leave", !.sess = x, !.src = None]
  <2>1. DOMAIN d = Fields /\ d.pc = "leave" /\ d.sent = rq[r].sent
    BY DEF IInv, Shape, Fields
  <2>2. rq' = [rq EXCEPT ![r] = d]
    BY <1>4 DEF IInv, Shape
  <2> HIDE DEF d
  <2>3. Moved(r) /\ rq'[r] = d
    BY <2>1, <2>2, SetRequest
  <2>4. QED
    BY <1>1, <1>2, <2>1, <2>3, AfterBody
<1>5. CASE Go(r, "leave") \/ \E z : rq' = [rq EXCEPT ![r].pc = "leave", ![r].src = z]
  <2>1. Moved(r) /\ rq'[r].pc = "leave" /\ Alike(rq[r], rq'[r])
    BY <1>5, GoAlike, SrcAlike
  <2>2. QED
    BY <1>1, <1>2, <2>1, AfterBody DEF Alike
<1>6. CASE \E c : Again(r, c)
  BY <1>1, <1>2, <1>6, AgainOrderly
<1>7. CASE Header(r)
  BY <1>3, <1>4, <1>5, <1>7 DEF Header
<1>8. CASE AuthReply(r)
  BY <1>5, <1>6, <1>8 DEF AuthReply
<1>9. QED
  BY <1>7, <1>8

LEMMA LeaveOrderly ==
  ASSUME IInv, Accounts, NEW r \in Requests, Leave(r) \/ CloseSession(r)
  PROVE  Accounts'
<1>1. UNCHANGED spool /\ rq[r].pc \in {"leave", "close"}
  BY DEF Leave, CloseSession, At
<1>2. ~(body[r].left > 0) /\ rq[r].sent \in {0, 1}
  BY <1>1, NothingStreamed, SentType DEF Unsent
<1>3. PICK d : /\ DOMAIN d = Fields /\ d.pc \in {"finish", "close"} /\ d.sent \in {0, rq[r].sent}
               /\ rq' = [rq EXCEPT ![r] = d]
  <2>1. CASE Leave(r)
    <3> DEFINE p == IF rq[r].sess = "none" THEN "finish" ELSE "close"
               v == IF rq[r].sess = "none" THEN None ELSE rq[r].via
               d == [NewRequest EXCEPT !.pc = p, !.sess = rq[r].sess, !.src = rq[r].src, !.via = v]
    <3>1. rq' = [rq EXCEPT ![r] = d]
      BY <2>1 DEF Leave
    <3>2. p \in {"finish", "close"}
      OBVIOUS
    <3> HIDE DEF p, v
    <3>3. DOMAIN d = Fields /\ d.pc = p /\ d.sent = 0
      BY DEF NewRequest, Fields
    <3> HIDE DEF d
    <3>4. QED
      BY <3>1, <3>2, <3>3
  <2>2. CASE CloseSession(r)
    <3> DEFINE d == [rq[r] EXCEPT !.pc = "finish", !.sess = "none", !.via = None]
    <3>1. DOMAIN d = Fields /\ d.pc = "finish" /\ d.sent = rq[r].sent
      BY DEF IInv, Shape, Fields
    <3>2. rq' = [rq EXCEPT ![r] = d]
      BY <2>2 DEF CloseSession, IInv, Shape
    <3> HIDE DEF d
    <3>3. QED
      BY <3>1, <3>2
  <2>3. QED
    BY <2>1, <2>2
<1>4. Moved(r) /\ rq'[r] = d
  BY <1>3, SetRequest
<1>5. QED
  BY <1>1, <1>2, <1>3, <1>4, AfterBody

(* ... and those of CONNECT. *)
LEMMA ConnectOrderly ==
  ASSUME IInv, Accounts, NEW r \in Requests, Dial(r) \/ Handshake(r) \/ ConnectReply(r) \/ Connected(r)
  PROVE  Accounts'
<1>1. /\ UNCHANGED spool /\ rq[r].pc \in {"try", "handshake", "connectSend", "connected"}
      /\ rq[r].pc = "try" => rq[r].kind = "connect"
  BY DEF Dial, Handshake, ConnectReply, Connected, At, kind
<1>2. ~(body[r].left > 0) /\ rq[r].sent \in {0, 1} /\ DOMAIN rq[r] = Fields
  BY <1>1 DEF Accounts, Orderly, Unsent, IInv, Shape
<1>3. CASE NextCandidate(r)
  BY <1>1, <1>3, NextCandidateOrderly
<1>4. ASSUME NEW d, DOMAIN d = Fields, rq' = [rq EXCEPT ![r] = d], d.sent \in {0, 1},
             d.pc \in {"connected", "handshake", "connectSend", "finish"}
      PROVE  Accounts'
  BY <1>1, <1>2, <1>4, SetRequest, AfterBody
<1>5. ASSUME Dial(r), ~NextCandidate(r) PROVE Accounts'
  <2> DEFINE y == IF cand(r) = Direct THEN "connected" ELSE "handshake"
             d == [rq[r] EXCEPT !.pc = y, !.sock = TRUE]
  <2>1. rq' = [rq EXCEPT ![r] = d]
    BY <1>5 DEF Dial, IInv, Shape
  <2>2. y \in {"connected", "handshake"}
    OBVIOUS
  <2> HIDE DEF y
  <2>3. DOMAIN d = Fields /\ d.pc = y /\ d.sent = rq[r].sent
    BY <1>2 DEF Fields
  <2> HIDE DEF d
  <2>4. QED
    BY <1>2, <1>4, <2>1, <2>2, <2>3
<1>6. ASSUME Handshake(r), ~NextCandidate(r) PROVE Accounts'
  <2>1. \E y \in {"connected", "connectSend"} : Go(r, y)
    BY <1>6 DEF Handshake
  <2>2. Moved(r) /\ rq'[r].pc \in {"connected", "connectSend"} /\ Alike(rq[r], rq'[r])
    BY <2>1, GoAlike
  <2>3. QED
    BY <1>1, <1>2, <2>2, AfterBody DEF Alike
<1>7. ASSUME ConnectReply(r), ~NextCandidate(r) PROVE Accounts'
  <2>1. CASE rq' = [rq EXCEPT ![r].pc = "connected", ![r].sess = "none"]
    <3> DEFINE d == [rq[r] EXCEPT !.pc = "connected", !.sess = "none"]
    <3>1. rq' = [rq EXCEPT ![r] = d]
      BY <2>1 DEF IInv, Shape
    <3>2. DOMAIN d = Fields /\ d.pc = "connected" /\ d.sent = rq[r].sent
      BY <1>2 DEF Fields
    <3> HIDE DEF d
    <3>3. QED
      BY <1>2, <1>4, <3>1, <3>2
  <2>2. ASSUME NEW c, rq' = [rq EXCEPT ![r].att = @ + 1, ![r].chal = c, ![r].sess = Session(r, c)]
        PROVE  Accounts'
    <3> DEFINE z == Session(r, c)
               d == [rq[r] EXCEPT !.att = @ + 1, !.chal = c, !.sess = z]
    <3>1. rq' = [rq EXCEPT ![r] = d]
      BY <2>2 DEF IInv, Shape
    <3> HIDE DEF z
    <3>2. DOMAIN d = Fields /\ d.pc = rq[r].pc /\ d.sent = rq[r].sent
      BY <1>2 DEF Fields
    <3> HIDE DEF d
    <3>3. rq[r].pc = "connectSend"
      BY <1>7 DEF ConnectReply, At
    <3>4. QED
      BY <1>2, <1>4, <3>1, <3>2, <3>3
  <2>3. QED
    BY <1>7, <2>1, <2>2 DEF ConnectReply
<1>8. CASE Connected(r)
  <2> DEFINE d == [NewRequest EXCEPT !.pc = "finish"]
  <2>1. rq' = [rq EXCEPT ![r] = d]
    BY <1>8 DEF Connected
  <2>2. DOMAIN d = Fields /\ d.pc = "finish" /\ d.sent = 0
    BY DEF NewRequest, Fields
  <2> HIDE DEF d
  <2>3. QED
    BY <1>4, <2>1, <2>2
<1>9. QED
  BY <1>3, <1>5, <1>6, <1>7, <1>8

LEMMA AccountsInit == Init => Accounts
<1> SUFFICES ASSUME Init PROVE Accounts
  OBVIOUS
<1>1. SpoolInv
  BY SpoolStart DEF Init
<1>2. ASSUME NEW r \in Requests PROVE Orderly(body[r], rq[r])
  <2>1. body[r] = NoBody /\ rq[r] = NewRequest
    BY DEF Init, SpoolInit
  <2>2. NewRequest.pc = "route" /\ NewRequest.sent = 0 /\ NewRequest.i = 1 /\ NewRequest.kind = "http"
    BY DEF NewRequest
  <2>3. QED
    BY <2>1, <2>2, EmptyBody, SMTT(30) DEF Orderly
<1>3. QED
  BY <1>1, <1>2 DEF Accounts

LEMMA AccountsNext == IInv /\ Accounts /\ [Next]_vars => Accounts'
<1> SUFFICES ASSUME IInv, Accounts, [Next]_vars PROVE Accounts'
  OBVIOUS
<1>1. CASE UNCHANGED vars \/ ClearTransports
  <2>1. rq' = rq /\ body' = body /\ used' = used /\ lost' = lost
    BY <1>1 DEF vars, spool, ClearTransports
  <2>2. QED
    BY <2>1 DEF Accounts, SpoolInv
<1>2. ASSUME NEW r \in Requests, Step(r) PROVE Accounts'
  BY <1>2, FindProxyOrderly, CaptureOrderly, FinishOrderly, RouteOrderly, OpenOrderly, SendOrderly,
     PoolOrderly, ReplayOrderly, AuthOrderly, LeaveOrderly, ConnectOrderly DEF Step
<1>3. QED
  BY <1>1, <1>2 DEF Next

(* Whichever way a request ends, its files, sockets, sessions and locks    *)
(* are given back, the budget counts the files on disk and stays within    *)
(* its limit, and a streamed body is sent once (newReplayableBody,         *)
(* roundTripHTTPWithProxyFallback, connectWithProxyFallback), for any      *)
(* number of requests and any limits.                                      *)
THEOREM ResourcesAreAccounted == Spec => []ResourcesAccounted
<1>1. IInv /\ Accounts => ResourcesAccounted
  <2> SUFFICES ASSUME IInv, Accounts PROVE ResourcesAccounted
    OBVIOUS
  <2>1. SpoolAccounted
    BY DEF Accounts, SpoolInv, Body, SpoolAccounted
  <2>2. ASSUME NEW r \in Requests
        PROVE  /\ rq[r].sent <= 1
               /\ At(r, "done") => rq[r].via = None /\ rq[r].sess = "none" /\ ~rq[r].sock /\ ~body[r].file
    BY SMTT(30) DEF Accounts, Orderly, At
  <2>3. \A r \in Requests, e \in Entries : At(r, "done") => ent[e].lock # r
    BY DEF IInv, Locking, Holds, Holding, At
  <2>4. QED
    BY <2>1, <2>2, <2>3 DEF ResourcesAccounted
<1>2. QED
  BY <1>1, InitInv, NextInv, AccountsInit, AccountsNext, PTL DEF Spec
=============================================================================
