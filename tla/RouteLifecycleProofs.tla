------------------------ MODULE RouteLifecycleProofs ------------------------
(***************************************************************************)
(* The server implements module Routing, its leases are sound and nothing  *)
(* leaks, for any number of lookups, reloads, changes and failures.        *)
(* The DNS cache keeps its promises, for any number of callers and hosts.  *)
(***************************************************************************)
EXTENDS RouteLifecycle, DnsCache, FiniteSetTheorems, TLAPS

-----------------------------------------------------------------------------
(* DnsCache, for any number of callers and hosts, any TTLs and any         *)
(* capacity.                                                               *)

Leading == {"leading", "publishing"}

(* What the cache and the calls in flight hold is of the current           *)
(* generation, because ClearNetworkState drops both with the old one.      *)
CurrentState ==
  /\ \A h \in DOMAIN cache : cache[h].gen = generation
  /\ \A h \in DOMAIN inflight :
       /\ pc[inflight[h]] \in Leading
       /\ host[inflight[h]] = h
       /\ call[inflight[h]].gen = generation
  /\ \A p \in Callers :
       pc[p] \in Leading /\ call[p].gen = generation
       => host[p] \in DOMAIN inflight /\ inflight[host[p]] = p

(* A caller only ever depends on calls at least as recent as itself. *)
RecentCalls ==
  \A p \in Callers :
    /\ startGen[p] <= generation
    /\ pc[p] \in Leading => startGen[p] <= call[p].gen /\ call[p].gen <= generation
    /\ pc[p] = "waiting" =>
         /\ startGen[p] <= call[joined[p]].gen
         /\ pc[joined[p]] \in Leading \cup {"done"}
         /\ pc[joined[p]] = "done" => call[joined[p]].done
         /\ pc[joined[p]] \in Leading => host[joined[p]] = host[p]

(* A waiter waits for the lookup of its own host, and that lookup is under *)
(* way or has closed done: whichever of Join, PublishVerdict and                  *)
(* ClearNetworkState came first, no waiter is left on a call nobody leads. *)
WaitersServed ==
  \A p \in Callers : pc[p] = "waiting" =>
    \/ pc[joined[p]] \in Leading /\ host[joined[p]] = host[p]
    \/ pc[joined[p]] = "done" /\ call[joined[p]].done

(* evictLocked always finds the entry to drop: the one that expires        *)
(* soonest exists and ties are decided, so no leader is held up with the   *)
(* write lock in its hands.                                                *)
EvictionSucceeds == \A t \in Nat : Room(t) # {}

(* A verdict on its way to the cache is the resolver's own. *)
OwnVerdicts ==
  \A p \in Callers : local[p].cacheable => local[p].verdict # "cancelled"

(* The inductive invariant. *)
CacheInv ==
  /\ LookupTypeOK
  /\ CurrentState
  /\ RecentCalls
  /\ OwnVerdicts
  /\ Coalesced
  /\ CancellationNotCached
  /\ FreshAnswer

-----------------------------------------------------------------------------
(* evictLocked leaves only hosts that were cached, and room for one more.  *)
LEMMA RoomForOne ==
  ASSUME LookupTypeOK, NEW t \in Nat, NEW kept \in Room(t)
  PROVE  /\ kept \subseteq DOMAIN cache
         /\ IsFiniteSet(kept)
         /\ Cardinality(kept) < MaxEntries
<1>1. /\ IsFiniteSet(DOMAIN cache)
      /\ Cardinality(DOMAIN cache) \in Nat
      /\ Cardinality(DOMAIN cache) <= MaxEntries
      /\ MaxEntries \in Nat
  BY FS_CardinalityType, DnsCacheAssumption DEF LookupTypeOK
<1>2. /\ Live(t) \subseteq DOMAIN cache
      /\ IsFiniteSet(Live(t))
      /\ Cardinality(Live(t)) \in Nat
      /\ Cardinality(Live(t)) <= Cardinality(DOMAIN cache)
  <2>1. Live(t) \subseteq DOMAIN cache
    BY DEF Live
  <2> QED
    BY <2>1, <1>1, FS_Subset, FS_CardinalityType
<1>3. CASE Cardinality(DOMAIN cache) < MaxEntries
  <2>1. kept = DOMAIN cache
    BY <1>3 DEF Room
  <2> QED
    BY <1>1, <1>3, <2>1
<1>4. CASE /\ ~(Cardinality(DOMAIN cache) < MaxEntries)
           /\ Cardinality(Live(t)) < MaxEntries
  <2>1. kept = Live(t)
    BY <1>4 DEF Room
  <2> QED
    BY <1>2, <1>4, <2>1
<1>5. CASE /\ ~(Cardinality(DOMAIN cache) < MaxEntries)
           /\ ~(Cardinality(Live(t)) < MaxEntries)
  <2>1. PICK v \in Victims(t) : kept = Live(t) \ {v}
    BY <1>5 DEF Room
  <2>2. v \in Live(t)
    BY <2>1 DEF Victims
  <2>3. /\ IsFiniteSet(Live(t) \ {v})
        /\ Cardinality(Live(t) \ {v}) = Cardinality(Live(t)) - 1
    BY <1>2, <2>2, FS_RemoveElement
  <2> QED
    BY <1>1, <1>2, <2>1, <2>3
<1> QED
  BY <1>3, <1>4, <1>5

(* The natural numbers are well ordered; every set of them that has a      *)
(* member has a least one.                                                 *)
Less == {ss \in Nat \X Nat : ss[1] < ss[2]}

LEMMA LessIsWellFounded == IsWellFoundedOn(Less, Nat)
  BY NatLessThanWellFounded, Zenon DEF OpToRel, Less

LEMMA LeastOf ==
  ASSUME NEW T, \A t \in T : t \in Nat, NEW t \in T
  PROVE  \E x \in T : \A y \in T : x <= y
<1>1. PICK x \in T : \A y \in T : << y, x >> \notin Less
  BY LessIsWellFounded, WFMin
<1>2. \A y \in T : x <= y
  <2> TAKE y \in T
  <2>1. x \in Nat /\ y \in Nat
    OBVIOUS
  <2>2. << y, x >> \notin Less
    BY <1>1
  <2>3. y < x => << y, x >> \in Less
    BY <2>1 DEF Less
  <2> QED
    BY <2>1, <2>2, <2>3
<1> QED
  BY <1>2

(* Of entries that are live, one expires soonest, and of those that do one *)
(* has the least name.                                                     *)
LEMMA VictimExists ==
  ASSUME LookupTypeOK, NEW t \in Nat, NEW g \in Live(t)
  PROVE  Victims(t) # {}
<1> DEFINE T == {cache[h].expires : h \in Live(t)}
<1>1. \A h \in Live(t) : h \in Nat /\ cache[h].expires \in Nat
  BY DnsCacheAssumption DEF LookupTypeOK, Live, Entries
<1>2. PICK e \in T : \A y \in T : e <= y
  <2>1. (\A y \in T : y \in Nat) /\ cache[g].expires \in T
    BY <1>1
  <2> HIDE DEF T
  <2> QED
    BY <2>1, LeastOf
<1> DEFINE H == {h \in Live(t) : cache[h].expires = e}
<1>3. PICK v \in H : \A y \in H : v <= y
  <2>1. (\A y \in H : y \in Nat) /\ \E h : h \in H
    BY <1>1, <1>2
  <2> HIDE DEF H
  <2> QED
    BY <2>1, LeastOf
<1>4. v \in Live(t) /\ v \in Nat /\ cache[v].expires = e
  BY <1>1, <1>3
<1>5. ASSUME NEW h \in Live(t) \ {v}
      PROVE  \/ cache[v].expires < cache[h].expires
             \/ cache[v].expires = cache[h].expires /\ v < h
  <2>1. h \in Nat /\ cache[h].expires \in Nat /\ cache[v].expires \in Nat /\ h # v
    BY <1>1, <1>4, <1>5
  <2>2. e <= cache[h].expires
    BY <1>2, <1>5
  <2>3. cache[h].expires = e => v <= h
    BY <1>3, <1>5
  <2> HIDE DEF T, H
  <2> QED
    BY <1>4, <2>1, <2>2, <2>3
<1>6. v \in Victims(t)
  BY <1>4, <1>5 DEF Victims
<1> QED
  BY <1>6

(* A full cache of live entries is not empty, so there is a victim. *)
LEMMA RoomExists ==
  ASSUME LookupTypeOK, NEW t \in Nat
  PROVE  Room(t) # {}
<1>1. CASE Cardinality(Live(t)) < MaxEntries
  BY <1>1 DEF Room
<1>2. CASE ~(Cardinality(Live(t)) < MaxEntries)
  <2>1. Live(t) # {}
    BY <1>2, FS_EmptySet, DnsCacheAssumption
  <2>2. Victims(t) # {}
    BY <2>1, VictimExists
  <2> QED
    BY <2>2 DEF Room
<1> QED
  BY <1>1, <1>2

(* A lifetime is a natural number, whatever the resolver reports. *)
LEMMA StoredTTLType ==
  ASSUME NEW verdict \in Verdicts, NEW ttl \in ResolverTTLs
  PROVE  StoredTTL(verdict, ttl) \in Nat
  BY DnsCacheAssumption DEF StoredTTL

(* Initially nothing is cached, in flight or under way. *)
LEMMA InitCacheInv == LookupInit => CacheInv
<1> SUFFICES ASSUME LookupInit PROVE CacheInv
  OBVIOUS
<1>1. DOMAIN cache = {} /\ DOMAIN inflight = {}
  BY DEF LookupInit
<1>2. LookupTypeOK
  BY <1>1, FS_EmptySet, DnsCacheAssumption
  DEF LookupInit, LookupTypeOK, Calls, Locals, NoLocals, Verdicts
<1>3. CurrentState /\ RecentCalls /\ Coalesced
  BY <1>1 DEF LookupInit, CurrentState, RecentCalls, Coalesced, Leading
<1>4. OwnVerdicts /\ CancellationNotCached /\ FreshAnswer
  BY <1>1 DEF LookupInit, OwnVerdicts, CancellationNotCached, FreshAnswer, NoLocals
<1> QED
  BY <1>2, <1>3, <1>4 DEF CacheInv
-----------------------------------------------------------------------------
(* A step that leaves the cache and the calls as they are, and every caller *)
(* leading, waiting or done as it was.                                      *)
LEMMA SameStanding ==
  ASSUME LookupTypeOK, CurrentState, RecentCalls, Coalesced,
         UNCHANGED << generation, cache, inflight, call, host, joined, startGen >>,
         \A q \in Callers : /\ pc'[q] \in Leading <=> pc[q] \in Leading
                            /\ pc'[q] = "waiting" <=> pc[q] = "waiting"
                            /\ pc'[q] = "done" <=> pc[q] = "done"
  PROVE  CurrentState' /\ RecentCalls' /\ Coalesced'
<1>1. /\ \A h \in DOMAIN inflight : inflight[h] \in Callers
      /\ \A q \in Callers : joined[q] \in Callers
  BY DEF LookupTypeOK
<1>2. CurrentState'
  BY <1>1, SMTT(30) DEF CurrentState
<1>3. RecentCalls'
  <2> SUFFICES ASSUME NEW q \in Callers
               PROVE  /\ startGen[q] <= generation
                      /\ pc'[q] \in Leading => startGen[q] <= call[q].gen /\ call[q].gen <= generation
                      /\ pc'[q] = "waiting" =>
                           /\ startGen[q] <= call[joined[q]].gen
                           /\ pc'[joined[q]] \in Leading \cup {"done"}
                           /\ pc'[joined[q]] = "done" => call[joined[q]].done
                           /\ pc'[joined[q]] \in Leading => host[joined[q]] = host[q]
    BY Zenon DEF RecentCalls
  <2> QED
    BY <1>1, SMTT(30) DEF RecentCalls
<1>4. Coalesced'
  BY SMTT(30) DEF Coalesced, Leading
<1> QED
  BY <1>2, <1>3, <1>4

(* A step of LookupContext, a cancellation, a network change and the       *)
(* passage of time each preserve the invariant.                            *)
LEMMA BeginCacheInv ==
  ASSUME CacheInv, NEW p \in Callers, NEW h \in Hosts, Begin(p, h)
  PROVE  CacheInv'
<1>1. LookupTypeOK'
  BY DEF CacheInv, LookupTypeOK, Begin, Locals
<1>2. CurrentState' /\ RecentCalls' /\ Coalesced'
  <2>1. CurrentState'
    BY SMTT(30) DEF CacheInv, LookupTypeOK, Begin, CurrentState, Leading
  <2>2. RecentCalls'
    BY SMTT(30) DEF CacheInv, LookupTypeOK, Begin, RecentCalls, Leading
  <2>3. Coalesced'
    BY SMTT(30) DEF CacheInv, LookupTypeOK, Begin, Coalesced
  <2> QED
    BY <2>1, <2>2, <2>3
<1>3. OwnVerdicts' /\ CancellationNotCached' /\ FreshAnswer'
  BY DEF CacheInv, LookupTypeOK, Begin, OwnVerdicts, CancellationNotCached, FreshAnswer, Locals
<1> QED
  BY <1>1, <1>2, <1>3 DEF CacheInv

(* Leaving LookupContext with a result of a generation no older than the   *)
(* call, with the cache and the calls as they were.                        *)
LEMMA ReturnCacheInv ==
  ASSUME CacheInv, NEW p \in Callers, NEW gen \in Nat, startGen[p] <= gen,
         pc[p] \in {"fast", "slow", "waiting"}, Return(p, gen),
         UNCHANGED << now, generation, cache, inflight, call >>
  PROVE  CacheInv'
<1>1. LookupTypeOK'
  BY DEF CacheInv, LookupTypeOK, Return, Locals, NoLocals, Verdicts
<1>2. CurrentState' /\ RecentCalls' /\ Coalesced'
  <2>1. CurrentState'
    BY SMTT(30) DEF CacheInv, LookupTypeOK, Return, CurrentState, Leading
  <2>2. RecentCalls'
    BY SMTT(30) DEF CacheInv, LookupTypeOK, Return, RecentCalls, Leading
  <2>3. Coalesced'
    BY SMTT(30) DEF CacheInv, LookupTypeOK, Return, Coalesced
  <2> QED
    BY <2>1, <2>2, <2>3
<1>3. OwnVerdicts' /\ CancellationNotCached' /\ FreshAnswer'
  BY DEF CacheInv, LookupTypeOK, Return, OwnVerdicts, CancellationNotCached, FreshAnswer,
         Locals, NoLocals
<1> QED
  BY <1>1, <1>2, <1>3 DEF CacheInv

(* A miss that joins a lookup in flight. *)
LEMMA JoinCacheInv ==
  ASSUME CacheInv, NEW p \in Callers, Join(p)
  PROVE  CacheInv'
<1>1. LookupTypeOK'
  BY DEF CacheInv, LookupTypeOK, Join, Locals, NoLocals, Verdicts
<1>2. CurrentState' /\ RecentCalls' /\ Coalesced'
  <2>1. CurrentState'
    BY SMTT(30), ZenonT(30) DEF CacheInv, LookupTypeOK, Join, CurrentState, Leading
  <2>2. RecentCalls'
    <3>1. /\ inflight[host[p]] \in Callers /\ pc[inflight[host[p]]] \in Leading
          /\ host[inflight[host[p]]] = host[p] /\ call[inflight[host[p]]].gen = generation
      BY DEF CacheInv, LookupTypeOK, Join, CurrentState
    <3> QED
      BY <3>1, SMTT(30) DEF CacheInv, LookupTypeOK, Join, RecentCalls, Leading
  <2>3. Coalesced'
    BY SMTT(30) DEF CacheInv, LookupTypeOK, Join, Coalesced
  <2> QED
    BY <2>1, <2>2, <2>3
<1>3. OwnVerdicts' /\ CancellationNotCached' /\ FreshAnswer'
  BY DEF CacheInv, LookupTypeOK, Join, OwnVerdicts, CancellationNotCached, FreshAnswer,
         Locals, NoLocals
<1> QED
  BY <1>1, <1>2, <1>3 DEF CacheInv

(* A miss that leads: no other lookup of its host is in flight in this     *)
(* generation, or the caller would have joined it.                         *)
LEMMA LeadCacheInv ==
  ASSUME CacheInv, NEW p \in Callers, Lead(p)
  PROVE  CacheInv'
<1>1. LookupTypeOK'
  BY SMTT(30) DEF CacheInv, LookupTypeOK, Lead, Locals, NoLocals, Verdicts, Calls
<1>2. CurrentState'
  BY DEF CacheInv, LookupTypeOK, Lead, CurrentState, Leading, Calls
<1>3. RecentCalls' /\ Coalesced'
  BY DEF CacheInv, LookupTypeOK, Lead, CurrentState, RecentCalls, Coalesced, Leading, Calls
<1>4. OwnVerdicts' /\ CancellationNotCached' /\ FreshAnswer'
  BY DEF CacheInv, LookupTypeOK, Lead, OwnVerdicts, CancellationNotCached, FreshAnswer,
         Locals, NoLocals
<1> QED
  BY <1>1, <1>2, <1>3, <1>4 DEF CacheInv

(* The resolver's verdict is kept only if it may be cached. *)
LEMMA ResolveCacheInv ==
  ASSUME CacheInv, NEW p \in Callers, NEW verdict \in Verdicts,
         NEW ttl \in ResolverTTLs, TakeVerdict(p, verdict, ttl)
  PROVE  CacheInv'
<1>1. LookupTypeOK'
  BY StoredTTLType DEF CacheInv, LookupTypeOK, TakeVerdict, Locals, NoLocals, Verdicts
<1>2. CurrentState' /\ RecentCalls' /\ Coalesced'
  <2>1. /\ UNCHANGED << generation, cache, inflight, call, host, joined, startGen >>
        /\ \A q \in Callers : /\ pc'[q] \in Leading <=> pc[q] \in Leading
                              /\ pc'[q] = "waiting" <=> pc[q] = "waiting"
                              /\ pc'[q] = "done" <=> pc[q] = "done"
    BY DEF CacheInv, LookupTypeOK, TakeVerdict, Leading
  <2> QED
    BY <2>1, SameStanding DEF CacheInv
<1>3. OwnVerdicts'
  BY DEF CacheInv, LookupTypeOK, TakeVerdict, OwnVerdicts, Cacheable, Locals, NoLocals
<1>4. CancellationNotCached' /\ FreshAnswer'
  BY DEF CacheInv, TakeVerdict, CancellationNotCached, FreshAnswer
<1> QED
  BY <1>1, <1>2, <1>3, <1>4 DEF CacheInv

(* A leader's verdict enters the cache only in the generation of its call, *)
(* and its own call, no other, leaves the calls in flight.                 *)
LEMMA PublishCacheInv ==
  ASSUME CacheInv, NEW p \in Callers, PublishVerdict(p)
  PROVE  CacheInv'
<1>1. CASE Publishable(p)
  <2>1. local[p].readAt \in Nat /\ host[p] \in Hosts
    BY DEF CacheInv, LookupTypeOK, PublishVerdict, Locals
  <2>2. PICK kept \in Room(local[p].readAt) :
          cache' = [h \in kept \cup {host[p]} |->
                      IF h = host[p]
                      THEN [verdict |-> local[p].verdict, gen |-> call[p].gen,
                            expires |-> local[p].expires]
                      ELSE cache[h]]
    BY <1>1 DEF PublishVerdict, Store
  <2>3. /\ kept \subseteq DOMAIN cache
        /\ IsFiniteSet(kept)
        /\ Cardinality(kept) < MaxEntries
    BY <2>1, RoomForOne DEF CacheInv
  <2>4. /\ DOMAIN cache' = kept \cup {host[p]}
        /\ IsFiniteSet(DOMAIN cache')
        /\ Cardinality(DOMAIN cache') <= MaxEntries
    <3>1. DOMAIN cache' = kept \cup {host[p]}
      BY <2>2
    <3>2. /\ IsFiniteSet(kept \cup {host[p]})
          /\ Cardinality(kept \cup {host[p]}) <= Cardinality(kept) + 1
      <4>1. /\ IsFiniteSet(kept \cup {host[p]})
            /\ \/ Cardinality(kept \cup {host[p]}) = Cardinality(kept)
               \/ Cardinality(kept \cup {host[p]}) = Cardinality(kept) + 1
        BY <2>3, FS_AddElement
      <4>2. Cardinality(kept) \in Nat
        BY <2>3, FS_CardinalityType
      <4> QED
        BY <4>1, <4>2
    <3> QED
      BY <2>3, <3>1, <3>2, FS_CardinalityType, DnsCacheAssumption
  <2>5. \A h \in DOMAIN cache' : cache'[h] \in Entries
    BY <2>2, <2>3, <2>4 DEF CacheInv, LookupTypeOK, Entries, Calls, Locals
  <2>6. LookupTypeOK'
    <3>1. DOMAIN cache' \subseteq Hosts
      BY <2>1, <2>3, <2>4 DEF CacheInv, LookupTypeOK
    <3>2. call' \in [Callers -> Calls]
      BY DEF CacheInv, LookupTypeOK, PublishVerdict, Calls
    <3>3. local' \in [Callers -> Locals]
      BY DEF CacheInv, LookupTypeOK, PublishVerdict, Return, Locals, NoLocals, Verdicts
    <3>4. /\ DOMAIN inflight' \subseteq Hosts
          /\ \A h \in DOMAIN inflight' : inflight'[h] \in Callers
      BY DEF CacheInv, LookupTypeOK, PublishVerdict
    <3> QED
      BY <2>4, <2>5, <3>1, <3>2, <3>3, <3>4 DEF CacheInv, LookupTypeOK, PublishVerdict, Return
  <2>7. CurrentState'
    BY <1>1, <2>2, <2>3, <2>4
    DEF CacheInv, LookupTypeOK, PublishVerdict, Publishable, Return, CurrentState, Leading, Calls
  <2>8. CancellationNotCached'
    BY <1>1, <2>2, <2>3, <2>4
    DEF CacheInv, OwnVerdicts, Publishable, CancellationNotCached
  <2>9. RecentCalls' /\ Coalesced' /\ OwnVerdicts' /\ FreshAnswer'
    BY DEF CacheInv, LookupTypeOK, PublishVerdict, Return, RecentCalls, Coalesced, OwnVerdicts,
           FreshAnswer, Leading, Calls, Locals, NoLocals
  <2> QED
    BY <2>6, <2>7, <2>8, <2>9 DEF CacheInv
<1>2. CASE ~Publishable(p)
  <2>1. UNCHANGED cache
    BY <1>2 DEF PublishVerdict
  <2>2. LookupTypeOK'
    <3>1. call' \in [Callers -> Calls]
      BY DEF CacheInv, LookupTypeOK, PublishVerdict, Calls
    <3>2. local' \in [Callers -> Locals]
      BY DEF CacheInv, LookupTypeOK, PublishVerdict, Return, Locals, NoLocals, Verdicts
    <3>3. /\ DOMAIN inflight' \subseteq Hosts
          /\ \A h \in DOMAIN inflight' : inflight'[h] \in Callers
      BY DEF CacheInv, LookupTypeOK, PublishVerdict
    <3> QED
      BY <2>1, <3>1, <3>2, <3>3 DEF CacheInv, LookupTypeOK, PublishVerdict, Return
  <2>3. CurrentState'
    BY <2>1 DEF CacheInv, LookupTypeOK, PublishVerdict, Return, CurrentState, Leading, Calls
  <2>4. RecentCalls' /\ Coalesced' /\ OwnVerdicts' /\ FreshAnswer'
    BY DEF CacheInv, LookupTypeOK, PublishVerdict, Return, RecentCalls, Coalesced, OwnVerdicts,
           FreshAnswer, Leading, Calls, Locals, NoLocals
  <2>5. CancellationNotCached'
    BY <2>1 DEF CacheInv, CancellationNotCached
  <2> QED
    BY <2>2, <2>3, <2>4, <2>5 DEF CacheInv
<1> QED
  BY <1>1, <1>2

(* A network change leaves every lookup under way in an older generation.  *)
LEMMA ClearCacheInv ==
  ASSUME CacheInv, ClearNetworkState
  PROVE  CacheInv'
<1>1. DOMAIN cache' = {} /\ DOMAIN inflight' = {}
  BY DEF ClearNetworkState
<1>2. LookupTypeOK'
  BY <1>1, FS_EmptySet, DnsCacheAssumption, SMTT(30) DEF CacheInv, LookupTypeOK, ClearNetworkState
<1>3. CurrentState'
  <2>1. ASSUME NEW p \in Callers, pc'[p] \in Leading
        PROVE  call'[p].gen # generation'
    <3>1. call[p].gen <= generation /\ generation \in Nat /\ call[p].gen \in Nat
      BY <2>1 DEF CacheInv, LookupTypeOK, RecentCalls, ClearNetworkState, Calls
    <3> QED
      BY <3>1 DEF ClearNetworkState
  <2> QED
    BY <1>1, <2>1 DEF CurrentState
<1>4. RecentCalls' /\ Coalesced'
  BY SMTT(30) DEF CacheInv, LookupTypeOK, RecentCalls, Coalesced, ClearNetworkState, Calls
<1>5. OwnVerdicts' /\ CancellationNotCached' /\ FreshAnswer'
  BY <1>1 DEF CacheInv, OwnVerdicts, CancellationNotCached, FreshAnswer, ClearNetworkState
<1> QED
  BY <1>2, <1>3, <1>4, <1>5 DEF CacheInv

(* Every step of one caller. *)
LEMMA StepCacheInv ==
  ASSUME CacheInv, NEW p \in Callers, Step(p)
  PROVE  CacheInv'
<1>1. CASE FastHit(p)
  <2>1. /\ host[p] \in DOMAIN cache
        /\ cache[host[p]].gen \in Nat
        /\ startGen[p] <= cache[host[p]].gen
    <3>1. host[p] \in DOMAIN cache
      BY <1>1 DEF FastHit, Hit
    <3>2. cache[host[p]].gen = generation /\ generation \in Nat
      BY <3>1 DEF CacheInv, LookupTypeOK, CurrentState
    <3>3. startGen[p] <= generation
      BY DEF CacheInv, RecentCalls
    <3> QED
      BY <3>1, <3>2, <3>3
  <2> QED
    BY <1>1, <2>1, ReturnCacheInv DEF FastHit
<1>2. CASE FastMiss(p)
  <2>1. LookupTypeOK'
    BY <1>2 DEF CacheInv, LookupTypeOK, FastMiss
  <2>2. CurrentState' /\ RecentCalls' /\ Coalesced'
    <3>1. /\ UNCHANGED << generation, cache, inflight, call, host, joined, startGen >>
          /\ \A q \in Callers : /\ pc'[q] \in Leading <=> pc[q] \in Leading
                                /\ pc'[q] = "waiting" <=> pc[q] = "waiting"
                                /\ pc'[q] = "done" <=> pc[q] = "done"
      BY <1>2 DEF CacheInv, LookupTypeOK, FastMiss, Leading
    <3> QED
      BY <3>1, SameStanding DEF CacheInv
  <2>3. OwnVerdicts' /\ CancellationNotCached' /\ FreshAnswer'
    BY <1>2 DEF CacheInv, FastMiss, OwnVerdicts, CancellationNotCached, FreshAnswer
  <2> QED
    BY <2>1, <2>2, <2>3 DEF CacheInv
<1>3. CASE SlowHit(p)
  <2>1. /\ host[p] \in DOMAIN cache
        /\ cache[host[p]].gen \in Nat
        /\ startGen[p] <= cache[host[p]].gen
    <3>1. host[p] \in DOMAIN cache
      BY <1>3 DEF SlowHit, Hit
    <3>2. cache[host[p]].gen = generation /\ generation \in Nat
      BY <3>1 DEF CacheInv, LookupTypeOK, CurrentState
    <3>3. startGen[p] <= generation
      BY DEF CacheInv, RecentCalls
    <3> QED
      BY <3>1, <3>2, <3>3
  <2> QED
    BY <1>3, <2>1, ReturnCacheInv DEF SlowHit
<1>4. CASE Join(p)
  BY <1>4, JoinCacheInv
<1>5. CASE Lead(p)
  BY <1>5, LeadCacheInv
<1>6. CASE ResolveAny(p)
  BY <1>6, ResolveCacheInv DEF ResolveAny
<1>7. CASE PublishVerdict(p)
  BY <1>7, PublishCacheInv
<1>8. CASE Receive(p)
  <2>1. call[joined[p]].gen \in Nat /\ startGen[p] <= call[joined[p]].gen
    BY <1>8 DEF CacheInv, LookupTypeOK, RecentCalls, Receive, Calls
  <2> QED
    BY <1>8, <2>1, ReturnCacheInv DEF Receive
<1>9. CASE GiveUp(p)
  <2>1. generation \in Nat /\ startGen[p] <= generation
    BY DEF CacheInv, LookupTypeOK, RecentCalls
  <2> QED
    BY <1>9, <2>1, ReturnCacheInv DEF GiveUp
<1> QED
  BY <1>1, <1>2, <1>3, <1>4, <1>5, <1>6, <1>7, <1>8, <1>9 DEF Step

(* Every step of the specification preserves the invariant. *)
LEMMA NextCacheInv == CacheInv /\ [LookupNext]_lookupVars => CacheInv'
<1> SUFFICES ASSUME CacheInv, [LookupNext]_lookupVars PROVE CacheInv'
  OBVIOUS
<1>1. ASSUME NEW p \in Callers, \E h \in Hosts : Begin(p, h)
      PROVE  CacheInv'
  BY <1>1, BeginCacheInv
<1>2. ASSUME NEW p \in Callers, Step(p)
      PROVE  CacheInv'
  BY <1>2, StepCacheInv
<1>3. ASSUME NEW p \in Callers, Cancel(p)
      PROVE  CacheInv'
  <2>1. LookupTypeOK'
    BY <1>3 DEF CacheInv, LookupTypeOK, Cancel
  <2>3. CurrentState' /\ RecentCalls' /\ Coalesced'
    <3>1. /\ UNCHANGED << generation, cache, inflight, call, host, joined, startGen >>
          /\ \A q \in Callers : /\ pc'[q] \in Leading <=> pc[q] \in Leading
                                /\ pc'[q] = "waiting" <=> pc[q] = "waiting"
                                /\ pc'[q] = "done" <=> pc[q] = "done"
      BY <1>3 DEF Cancel
    <3> QED
      BY <3>1, SameStanding DEF CacheInv
  <2>2. OwnVerdicts' /\ CancellationNotCached' /\ FreshAnswer'
    BY <1>3 DEF CacheInv, OwnVerdicts, CancellationNotCached, FreshAnswer, Cancel
  <2> QED
    BY <2>1, <2>2, <2>3 DEF CacheInv
<1>4. CASE ClearNetworkState
  BY <1>4, ClearCacheInv
<1>5. CASE Tick
  <2>1. LookupTypeOK'
    BY <1>5 DEF CacheInv, LookupTypeOK, Tick
  <2>3. CurrentState' /\ RecentCalls' /\ Coalesced'
    <3>1. /\ UNCHANGED << generation, cache, inflight, call, host, joined, startGen >>
          /\ \A q \in Callers : /\ pc'[q] \in Leading <=> pc[q] \in Leading
                                /\ pc'[q] = "waiting" <=> pc[q] = "waiting"
                                /\ pc'[q] = "done" <=> pc[q] = "done"
      BY <1>5 DEF Tick
    <3> QED
      BY <3>1, SameStanding DEF CacheInv
  <2>2. OwnVerdicts' /\ CancellationNotCached' /\ FreshAnswer'
    BY <1>5 DEF CacheInv, OwnVerdicts, CancellationNotCached, FreshAnswer, Tick
  <2> QED
    BY <2>1, <2>2, <2>3 DEF CacheInv
<1>6. CASE UNCHANGED lookupVars
  <2>1. LookupTypeOK'
    BY <1>6 DEF CacheInv, LookupTypeOK, lookupVars
  <2>3. CurrentState' /\ RecentCalls' /\ Coalesced'
    <3>1. /\ UNCHANGED << generation, cache, inflight, call, host, joined, startGen >>
          /\ \A q \in Callers : /\ pc'[q] \in Leading <=> pc[q] \in Leading
                                /\ pc'[q] = "waiting" <=> pc[q] = "waiting"
                                /\ pc'[q] = "done" <=> pc[q] = "done"
      BY <1>6 DEF lookupVars
    <3> QED
      BY <3>1, SameStanding DEF CacheInv
  <2>2. OwnVerdicts' /\ CancellationNotCached' /\ FreshAnswer'
    BY <1>6 DEF CacheInv, OwnVerdicts, CancellationNotCached, FreshAnswer, lookupVars
  <2> QED
    BY <2>1, <2>2, <2>3 DEF CacheInv
<1> QED
  BY <1>1, <1>2, <1>3, <1>4, <1>5, <1>6 DEF LookupNext

-----------------------------------------------------------------------------
(* The invariant holds of every behaviour of the cache. *)
THEOREM CacheInvariance == LookupSpec => []CacheInv
  BY InitCacheInv, NextCacheInv, PTL DEF LookupSpec

(* The types hold, and the cache never outgrows maxEntries: evictLocked    *)
(* makes room before every store, whatever the TTLs and the hosts.         *)
THEOREM CacheTypeCorrect == LookupSpec => []LookupTypeOK
<1>1. CacheInv => LookupTypeOK
  BY DEF CacheInv
<1> QED
  BY <1>1, CacheInvariance, PTL

(* LookupContext never answers from a network that was gone before the     *)
(* call began.                                                             *)
THEOREM AnswersAreFresh == LookupSpec => []FreshAnswer
<1>1. CacheInv => FreshAnswer
  BY DEF CacheInv
<1> QED
  BY <1>1, CacheInvariance, PTL

(* Within a generation no host is looked up twice at the same time. *)
THEOREM LookupsCoalesce == LookupSpec => []Coalesced
<1>1. CacheInv => Coalesced
  BY DEF CacheInv
<1> QED
  BY <1>1, CacheInvariance, PTL

(* A cancellation is never cached. *)
THEOREM CancellationsStayPrivate == LookupSpec => []CancellationNotCached
<1>1. CacheInv => CancellationNotCached
  BY DEF CacheInv
<1> QED
  BY <1>1, CacheInvariance, PTL

(* No waiter is stranded: what it waits for is a lookup of its own host    *)
(* that some caller leads, or one that has closed done.                    *)
THEOREM NoWaiterIsStranded == LookupSpec => []WaitersServed
<1>1. CacheInv => WaitersServed
  BY DEF CacheInv, RecentCalls, WaitersServed
<1> QED
  BY <1>1, CacheInvariance, PTL

(* A leader that has something to store always gets to store it: whatever  *)
(* is cached and however its expiries tie, evictLocked makes room.         *)
THEOREM EvictionAlwaysSucceeds == LookupSpec => []EvictionSucceeds
<1>1. LookupTypeOK => EvictionSucceeds
  BY RoomExists DEF EvictionSucceeds
<1> QED
  BY <1>1, CacheTypeCorrect, PTL

-----------------------------------------------------------------------------
(* RouteLifecycle. *)

MaybeId == Ids \cup {None}
Reload == [pc : {"idle", "build", "built", "lock", "lockDoH"}, id : MaybeId]
Lookup == [pc : {"idle", "asking", "using"}, use : MaybeId]
Dial   == [pc : {"none", "asking", "leased"}, lease : MaybeId]

Typed ==
  /\ w \in MaybeId /\ doh \in MaybeId
  /\ openR \subseteq Ids /\ openD \subseteq Ids /\ env \in Envs
  /\ rl \in [Reloaders -> Reload]
  /\ lk \in [Lookups -> Lookup]
  /\ ans \in [Lookups -> MaybeId \cup {Pending}]
  /\ dial \in [Lookups -> Dial]

(* A lookup that uses a route uses the published one; its answer is open   *)
(* until it returns.  A dial that holds a lease has the bootstrap route.   *)
Asked(l) ==
  /\ lk[l].pc = "using" => lk[l].use = w /\ w # None /\ ans[l] = Pending
  /\ lk[l].pc = "asking" => ans[l] = Pending
  /\ lk[l].pc = "idle" => ans[l] # Pending
Leased(l) == dial[l].pc = "leased" => dial[l].lease = doh /\ doh # None

(* Both routes are open until Shutdown closes them, the bootstrap first. *)
Published ==
  /\ sd \notin {"closeRoute", "closed"} /\ HasDoH => doh = w
  /\ sd \in {"closeRoute", "closed"} \/ ~HasDoH => doh = None
  /\ w = None <=> sd = "closed"
  /\ w # None => w \in openR
  /\ doh # None => doh \in openD
  /\ sd = "closeRoute" => w \notin openD
  /\ HasDoH \/ openD = {}

(* The locks: who writes has no readers, and nobody writes behind the      *)
(* fence.                                                                  *)
Locks ==
  /\ sd \notin {"none", "fence"} => routingClosed
  /\ \A r \in Reloaders : Writing(r) => ~routingClosed /\ \A l \in Lookups : ~Reading(l)

(* A reload owns what it has built. *)
Owned(r) ==
  /\ rl[r].pc \in {"idle", "build"} <=> rl[r].id = None
  /\ rl[r].id # None => rl[r].id \in openR /\ rl[r].id # w /\ rl[r].id # doh
  /\ rl[r].pc \in {"lock", "lockDoH"} /\ HasDoH => rl[r].id \in openD

Distinct == \A r, q \in Reloaders : rl[r].id # None /\ r # q => rl[q].id # rl[r].id

Accounted == \A x \in openR \cup openD : x = w \/ x = doh \/ \E r \in Reloaders : rl[r].id = x

IInv ==
  /\ Typed /\ Published /\ Locks /\ Distinct /\ Accounted
  /\ \A l \in Lookups : Asked(l) /\ Leased(l)
  /\ \A r \in Reloaders : Owned(r)

-----------------------------------------------------------------------------
(* Steps that leave the routes and the reloads alone. *)
LEMMA SameRoutes ==
  ASSUME IInv, UNCHANGED << w, doh, openR, openD, rl, sd >>
  PROVE  Published' /\ Distinct' /\ Accounted' /\ \A r \in Reloaders : Owned(r)'
BY DEF IInv, Published, Distinct, Accounted, Owned

(* Steps that leave the lookups and their routes alone. *)
LEMMA SameLookups ==
  ASSUME IInv, UNCHANGED << w, doh, lk, ans, dial >>
  PROVE  \A l \in Lookups : Asked(l)' /\ Leased(l)'
BY DEF IInv, Asked, Leased

(* A lookup that moves, its answer included. *)
LEMMA LookupMoves ==
  ASSUME IInv, NEW l \in Lookups, NEW x \in Lookup, NEW a \in MaybeId \cup {Pending},
         lk' = [lk EXCEPT ![l] = x], ans' = [ans EXCEPT ![l] = a],
         x.pc = "using" => x.use = w /\ w # None /\ a = Pending /\ \A r \in Reloaders : ~Writing(r),
         x.pc = "asking" => a = Pending,
         x.pc = "idle" => a # Pending,
         UNCHANGED << w, doh, openR, openD, rl, sd, routingClosed, dial, env >>
  PROVE  IInv'
<1>1. /\ lk' \in [Lookups -> Lookup] /\ lk'[l] = x /\ \A k \in Lookups : k # l => lk'[k] = lk[k]
      /\ ans' \in [Lookups -> MaybeId \cup {Pending}]
      /\ ans'[l] = a /\ \A k \in Lookups : k # l => ans'[k] = ans[k]
  BY DEF IInv, Typed
<1>2. Typed'
  BY <1>1 DEF IInv, Typed
<1>3. ASSUME NEW k \in Lookups PROVE Asked(k)' /\ Leased(k)'
  <2>1. Asked(k) /\ Leased(k)
    BY DEF IInv
  <2>2. CASE k = l
    BY <1>1, <2>1, <2>2 DEF Asked, Leased
  <2>3. CASE k # l
    BY <1>1, <2>1, <2>3 DEF Asked, Leased
  <2>4. QED
    BY <2>2, <2>3
<1>4. Locks'
  <2>1. ASSUME NEW r \in Reloaders, Writing(r)', NEW k \in Lookups PROVE ~routingClosed' /\ ~Reading(k)'
    <3>1. Writing(r) /\ ~routingClosed /\ ~Reading(k)
      BY <2>1 DEF Writing, IInv, Locks
    <3>2. QED
      BY <1>1, <3>1 DEF Reading
  <2>2. ASSUME NEW r \in Reloaders, Writing(r)' PROVE ~routingClosed'
    BY <2>2 DEF Writing, IInv, Locks
  <2>3. (sd \notin {"none", "fence"} => routingClosed)'
    BY DEF IInv, Locks
  <2>4. QED
    BY <2>1, <2>2, <2>3 DEF Locks
<1>5. QED
  BY <1>2, <1>3, <1>4, SameRoutes DEF IInv

(* A dial that moves. *)
LEMMA DialMoves ==
  ASSUME IInv, NEW l \in Lookups, NEW x \in Dial, dial' = [dial EXCEPT ![l] = x],
         x.pc = "leased" => x.lease = doh /\ doh # None,
         UNCHANGED << w, doh, openR, openD, rl, sd, routingClosed, lk, ans, env >>
  PROVE  IInv'
<1>1. dial' \in [Lookups -> Dial] /\ dial'[l] = x /\ \A k \in Lookups : k # l => dial'[k] = dial[k]
  BY DEF IInv, Typed
<1>2. Typed'
  BY <1>1 DEF IInv, Typed
<1>3. ASSUME NEW k \in Lookups PROVE Asked(k)' /\ Leased(k)'
  <2>1. Asked(k) /\ Leased(k)
    BY DEF IInv
  <2>2. CASE k = l
    BY <1>1, <2>1, <2>2 DEF Asked, Leased
  <2>3. CASE k # l
    BY <1>1, <2>1, <2>3 DEF Asked, Leased
  <2>4. QED
    BY <2>2, <2>3
<1>4. Locks'
  BY DEF IInv, Locks, Writing, Reading
<1>5. QED
  BY <1>2, <1>3, <1>4, SameRoutes DEF IInv

(* findProxyForURL and the dialer of DoH. *)
LEMMA LookupInv ==
  ASSUME IInv, NEW l \in Lookups, Ask(l) \/ LookupStep(l) \/ Resolve(l) \/ DialStep(l)
  PROVE  IInv'
<1> /\ Asked(l) /\ lk \in [Lookups -> Lookup] /\ lk[l] \in Lookup /\ w \in MaybeId
    /\ ans \in [Lookups -> MaybeId \cup {Pending}] /\ ans[l] \in MaybeId \cup {Pending}
    /\ dial \in [Lookups -> Dial] /\ dial[l] \in Dial /\ doh \in MaybeId
  BY DEF IInv, Typed
<1> USE DEF built, outside
<1>0. ASSUME NEW x \in {"asking", "idle"}, lk' = [lk EXCEPT ![l].pc = x]
      PROVE  lk' = [lk EXCEPT ![l] = [pc |-> x, use |-> lk[l].use]] /\ [pc |-> x, use |-> lk[l].use] \in Lookup
  <2>1. [lk[l] EXCEPT !.pc = x] = [pc |-> x, use |-> lk[l].use]
    BY DEF Lookup
  <2>2. lk' = [lk EXCEPT ![l] = [lk[l] EXCEPT !.pc = x]]
    BY <1>0
  <2>3. lk[l].use \in MaybeId
    BY DEF Lookup
  <2>4. [pc |-> x, use |-> lk[l].use] \in Lookup
    BY <2>3 DEF Lookup
  <2>5. QED
    BY <2>1, <2>2, <2>4
<1>a. None \in MaybeId /\ None # Pending
  BY RouteAssumption DEF MaybeId
<1>1. CASE Ask(l)
  BY <1>0, <1>1, LookupMoves DEF Ask
<1>2. CASE Closed(l)
  BY <1>0, <1>a, <1>2, LookupMoves DEF Closed
<1>3. CASE Use(l)
  <2>1. ans' = [ans EXCEPT ![l] = Pending]
    BY <1>3 DEF Use, Asked
  <2>2. [pc |-> "using", use |-> w] \in Lookup
    BY DEF Lookup
  <2>3. \A r \in Reloaders : ~Writing(r)
    BY <1>3 DEF Use, WReadable
  <2>4. QED
    BY <1>3, <2>1, <2>2, <2>3, LookupMoves DEF Use
<1>4. CASE Answer(l)
  <2>1. [pc |-> "idle", use |-> None] \in Lookup
    BY <1>a DEF Lookup
  <2>2. lk[l].use \in MaybeId /\ lk[l].use # Pending
    BY <1>a, RouteAssumption DEF Lookup, MaybeId, Ids, Envs
  <2>3. QED
    BY <1>4, <2>1, <2>2, LookupMoves DEF Answer
<1>5. CASE Resolve(l)
  <2>1. /\ dial' = [dial EXCEPT ![l] = [pc |-> "asking", lease |-> dial[l].lease]]
        /\ [pc |-> "asking", lease |-> dial[l].lease] \in Dial
    <3>1. [dial[l] EXCEPT !.pc = "asking"] = [pc |-> "asking", lease |-> dial[l].lease]
      BY DEF Dial
    <3>2. dial' = [dial EXCEPT ![l] = [dial[l] EXCEPT !.pc = "asking"]]
      BY <1>5 DEF Resolve
    <3>3. dial[l].lease \in MaybeId
      BY DEF Dial
    <3>4. [pc |-> "asking", lease |-> dial[l].lease] \in Dial
      BY <3>3 DEF Dial
    <3>5. QED
      BY <3>1, <3>2, <3>4
  <2>2. QED
    BY <1>5, <2>1, DialMoves DEF Resolve
<1>6. CASE Lease(l)
  <2>1. [pc |-> "none", lease |-> None] \in Dial /\ [pc |-> "leased", lease |-> doh] \in Dial
    BY <1>a DEF Dial
  <2>2. CASE doh = None
    BY <1>6, <2>1, <2>2, DialMoves DEF Lease
  <2>3. CASE doh # None
    BY <1>6, <2>1, <2>3, DialMoves DEF Lease
  <2>4. QED
    BY <2>2, <2>3
<1>7. CASE Release(l)
  <2>1. [pc |-> "none", lease |-> None] \in Dial
    BY <1>a DEF Dial
  <2>2. QED
    BY <1>7, <2>1, DialMoves DEF Release
<1>8. QED
  BY <1>1, <1>2, <1>3, <1>4, <1>5, <1>6, <1>7 DEF LookupStep, DialStep

-----------------------------------------------------------------------------
Places == {"idle", "build", "built", "lock", "lockDoH"}

(* One reload's record changes. *)
LEMMA GoReload ==
  ASSUME IInv, NEW r \in Reloaders, NEW to \in Places, NEW i \in MaybeId, Go(r, to, i)
  PROVE  /\ rl' \in [Reloaders -> Reload]
         /\ rl'[r].pc = to /\ rl'[r].id = i
         /\ \A q \in Reloaders : q # r => rl'[q] = rl[q]
<1>1. [pc |-> to, id |-> i] \in Reload /\ rl \in [Reloaders -> Reload]
  BY DEF Reload, Places, IInv, Typed
<1>2. QED
  BY <1>1 DEF Go

(* A reload that moves without publishing: it may open or close what is    *)
(* its own, and nothing else.                                              *)
LEMMA ReloadMoves ==
  ASSUME IInv, NEW r \in Reloaders, NEW to \in Places, NEW i \in MaybeId, Go(r, to, i),
         UNCHANGED << w, doh, lk, ans, dial, sd, routingClosed, env >>,
         openR' \subseteq Ids, openD' \subseteq Ids,
         \A x \in openR : x # rl[r].id => x \in openR',
         \A x \in openD : x # rl[r].id => x \in openD',
         \A x \in openD' : x \in openD \/ (HasDoH /\ x = i /\ i # w),
         \A x \in openR' \cup openD' : x = i \/ (x \in openR \cup openD /\ x # rl[r].id),
         to \in {"idle", "build"} <=> i = None,
         i # None => i \in openR' /\ i # w /\ i # doh /\ \A q \in Reloaders : q # r => rl[q].id # i,
         to \in {"lock", "lockDoH"} /\ HasDoH => i \in openD',
         to = "lockDoH" => ~routingClosed /\ \A l \in Lookups : ~Reading(l)
  PROVE  IInv'
<1>1. /\ rl' \in [Reloaders -> Reload]
      /\ rl'[r].pc = to /\ rl'[r].id = i
      /\ \A q \in Reloaders : q # r => rl'[q] = rl[q]
  BY GoReload
<1>2. Typed'
  BY <1>1 DEF IInv, Typed
<1>3. Owned(r) /\ Published /\ Distinct /\ Accounted /\ Locks
  BY DEF IInv
<1>4. (w # None => w # rl[r].id) /\ (doh # None => doh # rl[r].id)
  BY <1>3 DEF Owned
<1>5. Published'
  BY <1>3, <1>4 DEF Published
<1>6. Locks'
  <2>1. ASSUME NEW q \in Reloaders, Writing(q)' PROVE ~routingClosed' /\ \A l \in Lookups : ~Reading(l)'
    <3>1. CASE q = r
      BY <1>1, <2>1, <3>1 DEF Writing, Reading
    <3>2. CASE q # r
      BY <1>1, <1>3, <2>1, <3>2 DEF Writing, Reading, Locks
    <3>3. QED
      BY <3>1, <3>2
  <2>2. QED
    BY <1>3, <2>1 DEF Locks
<1>7. Distinct'
  <2>1. ASSUME NEW p \in Reloaders, NEW q \in Reloaders, rl'[p].id # None, p # q
        PROVE  rl'[q].id # rl'[p].id
    <3>1. CASE p = r
      BY <1>1, <2>1, <3>1
    <3>2. CASE q = r
      BY <1>1, <2>1, <3>2
    <3>3. CASE p # r /\ q # r
      BY <1>1, <1>3, <2>1, <3>3 DEF Distinct
    <3>4. QED
      BY <3>1, <3>2, <3>3
  <2>2. QED
    BY <2>1 DEF Distinct
<1>8. ASSUME NEW q \in Reloaders PROVE Owned(q)'
  <2>1. CASE q = r
    BY <1>1, <2>1 DEF Owned
  <2>2. CASE q # r
    <3>1. Owned(q) /\ rl'[q] = rl[q] /\ (rl[q].id # None => rl[q].id # rl[r].id)
      BY <1>1, <1>3, <2>2 DEF IInv, Distinct
    <3>2. rl[q].pc \in {"lock", "lockDoH"} => rl[q].id # None
      BY <3>1 DEF Owned
    <3>3. QED
      BY <3>1, <3>2 DEF Owned
  <2>3. QED
    BY <2>1, <2>2
<1>9. Accounted'
  <2>1. ASSUME NEW x \in openR' \cup openD'
        PROVE  x = w' \/ x = doh' \/ \E q \in Reloaders : rl'[q].id = x
    <3>1. CASE x = i
      BY <1>1, <3>1
    <3>2. CASE x \in openR \cup openD /\ x # rl[r].id
      BY <1>1, <1>3, <3>2, SMTT(30), ZenonT(30) DEF Accounted
    <3>3. QED
      BY <3>1, <3>2
  <2>2. QED
    BY <2>1 DEF Accounted
<1>10. QED
  BY <1>2, <1>5, <1>6, <1>7, <1>8, <1>9, SameLookups DEF IInv

(* ... closing both resolvers of what it has built. *)
LEMMA DropInv ==
  ASSUME IInv, NEW r \in Reloaders, Drop(r), UNCHANGED << w, doh, lk, ans, dial, sd, routingClosed, env >>
  PROVE  IInv'
<1>1. Go(r, "idle", None) /\ openR' = openR \ {rl[r].id} /\ openD' = openD \ {rl[r].id}
  BY DEF Drop
<1>2. "idle" \in Places /\ None \in MaybeId /\ openR \subseteq Ids /\ openD \subseteq Ids
  BY DEF Places, MaybeId, IInv, Typed
<1>3. openR' \subseteq Ids /\ openD' \subseteq Ids
  BY <1>1, <1>2
<1>4. QED
  BY <1>1, <1>2, <1>3, ReloadMoves

(* ... or only going from step to step. *)
LEMMA ReloadGoesOn ==
  ASSUME IInv, NEW r \in Reloaders, NEW to \in Places, Go(r, to, rl[r].id),
         UNCHANGED << w, doh, openR, lk, ans, dial, sd, routingClosed, env >>,
         openD' = openD \/ (HasDoH /\ openD' = openD \cup {rl[r].id}), rl[r].id # None,
         to \notin {"idle", "build"},
         to \in {"lock", "lockDoH"} /\ HasDoH => rl[r].id \in openD',
         to = "lockDoH" => ~routingClosed /\ \A l \in Lookups : ~Reading(l)
  PROVE  IInv'
<1>1. Owned(r) /\ Distinct /\ rl[r].id \in MaybeId /\ openR \subseteq Ids /\ openD \subseteq Ids
  BY DEF IInv, Typed, Reload
<1>2. rl[r].id \in openR /\ rl[r].id # w /\ rl[r].id # doh
  BY <1>1 DEF Owned
<1>3. \A q \in Reloaders : q # r => rl[q].id # rl[r].id
  BY <1>1 DEF Distinct
<1>4. openR' \subseteq Ids /\ openD' \subseteq Ids
  BY <1>1, <1>2
<1>5. QED
  BY <1>1, <1>2, <1>3, <1>4, ReloadMoves

(* The swap: both routes are replaced at once, by a route nobody else has. *)
LEMMA PublishInv ==
  ASSUME IInv, NEW r \in Reloaders, Publish(r)
  PROVE  IInv'
<1> DEFINE i == rl[r].id
<1>1. /\ Typed /\ Published /\ Locks /\ Distinct /\ Accounted /\ Owned(r)
      /\ openR \subseteq Ids /\ openD \subseteq Ids /\ i \in MaybeId
  BY DEF IInv, Typed, Reload
<1>2. /\ rl[r].pc = "lockDoH" /\ w' = i /\ doh' = (IF HasDoH THEN i ELSE None)
      /\ openR' = openR \ {w} /\ openD' = openD \ {doh} /\ Go(r, "idle", None)
      /\ UNCHANGED << routingClosed, lk, ans, dial, sd, env >>
  BY DEF Publish, At, lookups, outside
<1>3. /\ i # None /\ i \in openR /\ i # w /\ i # doh
      /\ HasDoH => i \in openD
  BY <1>1, <1>2 DEF Owned
<1>4. ~routingClosed /\ sd \in {"none", "fence"} /\ \A l \in Lookups : ~Reading(l)
  BY <1>1, <1>2 DEF Locks, Writing
<1>5. \A l \in Lookups : ~Leasing(l)
  BY DEF Publish, DWritable
<1>6. "idle" \in Places /\ None \in MaybeId
  BY DEF Places, MaybeId
<1>7. /\ rl' \in [Reloaders -> Reload] /\ rl'[r].pc = "idle" /\ rl'[r].id = None
      /\ \A q \in Reloaders : q # r => rl'[q] = rl[q]
  BY <1>2, <1>6, GoReload
<1>8. Typed'
  <2>1. w' \in MaybeId /\ doh' \in MaybeId /\ openR' \subseteq Ids /\ openD' \subseteq Ids
    BY <1>1, <1>2, <1>6
  <2>2. QED
    BY <1>1, <1>2, <1>7, <2>1 DEF Typed
<1> HIDE DEF i
<1>9. Published'
  BY <1>1, <1>2, <1>3, <1>4 DEF Published
<1>10. Locks'
  <2>1. ASSUME NEW q \in Reloaders, Writing(q)' PROVE Writing(q)
    BY <1>7, <2>1 DEF Writing
  <2>2. QED
    BY <1>1, <1>2, <2>1 DEF Locks, Reading
<1>11. Distinct'
  BY <1>1, <1>7 DEF Distinct
<1>12. ASSUME NEW q \in Reloaders PROVE Owned(q)'
  <2>1. CASE q = r
    BY <1>7, <2>1 DEF Owned
  <2>2. CASE q # r
    <3>1. Owned(q) /\ rl'[q] = rl[q] /\ (rl[q].id # None => rl[q].id # i)
      BY <1>1, <1>3, <1>7, <2>2 DEF IInv, Distinct, i
    <3>2. rl[q].pc \in {"lock", "lockDoH"} => rl[q].id # None
      BY <3>1 DEF Owned
    <3>3. QED
      BY <1>2, <3>1, <3>2 DEF Owned
  <2>3. QED
    BY <2>1, <2>2
<1>13. Accounted'
  <2>1. ASSUME NEW x \in openR' \cup openD'
        PROVE  x = w' \/ x = doh' \/ \E q \in Reloaders : rl'[q].id = x
    <3>1. x \in openR \cup openD
      BY <1>2, <2>1
    <3>2. doh = w \/ doh = None
      BY <1>1, <1>4 DEF Published
    <3>3. x # None
      BY <1>1, <1>2, <2>1, RouteAssumption DEF Ids, Envs
    <3>4. x # w /\ x # doh
      BY <1>1, <1>2, <1>4, <2>1, <3>2, <3>3 DEF Published
    <3>5. PICK q \in Reloaders : rl[q].id = x
      BY <1>1, <3>1, <3>4 DEF Accounted
    <3>6. CASE q = r
      BY <1>2, <3>5, <3>6 DEF i
    <3>7. CASE q # r
      BY <1>7, <3>5, <3>7
    <3>8. QED
      BY <3>6, <3>7
  <2>2. QED
    BY <2>1 DEF Accounted
<1>14. ASSUME NEW l \in Lookups PROVE Asked(l)' /\ Leased(l)'
  BY <1>2, <1>4, <1>5 DEF IInv, Asked, Leased, Reading, Leasing
<1>15. QED
  BY <1>8, <1>9, <1>10, <1>11, <1>12, <1>13, <1>14 DEF IInv

(* reloadProxy. *)
LEMMA ReloadInv ==
  ASSUME IInv, NEW r \in Reloaders, ReloadStep(r) \/ BuildFails(r) \/ BootstrapFails(r)
  PROVE  IInv'
<1> /\ Owned(r) /\ Published /\ openR \subseteq Ids /\ openD \subseteq Ids /\ rl[r].id \in MaybeId
    /\ env \in Envs
  BY DEF IInv, Typed, Reload
<1> USE DEF built, lookups, outside, At
<1>0. None \notin Ids /\ None \in MaybeId /\ Places = {"idle", "build", "built", "lock", "lockDoH"}
  BY RouteAssumption DEF Ids, Envs, MaybeId, Places
<1>a. ASSUME NEW to \in {"idle", "build"}, Go(r, to, None), rl[r].id = None,
             UNCHANGED << w, doh, openR, openD, lk, ans, dial, sd, routingClosed, env >>
      PROVE  IInv'
  BY <1>0, <1>a, ReloadMoves
<1>1. CASE Check(r)
  BY <1>a, <1>1 DEF Check, Owned
<1>2. CASE Build(r)
  <2>1. PICK n \in Slots : /\ Free(n) /\ openR' = openR \cup {<< n, env >>}
                           /\ Go(r, "built", << n, env >>)
    BY <1>2 DEF Build
  <2> DEFINE i == << n, env >>
  <2>2. i \in Ids /\ i[1] = n
    BY <2>1 DEF Ids
  <2>3. i \notin openR /\ i \notin openD
    BY <2>1, <2>2 DEF Free
  <2> HIDE DEF i
  <2>4. openR' = openR \cup {i} /\ Go(r, "built", i)
    BY <2>1 DEF i
  <2>5. UNCHANGED << w, doh, openD, lk, ans, dial, sd, routingClosed, env >>
    BY <1>2 DEF Build
  <2>6. rl[r].id = None
    BY <1>2 DEF Build, Owned
  <2>7. i \in MaybeId /\ i # None /\ openR' \subseteq Ids
    BY <1>0, <2>2, <2>4 DEF MaybeId
  <2>8. i # w /\ i # doh
    BY <2>3, <2>7 DEF Published
  <2>9. ASSUME NEW q \in Reloaders PROVE rl[q].id # i
    BY <2>3, <2>7 DEF IInv, Owned
  <2>10. "built" \in Places
    BY <1>0
  <2>11. /\ \A x \in openR' \cup openD' : x = i \/ (x \in openR \cup openD /\ x # rl[r].id)
         /\ \A x \in openD' : x \in openD
    BY <1>0, <2>4, <2>5, <2>6
  <2>12. QED
    BY <2>4, <2>5, <2>7, <2>8, <2>9, <2>10, <2>11, ReloadMoves
<1>3. CASE BuildFails(r)
  BY <1>a, <1>3 DEF BuildFails, Owned
<1>4. CASE BuildBootstrap(r)
  <2>1. CASE Cancelled(r)
    BY <1>4, <2>1, DropInv DEF BuildBootstrap
  <2>2. CASE ~Cancelled(r)
    <3>1. rl[r].id # None /\ "lock" \in Places
      BY <1>0, <1>4 DEF BuildBootstrap, Owned
    <3>2. /\ Go(r, "lock", rl[r].id) /\ openD' = (IF HasDoH THEN openD \cup {rl[r].id} ELSE openD)
          /\ UNCHANGED << w, doh, openR, lk, ans, dial, sd, routingClosed, env >>
      BY <1>4, <2>2 DEF BuildBootstrap
    <3>3. QED
      BY <3>1, <3>2, ReloadGoesOn
  <2>3. QED
    BY <2>1, <2>2
<1>5. CASE BootstrapFails(r)
  BY <1>5, DropInv DEF BootstrapFails
<1>6. CASE Fenced(r)
  BY <1>6, DropInv DEF Fenced
<1>7. CASE LockRoute(r)
  <2>1. rl[r].id # None /\ (HasDoH => rl[r].id \in openD) /\ "lockDoH" \in Places
    BY <1>0, <1>7 DEF LockRoute, Owned
  <2>2. ~routingClosed /\ \A l \in Lookups : ~Reading(l)
    BY <1>7 DEF LockRoute, WWritable
  <2>3. Go(r, "lockDoH", rl[r].id) /\ UNCHANGED << w, doh, openR, openD, lk, ans, dial, sd, routingClosed, env >>
    BY <1>7 DEF LockRoute
  <2>4. QED
    BY <2>1, <2>2, <2>3, ReloadGoesOn
<1>8. CASE Publish(r)
  BY <1>8, PublishInv
<1>9. QED
  BY <1>1, <1>2, <1>3, <1>4, <1>5, <1>6, <1>7, <1>8 DEF ReloadStep

-----------------------------------------------------------------------------
(* Shutdown. *)
LEMMA ShutdownInv ==
  ASSUME IInv, Shutdown \/ ShutdownStep \/ DrainTimesOut
  PROVE  IInv'
<1> Typed /\ Published /\ Locks /\ Distinct /\ Accounted
  BY DEF IInv
<1> USE DEF built, lookups, outside
<1>0. ASSUME sd \notin {"closeRoute", "closed"}, sd' \notin {"closeRoute", "closed"},
             sd' \notin {"none", "fence"} => routingClosed',
             routingClosed' = routingClosed \/ (\A r \in Reloaders : ~Writing(r)),
             UNCHANGED << w, doh, openR, openD, rl, lk, ans, dial, env >>
      PROVE  IInv'
  <2>1. Typed' /\ Published' /\ Distinct' /\ Accounted'
    BY <1>0 DEF Typed, Published, Distinct, Accounted
  <2>2. \A r \in Reloaders : Owned(r)'
    BY <1>0 DEF IInv, Owned
  <2>3. Locks'
    BY <1>0 DEF Locks, Writing, Reading
  <2>4. QED
    BY <1>0, <2>1, <2>2, <2>3, SameLookups DEF IInv
<1>1. CASE Shutdown \/ CloseListeners \/ Drained \/ DrainTimesOut \/ CancelActions \/ SupClosed
  BY <1>0, <1>1 DEF Shutdown, CloseListeners, Drained, DrainTimesOut, CancelActions, SupClosed, Locks
<1>2. CASE Fence
  BY <1>0, <1>2 DEF Fence, WWritable
<1>3. CASE CloseDoH
  <2>1. /\ sd = "closeDoH" /\ sd' = "closeRoute" /\ doh' = None /\ openD' = openD \ {doh}
        /\ (\A l \in Lookups : ~Leasing(l))
        /\ UNCHANGED << w, openR, routingClosed, rl, lk, ans, dial, env >>
    BY <1>3 DEF CloseDoH, DWritable
  <2>2. w # None /\ (HasDoH => doh = w) /\ (~HasDoH => doh = None /\ openD = {})
    BY <2>1 DEF Published
  <2>3. Typed' /\ Published' /\ Distinct'
    BY <2>1, <2>2 DEF Typed, MaybeId, Published, Distinct
  <2>4. Locks'
    BY <2>1 DEF Locks, Writing, Reading
  <2>5. \A r \in Reloaders : Owned(r)'
    BY <2>1 DEF IInv, Owned
  <2>6. Accounted'
    BY <2>1, <2>2, RouteAssumption DEF Accounted, Typed, Ids, Envs
  <2>7. \A l \in Lookups : Asked(l)' /\ Leased(l)'
    BY <2>1 DEF IInv, Asked, Leased, Leasing
  <2>8. QED
    BY <2>3, <2>4, <2>5, <2>6, <2>7 DEF IInv
<1>4. CASE CloseRoute
  <2>1. /\ sd = "closeRoute" /\ sd' = "closed" /\ w' = None /\ openR' = openR \ {w}
        /\ (\A l \in Lookups : ~Reading(l))
        /\ UNCHANGED << doh, openD, routingClosed, rl, lk, ans, dial, env >>
    BY <1>4 DEF CloseRoute, WWritable
  <2>2. w # None /\ doh = None /\ w \notin openD
    BY <2>1 DEF Published
  <2>3. Typed' /\ Published' /\ Distinct'
    BY <2>1, <2>2 DEF Typed, MaybeId, Published, Distinct
  <2>4. Locks'
    BY <2>1 DEF Locks, Writing, Reading
  <2>5. \A r \in Reloaders : Owned(r)'
    BY <2>1, <2>2 DEF IInv, Owned
  <2>6. Accounted'
    BY <2>1, <2>2, RouteAssumption DEF Accounted, Typed, Ids, Envs
  <2>7. \A l \in Lookups : Asked(l)' /\ Leased(l)'
    BY <2>1 DEF IInv, Asked, Leased, Reading
  <2>8. QED
    BY <2>3, <2>4, <2>5, <2>6, <2>7 DEF IInv
<1>5. QED
  BY <1>1, <1>2, <1>3, <1>4 DEF ShutdownStep

-----------------------------------------------------------------------------
(* New: both routes are open and nobody uses them yet. *)
LEMMA InitInv == Init => IInv
<1> SUFFICES ASSUME Init PROVE IInv
  OBVIOUS
<1>1. /\ w \in Ids /\ w # None /\ None \notin Ids /\ None \in MaybeId /\ None # Pending /\ env \in Envs
      /\ doh = (IF HasDoH THEN w ELSE None) /\ openR = {w} /\ openD = (IF HasDoH THEN {w} ELSE {})
      /\ sd = "none"
  BY RouteAssumption, SMTT(30) DEF Init, Ids, Envs, MaybeId
<1>2. /\ [pc |-> "idle", id |-> None] \in Reload /\ [pc |-> "idle", use |-> None] \in Lookup
      /\ [pc |-> "none", lease |-> None] \in Dial
  BY <1>1 DEF Reload, Lookup, Dial
<1>3. \A r \in Reloaders : rl[r].pc = "idle" /\ rl[r].id = None
  BY DEF Init
<1>4. \A l \in Lookups : lk[l].pc = "idle" /\ ans[l] = None /\ dial[l].pc = "none"
  BY DEF Init
<1>5. Typed
  BY <1>1, <1>2 DEF Init, Typed, MaybeId
<1>6. Published
  BY <1>1 DEF Published
<1>7. Accounted /\ Distinct /\ Locks
  BY <1>1, <1>3 DEF Accounted, Distinct, Locks, Writing
<1>8. \A r \in Reloaders : Owned(r)
  BY <1>3 DEF Owned
<1>9. \A l \in Lookups : Asked(l) /\ Leased(l)
  BY <1>1, <1>4 DEF Asked, Leased
<1>10. QED
  BY <1>5, <1>6, <1>7, <1>8, <1>9 DEF IInv

(* Steps outside: time, the listeners, the environment. *)
LEMMA OutsideInv ==
  ASSUME IInv, env' \in Envs, UNCHANGED << w, doh, openR, openD, routingClosed, rl, lk, ans, dial, sd >>
  PROVE  IInv'
<1>1. Typed'
  BY DEF IInv, Typed
<1>2. Locks'
  BY DEF IInv, Locks, Writing, Reading
<1>3. QED
  BY <1>1, <1>2, SameRoutes, SameLookups DEF IInv

(* Every step of the server preserves the invariant. *)
LEMMA NextInv == IInv /\ [Next]_vars => IInv'
<1> SUFFICES ASSUME IInv, [Next]_vars PROVE IInv'
  OBVIOUS
<1>1. CASE \E l \in Lookups : Ask(l) \/ LookupStep(l) \/ Resolve(l) \/ DialStep(l)
  BY <1>1, LookupInv
<1>2. CASE \E r \in Reloaders : ReloadStep(r) \/ BuildFails(r) \/ BootstrapFails(r)
  BY <1>2, ReloadInv
<1>3. CASE Shutdown \/ ShutdownStep \/ DrainTimesOut
  BY <1>3, ShutdownInv
<1>4. env \in Envs
  BY DEF IInv, Typed
<1>5. CASE Elapse \/ ListenFails \/ Serve \/ UNCHANGED vars
  BY <1>4, <1>5, OutsideInv DEF Elapse, ListenFails, Serve, vars, built, lookups, outside
<1>6. CASE ChangeEnv
  <2>1. env' \in Envs
    BY <1>4, <1>6, RouteAssumption DEF ChangeEnv, Envs
  <2>2. QED
    BY <1>6, <2>1, OutsideInv DEF ChangeEnv, built, lookups
<1>7. QED
  BY <1>1, <1>2, <1>3, <1>5, <1>6 DEF Next

(* A DoH dial holds a lease on the current bootstrap route, whose resolver *)
(* is open, and until Shutdown closes it that route comes from the same    *)
(* reload as the ordinary one (dohBootstrapRoute, reloadProxy).            *)
THEOREM LeasesAreSound == Spec => []BootstrapLease
<1>1. IInv => BootstrapLease
  BY DEF IInv, BootstrapLease, Published, Leased, Leasing
<1>2. QED
  BY InitInv, NextInv, <1>1, PTL DEF Spec

(* Every open resolver is published or in the hands of the one reload that *)
(* built it, on every path of reloadProxy and Shutdown.                    *)
THEOREM ResolversAreOwned == Spec => []NothingLeaks
<1>1. IInv => NothingLeaks
  <2> SUFFICES ASSUME IInv PROVE NothingLeaks
    OBVIOUS
  <2>1. openR \cup openD \subseteq {w, doh} \cup {rl[r].id : r \in Reloaders}
    BY DEF IInv, Accounted
  <2>2. ASSUME NEW r \in Reloaders, rl[r].id # None
        PROVE  rl[r].id \notin {w, doh} /\ \A q \in Reloaders \ {r} : rl[q].id # rl[r].id
    BY <2>2 DEF IInv, Owned, Distinct
  <2>3. QED
    BY <2>1, <2>2 DEF NothingLeaks
<1>2. QED
  BY InitInv, NextInv, <1>1, PTL DEF Spec

(* What every step is to module Routing. *)
LEMMA StepIsRouting ==
  ASSUME IInv, IInv', [Next]_vars
  PROVE  R!RNext \/ UNCHANGED << w, ans >>
<1> USE DEF built, lookups, outside
<1>1. ASSUME NEW l \in Lookups, Ask(l) PROVE R!RNext
  BY <1>1 DEF IInv, Ask, Asked, R!RNext, R!Ask
<1>2. ASSUME NEW l \in Lookups, Closed(l) PROVE R!RNext
  BY <1>2 DEF IInv, Closed, Asked, R!RNext, R!Answer
<1>3. ASSUME NEW l \in Lookups, Answer(l) PROVE R!RNext
  BY <1>3 DEF IInv, Answer, Asked, R!RNext, R!Answer
<1>4. ASSUME NEW l \in Lookups, Use(l) \/ Resolve(l) \/ DialStep(l) PROVE UNCHANGED << w, ans >>
  BY <1>4 DEF Use, Resolve, DialStep, Lease, Release
<1>5. ASSUME NEW r \in Reloaders, Publish(r) PROVE R!RNext
  <2>1. w' = rl[r].id /\ ans' = ans /\ rl[r].pc = "lockDoH"
    BY <1>5 DEF Publish, At
  <2>2. rl[r].id # None /\ rl[r].id # w /\ rl[r].id \in MaybeId /\ ~routingClosed
    BY <2>1 DEF IInv, Owned, Typed, Reload, Locks, Writing
  <2>3. w # None
    BY <2>2 DEF IInv, Locks, Published
  <2>4. QED
    BY <2>1, <2>2, <2>3 DEF R!RNext, R!Replace, MaybeId
<1>6. ASSUME NEW r \in Reloaders,
             \/ Check(r) \/ Build(r) \/ BuildBootstrap(r) \/ Fenced(r) \/ LockRoute(r)
             \/ BuildFails(r) \/ BootstrapFails(r)
      PROVE  UNCHANGED << w, ans >>
  BY <1>6 DEF Check, Build, BuildBootstrap, Fenced, LockRoute, BuildFails, BootstrapFails
<1>7. CASE CloseRoute
  BY <1>7 DEF CloseRoute, R!RNext, R!CloseRouting
<1>8. CASE \/ Shutdown \/ Fence \/ CloseListeners \/ Drained \/ DrainTimesOut
           \/ CancelActions \/ SupClosed \/ CloseDoH
           \/ Elapse \/ ListenFails \/ Serve \/ ChangeEnv \/ UNCHANGED vars
  BY <1>8 DEF Shutdown, Fence, CloseListeners, Drained, DrainTimesOut, CancelActions, SupClosed,
              CloseDoH, Elapse, ListenFails, Serve, ChangeEnv, vars
<1>9. QED
  BY <1>1, <1>2, <1>3, <1>4, <1>5, <1>6, <1>7, <1>8 DEF Next, LookupStep, ReloadStep, ShutdownStep

(* The server implements module Routing: every lookup is answered by the   *)
(* route published at one moment of the call, and nothing is published     *)
(* after routing was closed (wmu, the routingClosed fence).                *)
THEOREM ServerRoutes == Spec => ImplementsRouting
<1>1. Init => R!RInit
  BY DEF Init, R!RInit
<1>2. IInv /\ IInv' /\ [Next]_vars => [R!RNext]_(R!routing)
  BY StepIsRouting DEF R!routing
<1>3. QED
  BY <1>1, <1>2, InitInv, NextInv, PTL DEF Spec, ImplementsRouting, R!RoutingSpec

(* Once Shutdown has closed the routes none is published, nobody is about  *)
(* to publish one, and every resolver that is still open is in the hands   *)
(* of a reload that has not ended.                                         *)
NothingComesBack ==
  sd = "closed" =>
    /\ w = None /\ doh = None
    /\ \A r \in Reloaders : ~Writing(r)
    /\ openR \cup openD \subseteq {rl[r].id : r \in {q \in Reloaders : ~At(q, "idle")}}

(* A reload that overlaps Shutdown, even one that builds its route behind  *)
(* the fence, never brings a route back, and when it has ended nothing is  *)
(* open (Shutdown, reloadProxy).                                           *)
THEOREM ShutdownIsFinal == Spec => []NothingComesBack /\ [][sd = "closed" => sd' = "closed"]_vars
<1>1. IInv => NothingComesBack
  <2> SUFFICES ASSUME IInv, sd = "closed" PROVE NothingComesBack
    BY DEF NothingComesBack
  <2>1. w = None /\ doh = None
    BY DEF IInv, Published
  <2>2. \A r \in Reloaders : ~Writing(r)
    BY DEF IInv, Locks
  <2>3. None \notin openR \cup openD
    <3>1. None \notin Ids
      BY RouteAssumption, Zenon DEF Ids, Envs
    <3>2. QED
      BY <3>1 DEF IInv, Typed
  <2>4. \A x \in openR \cup openD : \E r \in Reloaders : rl[r].id = x /\ ~At(r, "idle")
    <3>1. \A r \in Reloaders : rl[r].pc = "idle" => rl[r].id = None
      BY DEF IInv, Owned
    <3>2. \A x \in openR \cup openD : x # None /\ \E r \in Reloaders : rl[r].id = x
      BY <2>1, <2>3, Zenon DEF IInv, Accounted
    <3>3. QED
      BY <3>1, <3>2, Zenon DEF At
  <2>5. QED
    BY <2>1, <2>2, <2>4 DEF NothingComesBack
<1>2. [Next]_vars => [sd = "closed" => sd' = "closed"]_vars
  <2> SUFFICES ASSUME Next, sd = "closed" PROVE sd' = sd
    OBVIOUS
  <2>1. CASE \E l \in Lookups : Ask(l) \/ LookupStep(l) \/ Resolve(l) \/ DialStep(l)
    BY <2>1 DEF Ask, LookupStep, Closed, Use, Answer, Resolve, DialStep, Lease, Release
  <2>2. CASE \E r \in Reloaders : ReloadStep(r) \/ BuildFails(r) \/ BootstrapFails(r)
    BY <2>2 DEF ReloadStep, Check, Build, BuildBootstrap, Fenced, LockRoute, Publish, BuildFails, BootstrapFails
  <2>3. CASE Shutdown \/ ShutdownStep \/ DrainTimesOut
    BY <2>3 DEF Shutdown, ShutdownStep, Fence, CloseListeners, Drained, CancelActions, SupClosed, CloseDoH, CloseRoute,
                DrainTimesOut
  <2>4. CASE Elapse \/ ListenFails \/ Serve \/ ChangeEnv
    BY <2>4 DEF Elapse, ListenFails, Serve, ChangeEnv
  <2>5. QED
    BY <2>1, <2>2, <2>3, <2>4 DEF Next
<1>3. QED
  BY <1>1, <1>2, InitInv, NextInv, PTL DEF Spec
=============================================================================
