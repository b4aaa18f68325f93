------------------------------ MODULE DnsCache ------------------------------
(***************************************************************************)
(* internal/dnscache: the bounded TTL cache for DNS lookups.               *)
(*                                                                         *)
(* A caller is one invocation of LookupContext.  It looks under the read   *)
(* lock, looks again under the write lock, and then either waits for the   *)
(* lookup that is already in flight for its host or leads a new one.  The  *)
(* leader resolves with no lock held, and publishes under the write lock.  *)
(* ClearNetworkState (a supervisor recovery action) may run between any    *)
(* two of those steps.  A lookupCall is identified by the caller that      *)
(* leads it.                                                               *)
(***************************************************************************)
EXTENDS Integers, FiniteSets

CONSTANTS
  Callers,       \* invocations of LookupContext
  Hosts,         \* host names, as positive integers: evictLocked orders them
  MaxEntries,    \* maxEntries
  WithTTL,       \* whether the cache was built by NewWithTTL
  ResolverTTLs,  \* the TTLs the resolver may report
  MinTTL, MaxTTL, PositiveTTL, NegativeTTL,
  MaxTime,       \* bound on the clock
  MaxGeneration  \* bound on ClearNetworkState

ASSUME DnsCacheAssumption ==
  /\ Hosts \subseteq Nat \ {0}
  /\ MaxEntries \in Nat \ {0}
  /\ WithTTL \in BOOLEAN
  /\ ResolverTTLs \subseteq Nat
  /\ {MinTTL, MaxTTL, PositiveTTL, NegativeTTL} \subseteq Nat
  /\ MaxTime \in Nat
  /\ MaxGeneration \in Nat

VARIABLES
  now,         \* time.Now()
  generation,  \* Cache.generation
  cache,       \* Cache.cache: a function whose domain is the cached hosts
  inflight,    \* Cache.inflight: host -> the leader of its lookupCall
  call,        \* the lookupCall each caller leads, if it leads one
  pc,          \* where each caller stands in LookupContext
  host,        \* its argument, 0 when it is not running
  local,       \* its local variables
  joined,      \* the call it waits for
  ctxDone,     \* the running callers whose context is done
  startGen,    \* history: the generation in which it was invoked
  outdated     \* history: the callers answered by an earlier generation

lookupVars == << now, generation, cache, inflight, call, pc, host, local,
                 joined, ctxDone, startGen, outdated >>

Verdicts == {"ips", "error", "cancelled"}

\* gen is a history field: the generation whose network gave the verdict.
Entries == [verdict : Verdicts, gen : Nat, expires : Nat]
Calls   == [gen : Nat, done : BOOLEAN]

\* readAt is the last reading of time.Now(): now, later completedAt.
Locals  == [readAt : Nat, verdict : Verdicts, expires : Nat, cacheable : BOOLEAN]
NoLocals == [readAt |-> 0, verdict |-> "error", expires |-> 0,
             cacheable |-> FALSE]

LookupInit ==
  /\ now = 0 /\ generation = 0
  /\ cache = [h \in {} |-> 0]
  /\ inflight = [h \in {} |-> 0]
  /\ call = [p \in Callers |-> [gen |-> 0, done |-> FALSE]]
  /\ pc = [p \in Callers |-> "idle"]
  /\ host = [p \in Callers |-> 0]
  /\ local = [p \in Callers |-> NoLocals]
  /\ joined = [p \in Callers |-> p]
  /\ ctxDone = {}
  /\ startGen = [p \in Callers |-> 0]
  /\ outdated = {}

(* The caller leaves LookupContext with a result of this generation. *)
Return(p, gen) ==
  /\ pc' = [pc EXCEPT ![p] = "done"]
  /\ outdated' = IF gen < startGen[p] THEN outdated \cup {p} ELSE outdated
  /\ host' = [host EXCEPT ![p] = 0]
  /\ startGen' = [startGen EXCEPT ![p] = 0]
  /\ local' = [local EXCEPT ![p] = NoLocals]
  /\ joined' = [joined EXCEPT ![p] = p]
  /\ ctxDone' = ctxDone \ {p}

Hit(h, t) == h \in DOMAIN cache /\ t < cache[h].expires

-----------------------------------------------------------------------------
(* now := time.Now(), before any lock is taken. *)
Begin(p, h) ==
  /\ pc[p] = "idle"
  /\ pc' = [pc EXCEPT ![p] = "fast"]
  /\ host' = [host EXCEPT ![p] = h]
  /\ local' = [local EXCEPT ![p].readAt = now]
  /\ startGen' = [startGen EXCEPT ![p] = generation]
  /\ UNCHANGED << now, generation, cache, inflight, call, joined, ctxDone,
                  outdated >>

(* The look under the read lock. *)
FastHit(p) ==
  /\ pc[p] = "fast"
  /\ Hit(host[p], local[p].readAt)
  /\ Return(p, cache[host[p]].gen)
  /\ UNCHANGED << now, generation, cache, inflight, call >>

FastMiss(p) ==
  /\ pc[p] = "fast"
  /\ ~Hit(host[p], local[p].readAt)
  /\ pc' = [pc EXCEPT ![p] = "slow"]
  /\ UNCHANGED << now, generation, cache, inflight, call, host, local, joined,
                  ctxDone, startGen, outdated >>

(* The look under the write lock: a hit, a call to join, or a call to lead. *)
SlowHit(p) ==
  /\ pc[p] = "slow"
  /\ Hit(host[p], now)
  /\ Return(p, cache[host[p]].gen)
  /\ UNCHANGED << now, generation, cache, inflight, call >>

Join(p) ==
  /\ pc[p] = "slow"
  /\ ~Hit(host[p], now)
  /\ host[p] \in DOMAIN inflight
  /\ joined' = [joined EXCEPT ![p] = inflight[host[p]]]
  /\ local' = [local EXCEPT ![p] = NoLocals]
  /\ pc' = [pc EXCEPT ![p] = "waiting"]
  /\ UNCHANGED << now, generation, cache, inflight, call, host, ctxDone,
                  startGen, outdated >>

(* Mutant of Lead: the call is not registered in inflight. *)
LeadUnregistered(p) ==
  /\ pc[p] = "slow" /\ ~Hit(host[p], now)
  /\ host[p] \notin DOMAIN inflight
  /\ call' = [call EXCEPT ![p].gen = generation]
  /\ local' = [local EXCEPT ![p] = NoLocals]
  /\ pc' = [pc EXCEPT ![p] = "leading"]
  /\ UNCHANGED << now, generation, cache, inflight, host, joined, ctxDone,
                  startGen, outdated >>

Lead(p) ==
  /\ pc[p] = "slow"
  /\ ~Hit(host[p], now)
  /\ host[p] \notin DOMAIN inflight
  /\ inflight' = [h \in DOMAIN inflight \cup {host[p]} |->
                    IF h = host[p] THEN p ELSE inflight[h]]
  /\ call' = [call EXCEPT ![p].gen = generation]
  /\ local' = [local EXCEPT ![p] = NoLocals]
  /\ pc' = [pc EXCEPT ![p] = "leading"]
  /\ UNCHANGED << now, generation, cache, host, joined, ctxDone,
                  startGen, outdated >>

-----------------------------------------------------------------------------
(* The lifetime of a verdict, from the TTL the resolver reports. *)
StoredTTL(verdict, ttl) ==
  IF verdict # "ips" THEN NegativeTTL
  ELSE IF ~WithTTL THEN PositiveTTL
  ELSE IF ttl = 0 THEN 0
  ELSE IF ttl < MinTTL THEN MinTTL
  ELSE IF ttl > MaxTTL THEN MaxTTL ELSE ttl

(* Mutant of Cacheable: the context is not looked at. *)
CacheableUnderAnyContext(p, verdict, ttl) ==
  verdict # "ips" \/ ~WithTTL \/ ttl > 0

(* A verdict obtained under a context that is done is not the resolver's. *)
Cacheable(p, verdict, ttl) ==
  /\ p \notin ctxDone
  /\ verdict # "ips" \/ ~WithTTL \/ ttl > 0

(* The resolver answers its leader, with no lock held.  It may report the  *)
(* cancellation only of a context that is done.  Of a verdict that will    *)
(* not be cached nothing need be remembered.                               *)
TakeVerdict(p, verdict, ttl) ==
  /\ pc[p] = "leading"
  /\ verdict = "cancelled" => p \in ctxDone
  /\ local' = [local EXCEPT ![p] =
                 IF Cacheable(p, verdict, ttl)
                 THEN [readAt |-> now, verdict |-> verdict, cacheable |-> TRUE,
                       expires |-> now + StoredTTL(verdict, ttl)]
                 ELSE NoLocals]
  /\ pc' = [pc EXCEPT ![p] = "publishing"]
  /\ UNCHANGED << now, generation, cache, inflight, call, host, joined,
                  ctxDone, startGen, outdated >>

Live(t) == {h \in DOMAIN cache : t < cache[h].expires}

(* The entry that expires soonest, ties broken by name. *)
Victims(t) ==
  {h \in Live(t) : \A g \in Live(t) \ {h} :
     \/ cache[h].expires < cache[g].expires
     \/ cache[h].expires = cache[g].expires /\ h < g}

(* evictLocked: the hosts that may remain before an entry is stored.  A    *)
(* full cache first drops what has expired and, if it is still full, the   *)
(* entry that expires soonest: it never holds more than maxEntries, so one *)
(* round of the loop is enough.                                            *)
Room(t) ==
  IF Cardinality(DOMAIN cache) < MaxEntries THEN {DOMAIN cache}
  ELSE IF Cardinality(Live(t)) < MaxEntries THEN {Live(t)}
  ELSE {Live(t) \ {v} : v \in Victims(t)}

(* What may enter the cache: a cacheable verdict of this generation. *)
Publishable(p) == local[p].cacheable /\ call[p].gen = generation

Store(p) ==
  \E kept \in Room(local[p].readAt) :
    cache' = [h \in kept \cup {host[p]} |->
                IF h = host[p]
                THEN [verdict |-> local[p].verdict, gen |-> call[p].gen,
                      expires |-> local[p].expires]
                ELSE cache[h]]

(* Mutant of PublishVerdict: done is never closed. *)
PublishWithoutClose(p) ==
  /\ pc[p] = "publishing"
  /\ IF Publishable(p) THEN Store(p) ELSE UNCHANGED cache
  /\ inflight' = [h \in {g \in DOMAIN inflight : inflight[g] # p} |-> inflight[h]]
  /\ Return(p, call[p].gen)
  /\ UNCHANGED << now, generation, call >>

(* The leader stores its verdict, withdraws its call unless a newer one    *)
(* took its place, and closes done.                                        *)
PublishVerdict(p) ==
  /\ pc[p] = "publishing"
  /\ IF Publishable(p) THEN Store(p) ELSE UNCHANGED cache
  /\ inflight' = [h \in {g \in DOMAIN inflight : inflight[g] # p} |-> inflight[h]]
  /\ call' = [call EXCEPT ![p].done = TRUE]
  /\ Return(p, call[p].gen)
  /\ UNCHANGED << now, generation >>

(* A waiter takes the result of its call, or gives up with its context. *)
Receive(p) ==
  /\ pc[p] = "waiting"
  /\ call[joined[p]].done
  /\ Return(p, call[joined[p]].gen)
  /\ UNCHANGED << now, generation, cache, inflight, call >>

GiveUp(p) ==
  /\ pc[p] = "waiting"
  /\ p \in ctxDone
  /\ Return(p, generation)
  /\ UNCHANGED << now, generation, cache, inflight, call >>

-----------------------------------------------------------------------------
(* A context is looked at while waiting and when a lookup completes: an    *)
(* earlier cancellation acts as one that comes just then.                  *)
Cancel(p) ==
  /\ pc[p] \in {"waiting", "leading"}
  /\ p \notin ctxDone
  /\ ctxDone' = ctxDone \cup {p}
  /\ UNCHANGED << now, generation, cache, inflight, call, pc, host, local,
                  joined, startGen, outdated >>

(* Mutant of ClearNetworkState: the calls in flight are kept. *)
ClearKeepingCalls ==
  /\ generation < MaxGeneration
  /\ generation' = generation + 1
  /\ cache' = [h \in {} |-> 0]
  /\ UNCHANGED << now, inflight, call, pc, host, local, joined, ctxDone,
                  startGen, outdated >>

ClearNetworkState ==
  /\ generation < MaxGeneration
  /\ generation' = generation + 1
  /\ cache' = [h \in {} |-> 0]
  /\ inflight' = [h \in {} |-> 0]
  /\ UNCHANGED << now, call, pc, host, local, joined, ctxDone,
                  startGen, outdated >>

Tick ==
  /\ now < MaxTime
  /\ now' = now + 1
  /\ UNCHANGED << generation, cache, inflight, call, pc, host, local, joined,
                  ctxDone, startGen, outdated >>

ResolveAny(p) ==
  \E verdict \in Verdicts, ttl \in ResolverTTLs : TakeVerdict(p, verdict, ttl)

Step(p) ==
  \/ FastHit(p) \/ FastMiss(p) \/ SlowHit(p) \/ Join(p) \/ Lead(p)
  \/ ResolveAny(p) \/ PublishVerdict(p) \/ Receive(p) \/ GiveUp(p)

LookupNext ==
  \/ \E p \in Callers : (\E h \in Hosts : Begin(p, h)) \/ Step(p) \/ Cancel(p)
  \/ ClearNetworkState
  \/ Tick

LookupSpec == LookupInit /\ [][LookupNext]_lookupVars

(* A caller that has begun keeps running, and a resolver always answers:   *)
(* its exchanges have deadlines.  Nothing obliges a caller to begin, a     *)
(* context to be cancelled or the network to change.                       *)
FairLookupSpec == LookupSpec /\ \A p \in Callers : WF_lookupVars(Step(p))

-----------------------------------------------------------------------------
(* Every variable holds a value of its type, and evictLocked keeps the     *)
(* cache within maxEntries.                                                *)
LookupTypeOK ==
  /\ now \in Nat /\ generation \in Nat
  /\ DOMAIN cache \subseteq Hosts
  /\ IsFiniteSet(DOMAIN cache)
  /\ Cardinality(DOMAIN cache) <= MaxEntries
  /\ \A h \in DOMAIN cache : cache[h] \in Entries
  /\ DOMAIN inflight \subseteq Hosts
  /\ \A h \in DOMAIN inflight : inflight[h] \in Callers
  /\ call \in [Callers -> Calls]
  /\ pc \in [Callers -> {"idle", "fast", "slow", "waiting", "leading",
                         "publishing", "done"}]
  /\ host \in [Callers -> Hosts \cup {0}]
  /\ \A p \in Callers : pc[p] \notin {"idle", "done"} => host[p] \in Hosts
  /\ local \in [Callers -> Locals]
  /\ joined \in [Callers -> Callers]
  /\ ctxDone \subseteq Callers
  /\ startGen \in [Callers -> Nat]
  /\ outdated \subseteq Callers

(* LookupContext never answers a caller with what a network that was gone  *)
(* before the call began said of its host: neither from the cache, nor     *)
(* from a lookup that ClearNetworkState detached.                          *)
FreshAnswer == outdated = {}

(* The comment in LookupContext: a caller's cancellation is not a resolver *)
(* verdict and never becomes a shared cache entry.                         *)
CancellationNotCached ==
  \A h \in DOMAIN cache : cache[h].verdict # "cancelled"

(* Concurrent misses are coalesced: within one generation no two lookups   *)
(* of the same host are under way, even across ClearNetworkState, which    *)
(* forgets the calls in flight.                                            *)
Coalesced ==
  \A p, q \in Callers :
    /\ pc[p] \in {"leading", "publishing"} /\ pc[q] \in {"leading", "publishing"}
    /\ host[p] = host[q] /\ call[p].gen = call[q].gen
    => p = q

(* Every caller gets an answer: no waiter is stranded on a call that was   *)
(* detached or superseded.                                                 *)
CallerReturns(p) == pc[p] = "fast" ~> pc[p] = "done"
=============================================================================
