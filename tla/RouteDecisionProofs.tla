------------------------ MODULE RouteDecisionProofs -------------------------
(* Proofs about RouteDecision and the Resolver under it, for any requests, *)
(* targets, configurations, answers and scripts.                           *)
EXTENDS RouteDecision, FiniteSetTheorems, WellFoundedInduction, TLAPS

-----------------------------------------------------------------------------
(* Minima and subsequences. *)

(* Min of a set of numbers is one of them and exceeds none. *)
LEMMA MinIsLeast ==
  ASSUME NEW S, \A x \in S : x \in Nat, S # {}
  PROVE  Min(S) \in S /\ \A y \in S : Min(S) <= y
<1>1. \E x \in S : \A y \in S : ~(<<y, x>> \in OpToRel(<, Nat))
  <2>1. S \subseteq Nat
    OBVIOUS
  <2>2. QED
    BY <2>1, NatLessThanWellFounded, WFMin
<1>2. ASSUME NEW x \in Nat, NEW y \in Nat, <<y, x>> \notin OpToRel(<, Nat)
      PROVE  x <= y
  <2>1. ~(y < x)
    BY <1>2 DEF OpToRel
  <2>2. QED
    BY <2>1
<1>3. \E x \in S : \A y \in S : x <= y
  BY <1>1, <1>2
<1>4. QED
  BY <1>3 DEF Min

(* Ranks number the positions of I from 1 to Cardinality(I). *)
LEMMA Ranks ==
  ASSUME NEW n \in Nat, NEW I, \A i \in I : i \in 1..n
  PROVE  /\ Cardinality(I) \in Nat /\ IsFiniteSet(I)
         /\ \A i \in I : Rank(I, i) \in 1..Cardinality(I)
         /\ \A k \in 1..Cardinality(I) : \E i \in I : Rank(I, i) = k
         /\ \A i, j \in I : Rank(I, i) = Rank(I, j) => i = j
         /\ \A i, j \in I : i < j => Rank(I, i) < Rank(I, j)
<1>1. IsFiniteSet(I) /\ Cardinality(I) \in Nat
  <2>1. I \in SUBSET (1..n) /\ IsFiniteSet(1..n)
    BY FS_Interval
  <2>2. QED
    BY <2>1, FS_Subset, FS_CardinalityType
<1> DEFINE Below(i) == {j \in I : j <= i}
<1>2. ASSUME NEW i \in I
      PROVE IsFiniteSet(Below(i)) /\ Rank(I, i) \in 1..Cardinality(I) /\ Rank(I, i) \in Nat
  <2>1. Below(i) \in SUBSET I /\ i \in Below(i)
    OBVIOUS
  <2>2. IsFiniteSet(Below(i)) /\ Cardinality(Below(i)) <= Cardinality(I)
    BY <1>1, <2>1, FS_Subset
  <2>3. Cardinality(Below(i)) \in Nat /\ Cardinality(Below(i)) # 0
    BY <2>1, <2>2, FS_CardinalityType, FS_EmptySet
  <2>4. QED
    BY <1>1, <2>2, <2>3 DEF Rank
<1>3. ASSUME NEW i \in I, NEW j \in I, i < j
      PROVE Rank(I, i) < Rank(I, j)
  <2>1. Below(i) \in SUBSET Below(j) /\ j \in Below(j) /\ j \notin Below(i)
    BY <1>3
  <2>2. IsFiniteSet(Below(j)) /\ Below(i) # Below(j)
    BY <1>2, <2>1
  <2>3. Cardinality(Below(i)) <= Cardinality(Below(j)) /\ Cardinality(Below(j)) # Cardinality(Below(i))
    BY <2>1, <2>2, FS_Subset
  <2>4. Rank(I, i) \in Nat /\ Rank(I, j) \in Nat
    BY <1>2
  <2>5. QED
    BY <2>3, <2>4 DEF Rank
<1>4. \A i, j \in I : Rank(I, i) = Rank(I, j) => i = j
  <2> SUFFICES ASSUME NEW i \in I, NEW j \in I, i # j PROVE Rank(I, i) # Rank(I, j)
    OBVIOUS
  <2>1. Rank(I, i) \in Nat /\ Rank(I, j) \in Nat
    BY <1>2
  <2>2. i < j \/ j < i
    OBVIOUS
  <2>3. QED
    BY <1>3, <2>1, <2>2
<1>5. \A k \in 1..Cardinality(I) : \E i \in I : Rank(I, i) = k
  <2> DEFINE f == [i \in I |-> Rank(I, i)]
  <2>1. f \in Injection(I, 1..Cardinality(I))
    BY <1>2, <1>4 DEF Injection, IsInjective
  <2>2. IsFiniteSet(1..Cardinality(I)) /\ Cardinality(1..Cardinality(I)) = Cardinality(I)
    BY <1>1, FS_Interval
  <2>3. f \in Surjection(I, 1..Cardinality(I))
    BY <2>1, <2>2, FS_Injection
  <2>4. QED
    BY <2>3 DEF Surjection
<1>6. QED
  BY <1>1, <1>2, <1>3, <1>4, <1>5

(* Sift keeps exactly the elements at the positions I, in their order: its *)
(* k-th element stands at a position of rank k.                            *)
LEMMA Sifted ==
  ASSUME NEW n \in Nat, NEW I, \A i \in I : i \in 1..n, NEW s
  PROVE  /\ Cardinality(I) \in Nat /\ DOMAIN Sift(s, I) = 1..Cardinality(I)
         /\ Sift(s, I) = <<>> <=> I = {}
         /\ \A k \in DOMAIN Sift(s, I) : \E i \in I : Sift(s, I)[k] = s[i] /\ Rank(I, i) = k
         /\ \A i \in I : \E k \in DOMAIN Sift(s, I) : Sift(s, I)[k] = s[i]
<1> DEFINE at(k) == CHOOSE i \in I : Rank(I, i) = k
           t == [k \in 1..Cardinality(I) |-> s[at(k)]]
<1>1. Sift(s, I) = t
  BY DEF Sift, Rank
<1>2. \A k \in 1..Cardinality(I) : at(k) \in I /\ Rank(I, at(k)) = k
  BY Ranks
<1>3. \A i \in I : Rank(I, i) \in 1..Cardinality(I) /\ at(Rank(I, i)) = i
  BY Ranks, <1>2
<1>4. Cardinality(I) \in Nat /\ (Cardinality(I) = 0 <=> I = {})
  BY Ranks, FS_EmptySet
<1>5. \A k \in 1..Cardinality(I) : t[k] = s[at(k)]
  OBVIOUS
<1>6. \A k \in DOMAIN t : \E i \in I : t[k] = s[i] /\ Rank(I, i) = k
  BY <1>2, <1>5
<1>7. \A i \in I : \E k \in DOMAIN t : t[k] = s[i]
  BY <1>3, <1>5
<1>8. t = <<>> <=> I = {}
  <2>1. t = <<>> => DOMAIN t = {}
    OBVIOUS
  <2>2. DOMAIN t = {} => t = <<>>
    OBVIOUS
  <2>3. QED
    BY <1>4, <2>1, <2>2
<1>9. DOMAIN t = 1..Cardinality(I)
  OBVIOUS
<1> HIDE DEF t
<1>10. QED
  BY <1>1, <1>4, <1>6, <1>7, <1>8, <1>9

(* The positions among K where an element occurs first. *)
Firsts(s, K) == {i \in K : \A j \in 1..(i - 1) : s[j] # s[i]}

(* Sifting them loses nothing and leaves nothing twice. *)
LEMMA FirstsKept ==
  ASSUME NEW n \in Nat, NEW s, NEW K, \A k \in K : k \in 1..n,
         \A k \in K : \A j \in 1..n : s[j] = s[k] => j \in K
  PROVE  /\ \E m \in Nat : DOMAIN Sift(s, Firsts(s, K)) = 1..m
         /\ Sift(s, Firsts(s, K)) = <<>> <=> K = {}
         /\ \A i \in DOMAIN Sift(s, Firsts(s, K)) : \E k \in K : Sift(s, Firsts(s, K))[i] = s[k]
         /\ \A k \in K : \E i \in DOMAIN Sift(s, Firsts(s, K)) : Sift(s, Firsts(s, K))[i] = s[k]
         /\ \A i, j \in DOMAIN Sift(s, Firsts(s, K)) :
              Sift(s, Firsts(s, K))[i] = Sift(s, Firsts(s, K))[j] => i = j
<1> DEFINE I == Firsts(s, K)
<1>1. \A i \in I : i \in 1..n /\ i \in K
  BY DEF Firsts
<1>2. ASSUME NEW k \in K PROVE \E i \in I : s[i] = s[k]
  <2> DEFINE S == {j \in 1..n : s[j] = s[k]}
  <2>1. k \in S /\ \A x \in S : x \in Nat
    OBVIOUS
  <2> DEFINE i == Min(S)
  <2>2. i \in S /\ \A y \in S : i <= y
    BY <2>1, MinIsLeast
  <2> HIDE DEF i
  <2>3. i \in K /\ i \in 1..n /\ s[i] = s[k]
    BY <2>2
  <2>4. ASSUME NEW j \in 1..(i - 1) PROVE s[j] # s[i]
    <3>1. j \in 1..n /\ ~(i <= j)
      BY <2>3
    <3>2. QED
      BY <2>2, <2>3, <3>1
  <2>5. QED
    BY <2>3, <2>4 DEF Firsts
<1>3. \A i, j \in I : s[i] = s[j] => i = j
  <2>1. ASSUME NEW i \in I, NEW j \in I, i < j PROVE s[i] # s[j]
    <3>1. i \in 1..(j - 1)
      BY <1>1, <2>1
    <3>2. QED
      BY <3>1 DEF Firsts
  <2>2. ASSUME NEW i \in I, NEW j \in I PROVE i = j \/ i < j \/ j < i
    BY <1>1
  <2>3. QED
    BY <2>1, <2>2
<1>4. I = {} <=> K = {}
  BY <1>1, <1>2
<1> HIDE DEF I
<1> DEFINE t == Sift(s, I)
<1>5. /\ Cardinality(I) \in Nat /\ DOMAIN t = 1..Cardinality(I)
      /\ t = <<>> <=> I = {}
      /\ \A k \in DOMAIN t : \E i \in I : t[k] = s[i] /\ Rank(I, i) = k
      /\ \A i \in I : \E k \in DOMAIN t : t[k] = s[i]
  BY <1>1, Sifted
<1> HIDE DEF t
<1>6. ASSUME NEW k \in DOMAIN t, NEW l \in DOMAIN t, t[k] = t[l] PROVE k = l
  <2>1. PICK i \in I : t[k] = s[i] /\ Rank(I, i) = k
    BY <1>5
  <2>2. PICK j \in I : t[l] = s[j] /\ Rank(I, j) = l
    BY <1>5
  <2>3. i = j
    BY <1>3, <1>6, <2>1, <2>2
  <2>4. QED
    BY <2>1, <2>2, <2>3
<1>7. ASSUME NEW k \in K PROVE \E i \in DOMAIN t : t[i] = s[k]
  <2>1. PICK i \in I : s[i] = s[k]
    BY <1>2
  <2>2. QED
    BY <1>5, <2>1
<1>8. \A i \in DOMAIN t : \E k \in K : t[i] = s[k]
  BY <1>1, <1>5
<1>9. QED
  BY <1>4, <1>5, <1>6, <1>7, <1>8 DEF t, I

(* A list is a function on 1..n. *)
IsList(s) == \E n \in Nat : DOMAIN s = 1..n

Distinct(s) == \A i, j \in DOMAIN s : s[i] = s[j] => i = j

(* Dedupe keeps every element once. *)
LEMMA Deduped ==
  ASSUME NEW s, IsList(s)
  PROVE  /\ IsList(Dedupe(s)) /\ (Dedupe(s) = <<>> <=> DOMAIN s = {})
         /\ \A k \in DOMAIN Dedupe(s) : \E i \in DOMAIN s : Dedupe(s)[k] = s[i]
<1>1. PICK n \in Nat : DOMAIN s = 1..n
  BY DEF IsList
<1> DEFINE K == DOMAIN s
<1>2. /\ \A k \in K : k \in 1..n
      /\ \A k \in K : \A j \in 1..n : s[j] = s[k] => j \in K
  BY <1>1
<1>3. Dedupe(s) = Sift(s, Firsts(s, K))
  BY DEF Dedupe, Firsts
<1> HIDE DEF K
<1>4. /\ \E m \in Nat : DOMAIN Sift(s, Firsts(s, K)) = 1..m
      /\ Sift(s, Firsts(s, K)) = <<>> <=> K = {}
      /\ \A i \in DOMAIN Sift(s, Firsts(s, K)) : \E k \in K : Sift(s, Firsts(s, K))[i] = s[k]
  BY <1>2, FirstsKept
<1>5. QED
  BY <1>3, <1>4 DEF K, IsList

(* ParseProxy: the list without blanks and repetitions. *)
Items(list) == {x \in Range(list) : ~Blank(x)}

LEMMA Parsed ==
  ASSUME NEW raw, IsList(raw), ParseProxy(raw) # Error
  PROVE  /\ Range(ParseProxy(raw)) = Items(raw)
         /\ ParseProxy(raw) = <<>> <=> Items(raw) = {}
         /\ Distinct(ParseProxy(raw))
<1>1. PICK n \in Nat : DOMAIN raw = 1..n
  BY DEF IsList
<1> DEFINE K == {i \in DOMAIN raw : ~Blank(raw[i])}
<1>2. /\ \A k \in K : k \in 1..n
      /\ \A k \in K : \A j \in 1..n : raw[j] = raw[k] => j \in K
  BY <1>1
<1>3. ParseProxy(raw) = Sift(raw, Firsts(raw, K))
  <2>1. {i \in DOMAIN raw : /\ ~Blank(raw[i])
                            /\ \A j \in 1..(i - 1) : raw[j] # raw[i]} = Firsts(raw, K)
    BY DEF Firsts
  <2>2. QED
    BY <2>1 DEF ParseProxy
<1>4. Items(raw) = {raw[k] : k \in K}
  BY DEF Items, Range
<1> HIDE DEF K
<1> DEFINE t == Sift(raw, Firsts(raw, K))
<1>5. /\ t = <<>> <=> K = {}
      /\ \A i \in DOMAIN t : \E k \in K : t[i] = raw[k]
      /\ \A k \in K : \E i \in DOMAIN t : t[i] = raw[k]
      /\ \A i, j \in DOMAIN t : t[i] = t[j] => i = j
  BY <1>2, FirstsKept
<1>6. t = ParseProxy(raw)
  BY <1>3
<1> HIDE DEF t
<1>7. Range(t) = Items(raw)
  BY <1>4, <1>5 DEF Range
<1>8. t = <<>> <=> Items(raw) = {}
  <2>1. K = {} <=> Items(raw) = {}
    BY <1>4
  <2>2. QED
    BY <1>5, <2>1
<1>9. QED
  BY <1>5, <1>6, <1>7, <1>8 DEF Distinct
-----------------------------------------------------------------------------
(* The lock on the JavaScript engine. *)

Fields == {"pc", "t", "said", "cut", "look", "result", "out", "conn"}

Shaped ==
  /\ req = [r \in Requests |-> req[r]]
  /\ \A r \in Requests : DOMAIN req[r] = Fields

(* Whoever evaluates, or has a timer running, holds the lock; an interrupt *)
(* is the holder's.                                                        *)
Holder ==
  /\ timer = [r \in Requests |-> timer[r]]
  /\ \A r \in Requests : timer[r] # "off" => vmMu = r
  /\ \A r \in Requests : req[r].pc \in {"eval", "stop"} => vmMu = r
  /\ InterruptIsolated

LockInv == Shaped /\ Holder

(* One request is replaced. *)
LEMMA PutShaped ==
  ASSUME Shaped, NEW r \in Requests, NEW q, DOMAIN q = Fields, req' = [req EXCEPT ![r] = q]
  PROVE  /\ Shaped'
         /\ req'[r] = q /\ \A s \in Requests \ {r} : req'[s] = req[s]
<1>1. req'[r] = q /\ \A s \in Requests \ {r} : req'[s] = req[s]
  BY DEF Shaped
<1>2. req' = [s \in Requests |-> req'[s]]
  BY DEF Shaped
<1>3. \A s \in Requests : DOMAIN req'[s] = Fields
  BY <1>1 DEF Shaped
<1>4. QED
  BY <1>1, <1>2, <1>3 DEF Shaped

(* Nobody enters or leaves the evaluation. *)
LEMMA PutLock ==
  ASSUME LockInv, NEW r \in Requests, NEW q, DOMAIN q = Fields, req' = [req EXCEPT ![r] = q],
         q.pc \in {"eval", "stop"} => req[r].pc \in {"eval", "stop"},
         UNCHANGED << timer, vmMu, flag >>
  PROVE  LockInv'
<1>1. Shaped' /\ req'[r] = q /\ \A s \in Requests \ {r} : req'[s] = req[s]
  BY PutShaped DEF LockInv
<1>2. \A s \in Requests : req'[s].pc \in {"eval", "stop"} => vmMu' = s
  BY <1>1 DEF LockInv, Holder
<1>3. QED
  BY <1>1, <1>2 DEF LockInv, Holder, InterruptIsolated

(* The lock is taken: no timer of an earlier evaluation is left. *)
LEMMA LockVMLock ==
  ASSUME LockInv, NEW r \in Requests, LockVM(r)
  PROVE  LockInv'
<1> DEFINE q == [req[r] EXCEPT !.pc = "eval"]
<1>1. DOMAIN q = Fields /\ req' = [req EXCEPT ![r] = q] /\ q.pc = "eval"
  BY DEF LockInv, Shaped, LockVM, Fields
<1> HIDE DEF q
<1>2. Shaped' /\ req'[r] = q /\ \A s \in Requests \ {r} : req'[s] = req[s]
  BY <1>1, PutShaped DEF LockInv
<1>3. vmMu = NoOne /\ vmMu' = r /\ NoOne \notin Requests /\ flag' = flag
  BY DecisionAssumption DEF LockVM
<1>4. ~flag
  BY <1>3 DEF LockInv, Holder, InterruptIsolated
<1>5. \A s \in Requests \ {r} : timer'[s] = timer[s] /\ timer[s] = "off"
  BY <1>3 DEF LockInv, Holder, LockVM
<1>6. \A s \in Requests \ {r} : req'[s].pc \notin {"eval", "stop"}
  BY <1>2, <1>3 DEF LockInv, Holder
<1>7. timer' = [s \in Requests |-> timer'[s]]
  BY DEF LockInv, Holder, LockVM
<1>8. QED
  BY <1>2, <1>3, <1>4, <1>5, <1>6, <1>7 DEF LockInv, Holder, InterruptIsolated

(* The timers only run for the holder. *)
LEMMA TimersLock ==
  ASSUME LockInv, NEW r \in Requests, TimerStarts(r) \/ Interrupt(r)
  PROVE  LockInv'
<1>1. timer[r] # "off" /\ vmMu = r /\ r # NoOne
  BY DecisionAssumption DEF LockInv, Holder, TimerStarts, Interrupt
<1>2. \A s \in Requests \ {r} : timer'[s] = timer[s]
  BY DEF LockInv, Holder, TimerStarts, Interrupt
<1>3. timer' = [s \in Requests |-> timer'[s]]
  BY DEF LockInv, Holder, TimerStarts, Interrupt
<1>4. UNCHANGED << req, vmMu >>
  BY DEF TimerStarts, Interrupt
<1>5. InterruptIsolated'
  <2>1. CASE TimerStarts(r)
    BY <1>1, <2>1 DEF LockInv, Holder, InterruptIsolated, TimerStarts
  <2>2. CASE Interrupt(r)
    BY <1>1, <2>2 DEF LockInv, Holder, InterruptIsolated, Interrupt
  <2>3. QED
    BY <2>1, <2>2
<1>6. QED
  BY <1>1, <1>2, <1>3, <1>4, <1>5 DEF LockInv, Holder, Shaped

(* The lock is given back with the timer stopped and the interrupt gone. *)
LEMMA StopTimerLock ==
  ASSUME LockInv, NEW r \in Requests, StopTimer(r), NEW q, DOMAIN q = Fields,
         req' = [req EXCEPT ![r] = q], q.pc \notin {"eval", "stop"}
  PROVE  LockInv'
<1>1. Shaped' /\ req'[r] = q /\ \A s \in Requests \ {r} : req'[s] = req[s]
  BY PutShaped DEF LockInv
<1>2. vmMu = r /\ vmMu' = NoOne /\ flag' = FALSE
  BY DEF LockInv, Holder, StopTimer
<1>3. \A s \in Requests \ {r} : timer[s] = "off" /\ timer'[s] = timer[s] /\ req'[s].pc \notin {"eval", "stop"}
  BY <1>1, <1>2 DEF LockInv, Holder, StopTimer
<1>4. timer'[r] = "off"
  BY DEF LockInv, Holder, StopTimer, TimerSettled
<1>5. timer' = [s \in Requests |-> timer'[s]]
  BY DEF LockInv, Holder, StopTimer
<1>6. QED
  BY <1>1, <1>2, <1>3, <1>4, <1>5 DEF LockInv, Holder, InterruptIsolated
-----------------------------------------------------------------------------
(* What a lookup returns. *)

(* The records of one answer: an address is returned only if the answer    *)
(* has it, and the TTL exceeds that of no record returned.                 *)
LEMMA ParsedAnswer ==
  ASSUME NEW m, IsMessage(m), NEW f, m.code = "ok",
         NEW v, v = ParseResponseTTL(m, f)
  PROVE  /\ v.ok <=> HasAddress(m, f)
         /\ v.terminal <=> ~HasAddress(m, f)
         /\ v.by = "endpoint" /\ v.ips \in Seq(V4 \cup V6) /\ v.ttl \in Nat
         /\ \A k \in DOMAIN v.ips : \E rec \in Range(m.addrs) :
              rec[2] = v.ips[k] /\ rec[3] \in Nat /\ v.ttl <= rec[3]
         /\ v.ok \/ v.ips = <<>>
<1> DEFINE n == Len(m.addrs)
           I == {i \in DOMAIN m.addrs : m.addrs[i][1] \in Allowed(m) /\ m.addrs[i][2] \in FamilyIPs(f)}
           mine == Sift(m.addrs, I)
           T == {mine[i][3] : i \in DOMAIN mine} \cup {c[3] : c \in {d \in m.cnames : d[1] \in Allowed(m)}}
<1>1. /\ n \in Nat /\ DOMAIN m.addrs = 1..n
      /\ \A i \in 1..n : m.addrs[i][3] \in Nat /\ m.addrs[i][2] \in V4 \cup V6
  BY DEF IsMessage
<1>2. \A i \in I : i \in 1..n
  BY <1>1
<1>3. HasAddress(m, f) <=> I # {}
  BY DEF HasAddress
<1>4. v = IF mine = <<>> THEN Failed(TRUE) ELSE Found([i \in DOMAIN mine |-> mine[i][2]], Min(T))
  BY DEF ParseResponseTTL
<1>5. \A c \in m.cnames : c[3] \in Nat
  BY DEF IsMessage
<1>6. \A i \in I : m.addrs[i] \in Range(m.addrs)
  BY DEF Range
<1> HIDE DEF n, I
<1>7. /\ Cardinality(I) \in Nat /\ DOMAIN mine = 1..Cardinality(I)
      /\ mine = <<>> <=> I = {}
      /\ \A k \in DOMAIN mine : \E i \in I : mine[k] = m.addrs[i] /\ Rank(I, i) = k
  BY <1>1, <1>2, Sifted
<1> HIDE DEF mine
<1>8. CASE mine = <<>>
  <2>1. v = [ok |-> FALSE, terminal |-> TRUE, ips |-> <<>>, ttl |-> 0, by |-> "endpoint"]
    BY <1>4, <1>8 DEF Failed
  <2>2. ~HasAddress(m, f)
    BY <1>3, <1>7, <1>8
  <2>3. <<>> \in Seq(V4 \cup V6) /\ DOMAIN <<>> = {}
    OBVIOUS
  <2>4. QED
    BY <2>1, <2>2, <2>3
<1>9. CASE mine # <<>>
  <2> DEFINE ips == [i \in DOMAIN mine |-> mine[i][2]]
  <2>1. v = [ok |-> TRUE, terminal |-> FALSE, ips |-> ips, ttl |-> Min(T), by |-> "endpoint"]
    BY <1>4, <1>9 DEF Found
  <2>2. HasAddress(m, f)
    BY <1>3, <1>7, <1>9
  <2>3. DOMAIN mine # {}
    <3>1. PICK i \in I : TRUE
      BY <1>7, <1>9
    <3>2. Cardinality(I) # 0
      <4>1. IsFiniteSet(I)
        BY <1>1, <1>2, Ranks
      <4>2. QED
        BY <3>1, <4>1, FS_EmptySet
    <3>3. QED
      BY <1>7, <3>2
  <2>4. \A k \in DOMAIN mine : mine[k][3] \in Nat /\ mine[k][2] \in V4 \cup V6
    BY <1>1, <1>2, <1>7
  <2>5. T # {} /\ \A x \in T : x \in Nat
    BY <1>5, <2>3, <2>4
  <2>6. Min(T) \in Nat /\ \A k \in DOMAIN mine : Min(T) <= mine[k][3]
    <3>1. \A k \in DOMAIN mine : mine[k][3] \in T
      OBVIOUS
    <3> HIDE DEF T
    <3>2. Min(T) \in T /\ \A y \in T : Min(T) <= y
      BY <2>5, MinIsLeast
    <3>3. QED
      BY <2>5, <3>1, <3>2
  <2> HIDE DEF T
  <2>7. /\ DOMAIN ips = DOMAIN mine /\ \A k \in DOMAIN mine : ips[k] = mine[k][2]
        /\ ips \in Seq(V4 \cup V6)
    BY <1>7, <2>4
  <2> HIDE DEF ips
  <2>8. \A k \in DOMAIN ips : \E rec \in Range(m.addrs) :
          rec[2] = ips[k] /\ rec[3] \in Nat /\ Min(T) <= rec[3]
    <3> SUFFICES ASSUME NEW k \in DOMAIN mine
                 PROVE  \E rec \in Range(m.addrs) :
                          rec[2] = ips[k] /\ rec[3] \in Nat /\ Min(T) <= rec[3]
      BY <2>7
    <3>1. PICK i \in I : mine[k] = m.addrs[i]
      BY <1>7
    <3>2. mine[k] \in Range(m.addrs)
      BY <1>6, <3>1
    <3>3. QED
      BY <2>4, <2>6, <2>7, <3>2
  <2>9. QED
    BY <2>1, <2>2, <2>6, <2>7, <2>8
<1>10. QED
  BY <1>8, <1>9
(* One family at one endpoint. *)
LEMMA FamilySound ==
  ASSUME NEW scheme, NEW f, NEW said, IsMessage(said.first), IsMessage(said.retry),
         NEW m, m = Exchange(scheme, said), NEW v, v = Family(scheme, f, said)
  PROVE  /\ v.ok <=> HasAddress(m, f)
         /\ v.terminal <=> Denies(m, f)
         /\ v.by = "endpoint" /\ v.ips \in Seq(V4 \cup V6) /\ v.ttl \in Nat
         /\ \A k \in DOMAIN v.ips : \E rec \in Range(m.addrs) :
              rec[2] = v.ips[k] /\ rec[3] \in Nat /\ v.ttl <= rec[3]
         /\ v.ok \/ v.ips = <<>>
<1>1. IsMessage(m)
  BY DEF Exchange
<1>2. v = IF m.code = "ok" THEN ParseResponseTTL(m, f) ELSE Failed(m.code = "nx")
  BY DEF Family
<1>3. CASE m.code = "ok"
  BY <1>1, <1>2, <1>3, ParsedAnswer DEF Denies
<1>4. CASE m.code # "ok"
  <2>1. /\ v.ok = FALSE /\ v.terminal = (m.code = "nx") /\ v.ips = <<>> /\ v.ttl = 0
        /\ v.by = "endpoint"
    BY <1>2, <1>4 DEF Failed
  <2>2. ~HasAddress(m, f) /\ (Denies(m, f) <=> m.code = "nx")
    BY <1>4 DEF HasAddress, Denies
  <2>3. <<>> \in Seq(V4 \cup V6) /\ DOMAIN <<>> = {}
    OBVIOUS
  <2>4. (v.ok <=> HasAddress(m, f)) /\ (v.terminal <=> Denies(m, f))
    BY <2>1, <2>2, Zenon
  <2>5. v.ips \in Seq(V4 \cup V6) /\ v.ttl \in Nat /\ DOMAIN v.ips = {}
    BY <2>1, <2>3
  <2>6. QED
    BY <2>1, <2>4, <2>5
<1>5. QED
  BY <1>3, <1>4

(* Concatenation has the elements of both. *)
LEMMA Concatenated ==
  ASSUME NEW S, NEW x \in Seq(S), NEW y \in Seq(S)
  PROVE  /\ x \o y \in Seq(S) /\ IsList(x \o y)
         /\ \A k \in DOMAIN (x \o y) : \/ \E i \in DOMAIN x : (x \o y)[k] = x[i]
                                       \/ \E i \in DOMAIN y : (x \o y)[k] = y[i]
<1>1. /\ x \o y \in Seq(S) /\ Len(x \o y) = Len(x) + Len(y)
      /\ \A k \in 1..(Len(x) + Len(y)) :
           (x \o y)[k] = IF k <= Len(x) THEN x[k] ELSE y[k - Len(x)]
  OBVIOUS
<1>2. Len(x) \in Nat /\ Len(y) \in Nat /\ DOMAIN x = 1..Len(x) /\ DOMAIN y = 1..Len(y)
  OBVIOUS
<1>3. DOMAIN (x \o y) = 1..(Len(x) + Len(y)) /\ Len(x) + Len(y) \in Nat
  BY <1>1, <1>2
<1>4. ASSUME NEW k \in DOMAIN (x \o y)
      PROVE  \/ \E i \in DOMAIN x : (x \o y)[k] = x[i]
             \/ \E i \in DOMAIN y : (x \o y)[k] = y[i]
  <2>1. k \in 1..(Len(x) + Len(y))
    BY <1>3
  <2>2. CASE k <= Len(x)
    BY <1>1, <1>2, <2>1, <2>2
  <2>3. CASE ~(k <= Len(x))
    <3>1. k - Len(x) \in DOMAIN y
      BY <1>2, <2>1, <2>3
    <3>2. QED
      BY <1>1, <2>1, <2>3, <3>1
  <2>4. QED
    BY <2>2, <2>3
<1>5. QED
  BY <1>1, <1>3, <1>4 DEF IsList
(* What the two families of an endpoint come to, read without the          *)
(* algorithm.                                                              *)
Told(scheme, a, f) == Exchange(scheme, a[f])
Offering(scheme, a) == \E f \in Range(Families) : HasAddress(Told(scheme, a, f), f)
Denying(scheme, a) == \A f \in Range(Families) : Denies(Told(scheme, a, f), f)

LEMMA FamilySet == Range(Families) = {"A", "AAAA"}
BY DEF Range, Families

(* Both families at one endpoint: any address is a success, and what is    *)
(* returned comes from a family that has one.                              *)
LEMMA LookupEndpointSound ==
  ASSUME NEW scheme, NEW a \in Answers, NEW w, w = LookupEndpoint(scheme, a)
  PROVE  /\ w.ok <=> Offering(scheme, a)
         /\ w.terminal <=> ~Offering(scheme, a) /\ Denying(scheme, a)
         /\ w.by = "endpoint" /\ IsList(w.ips)
         /\ \A k \in DOMAIN w.ips : \E f \in Range(Families) :
              /\ HasAddress(Told(scheme, a, f), f)
              /\ \E rec \in Range(Told(scheme, a, f).addrs) : rec[2] = w.ips[k] /\ w.ttl <= rec[3]
<1> DEFINE v1 == Family(scheme, "A", a["A"])
           v2 == Family(scheme, "AAAA", a["AAAA"])
           m1 == Told(scheme, a, "A")
           m2 == Told(scheme, a, "AAAA")
           v == [i \in 1..2 |-> Family(scheme, Families[i], a[Families[i]])]
           good == {i \in 1..2 : v[i].ok}
<1>1. v[1] = v1 /\ v[2] = v2
  BY DEF Families
<1>2. /\ IsMessage(a["A"].first) /\ IsMessage(a["A"].retry)
      /\ IsMessage(a["AAAA"].first) /\ IsMessage(a["AAAA"].retry)
  BY DecisionAssumption
<1>3. /\ v1.ok <=> HasAddress(m1, "A")
      /\ v1.terminal <=> Denies(m1, "A")
      /\ v1.by = "endpoint" /\ v1.ips \in Seq(V4 \cup V6) /\ v1.ttl \in Nat
      /\ \A k \in DOMAIN v1.ips : \E rec \in Range(m1.addrs) :
           rec[2] = v1.ips[k] /\ rec[3] \in Nat /\ v1.ttl <= rec[3]
      /\ v1.ok \/ v1.ips = <<>>
  BY <1>2, FamilySound DEF Told
<1>4. /\ v2.ok <=> HasAddress(m2, "AAAA")
      /\ v2.terminal <=> Denies(m2, "AAAA")
      /\ v2.by = "endpoint" /\ v2.ips \in Seq(V4 \cup V6) /\ v2.ttl \in Nat
      /\ \A k \in DOMAIN v2.ips : \E rec \in Range(m2.addrs) :
           rec[2] = v2.ips[k] /\ rec[3] \in Nat /\ v2.ttl <= rec[3]
      /\ v2.ok \/ v2.ips = <<>>
  BY <1>2, FamilySound DEF Told
<1>5. w = IF good = {} THEN Failed(\A i \in 1..2 : v[i].terminal)
          ELSE Found(Dedupe(v[1].ips \o v[2].ips), Min({v[i].ttl : i \in good}))
  BY DEF LookupEndpoint
<1>6. \A i \in 1..2 : i = 1 \/ i = 2
  OBVIOUS
<1>7. /\ Offering(scheme, a) <=> v1.ok \/ v2.ok
      /\ Denying(scheme, a) <=> v1.terminal /\ v2.terminal
  BY <1>3, <1>4, FamilySet DEF Offering, Denying
<1> HIDE DEF v
<1>8. good = {} <=> ~Offering(scheme, a)
  BY <1>1, <1>6, <1>7
<1>9. (\A i \in 1..2 : v[i].terminal) <=> Denying(scheme, a)
  BY <1>1, <1>6, <1>7
<1>10. CASE good = {}
  <2> DEFINE both == \A i \in 1..2 : v[i].terminal
  <2>1. w = Failed(both)
    BY <1>5, <1>10, Zenon
  <2>2. both <=> Denying(scheme, a)
    BY <1>9
  <2> HIDE DEF both
  <2>3. w.ok = FALSE /\ w.terminal = both /\ w.by = "endpoint" /\ w.ips = <<>>
    BY <2>1 DEF Failed
  <2>4. IsList(w.ips) /\ DOMAIN w.ips = {}
    BY <2>3 DEF IsList
  <2>5. /\ w.ok <=> Offering(scheme, a)
        /\ w.terminal <=> ~Offering(scheme, a) /\ Denying(scheme, a)
    BY <1>8, <1>10, <2>2, <2>3, Zenon
  <2>6. QED
    BY <2>3, <2>4, <2>5
<1>11. CASE good # {}
  <2> DEFINE T == {v[i].ttl : i \in good}
             both == v1.ips \o v2.ips
  <2>0. w = Found(Dedupe(both), Min(T))
    BY <1>1, <1>5, <1>11, Zenon
  <2>1. /\ w.ok = TRUE /\ w.terminal = FALSE /\ w.by = "endpoint"
        /\ w.ips = Dedupe(both) /\ w.ttl = Min(T)
    <3> HIDE DEF both, T
    <3>1. QED
      BY <2>0 DEF Found
  <2>2. T # {} /\ \A x \in T : x \in Nat
    <3>1. \A i \in good : v[i].ttl \in Nat
      BY <1>1, <1>3, <1>4, <1>6
    <3>2. QED
      BY <1>11, <3>1
  <2>3. (v1.ok => v1.ttl \in T) /\ (v2.ok => v2.ttl \in T)
    BY <1>1
  <2> HIDE DEF T
  <2>4. w.ttl \in T /\ \A y \in T : w.ttl <= y
    BY <2>1, <2>2, MinIsLeast
  <2>5. w.ttl \in Nat /\ (v1.ok => w.ttl <= v1.ttl) /\ (v2.ok => w.ttl <= v2.ttl)
    BY <2>2, <2>3, <2>4
  <2>6. /\ IsList(both)
        /\ \A k \in DOMAIN both : \/ \E i \in DOMAIN v1.ips : both[k] = v1.ips[i]
                                  \/ \E i \in DOMAIN v2.ips : both[k] = v2.ips[i]
    <3> DEFINE x == v1.ips
               y == v2.ips
               S == V4 \cup V6
    <3>1. x \in Seq(S) /\ y \in Seq(S)
      BY <1>3, <1>4
    <3> HIDE DEF x, y, S
    <3>2. /\ IsList(x \o y)
          /\ \A k \in DOMAIN (x \o y) : \/ \E i \in DOMAIN x : (x \o y)[k] = x[i]
                                        \/ \E i \in DOMAIN y : (x \o y)[k] = y[i]
      BY <3>1, Concatenated, SMTT(30)
    <3>3. QED
      BY <3>2 DEF x, y
  <2> HIDE DEF both
  <2>7. /\ IsList(w.ips)
        /\ \A k \in DOMAIN w.ips : \E i \in DOMAIN both : w.ips[k] = both[i]
    BY <2>1, <2>6, Deduped
  <2>8. ASSUME NEW k \in DOMAIN w.ips
        PROVE \E f \in Range(Families) :
              /\ HasAddress(Told(scheme, a, f), f)
              /\ \E rec \in Range(Told(scheme, a, f).addrs) : rec[2] = w.ips[k] /\ w.ttl <= rec[3]
    <3>1. \/ \E i \in DOMAIN v1.ips : w.ips[k] = v1.ips[i]
          \/ \E i \in DOMAIN v2.ips : w.ips[k] = v2.ips[i]
      BY <2>6, <2>7
    <3>2. CASE \E i \in DOMAIN v1.ips : w.ips[k] = v1.ips[i]
      <4>1. PICK i \in DOMAIN v1.ips : w.ips[k] = v1.ips[i]
        BY <3>2
      <4>2. v1.ok
        BY <1>3, <4>1, SMTT(30)
      <4>3. PICK rec \in Range(m1.addrs) : rec[2] = v1.ips[i] /\ rec[3] \in Nat /\ v1.ttl <= rec[3]
        BY <1>3, <4>1
      <4>4. w.ttl <= rec[3]
        BY <1>3, <2>5, <4>2, <4>3, SMTT(30)
      <4>5. HasAddress(m1, "A") /\ rec[2] = w.ips[k] /\ "A" \in Range(Families)
        BY <1>3, <4>1, <4>2, <4>3, FamilySet
      <4>6. QED
        BY <4>3, <4>4, <4>5
    <3>3. CASE \E i \in DOMAIN v2.ips : w.ips[k] = v2.ips[i]
      <4>1. PICK i \in DOMAIN v2.ips : w.ips[k] = v2.ips[i]
        BY <3>3
      <4>2. v2.ok
        BY <1>4, <4>1, SMTT(30)
      <4>3. PICK rec \in Range(m2.addrs) : rec[2] = v2.ips[i] /\ rec[3] \in Nat /\ v2.ttl <= rec[3]
        BY <1>4, <4>1
      <4>4. w.ttl <= rec[3]
        BY <1>4, <2>5, <4>2, <4>3, SMTT(30)
      <4>5. HasAddress(m2, "AAAA") /\ rec[2] = w.ips[k] /\ "AAAA" \in Range(Families)
        BY <1>4, <4>1, <4>2, <4>3, FamilySet
      <4>6. QED
        BY <4>3, <4>4, <4>5
    <3>4. QED
      BY <3>1, <3>2, <3>3
  <2>9. QED
    BY <1>8, <1>11, <2>1, <2>7, <2>8
<1>12. QED
  BY <1>10, <1>11
(* The endpoints in order: the lookup ends with the first that settles it  *)
(* or at the cut, and fails unless that one offers an address.             *)
LEMMA EndpointsSound ==
  ASSUME NEW eps \in Seq(STRING), eps # <<>>, NEW said \in [DOMAIN eps -> Answers],
         NEW cut \in 0..Len(eps), NEW look, look = Endpoints(eps, said, cut)
  PROVE  \E i \in DOMAIN eps :
           /\ look = LookupEndpoint(eps[i], said[i])
           /\ \A j \in 1..(i - 1) : ~Settles(eps, said, j) /\ j # cut
           /\ Settles(eps, said, i) \/ i = cut \/ i = Len(eps)
<1> DEFINE verdict(i) == LookupEndpoint(eps[i], said[i])
           ends == {i \in DOMAIN eps : verdict(i).ok \/ verdict(i).terminal \/ i = cut}
           last == IF ends = {} THEN Len(eps) ELSE Min(ends)
<1>1. Len(eps) \in Nat /\ Len(eps) # 0 /\ DOMAIN eps = 1..Len(eps)
  OBVIOUS
<1>2. look = verdict(last)
  BY Zenon DEF Endpoints
<1>3. ASSUME NEW i \in DOMAIN eps
      PROVE  verdict(i).ok \/ verdict(i).terminal <=> Settles(eps, said, i)
  <2>1. said[i] \in Answers
    OBVIOUS
  <2>2. /\ verdict(i).ok <=> Offering(eps[i], said[i])
        /\ verdict(i).terminal <=> ~Offering(eps[i], said[i]) /\ Denying(eps[i], said[i])
    BY <2>1, LookupEndpointSound
  <2>3. Settles(eps, said, i) <=> Offering(eps[i], said[i]) \/ Denying(eps[i], said[i])
    BY DEF Settles, Offers, Final, Offering, Denying, Told
  <2>4. QED
    BY <2>2, <2>3
<1>4. \A i \in DOMAIN eps : i \in ends <=> Settles(eps, said, i) \/ i = cut
  BY <1>3
<1>5. \A i \in ends : i \in Nat /\ i \in DOMAIN eps
  BY <1>1
<1> HIDE DEF ends
<1>6. CASE ends = {}
  <2>1. last = Len(eps) /\ last \in DOMAIN eps
    BY <1>1, <1>6
  <2>2. \A j \in 1..(last - 1) : j \in DOMAIN eps
    BY <1>1, <2>1
  <2>3. QED
    BY <1>2, <1>4, <1>6, <2>1, <2>2
<1>7. CASE ends # {}
  <2>1. last \in ends /\ \A y \in ends : last <= y
    BY <1>5, <1>7, MinIsLeast
  <2> HIDE DEF last
  <2>2. last \in DOMAIN eps /\ last \in Nat
    BY <1>5, <2>1
  <2>3. \A j \in 1..(last - 1) : j \in DOMAIN eps /\ ~(last <= j)
    BY <1>1, <2>2
  <2>4. \A j \in 1..(last - 1) : j \notin ends
    BY <2>1, <2>3
  <2>5. QED
    BY <1>2, <1>4, <2>1, <2>2, <2>3, <2>4
<1>8. QED
  BY <1>6, <1>7
(* The endpoints that settle the lookup, and their records, as LookupSound *)
(* has them.                                                               *)
Settling(eps, said, cut) ==
  {i \in DOMAIN eps : /\ Settles(eps, said, i)
                      /\ \A j \in 1..(i - 1) : ~Settles(eps, said, j) /\ j # cut}

Records(eps, said, i) ==
  UNION {IF HasAddress(Final(eps, said, i, f), f)
         THEN Range(Final(eps, said, i, f).addrs) ELSE {} : f \in Range(Families)}

(* What LookupSound says of a lookup that was made. *)
SoundLook(eps, said, cut, look) ==
  /\ look.ok <=> \E i \in Settling(eps, said, cut) : Offers(eps, said, i)
  /\ look.ok => \E i \in Settling(eps, said, cut) : \A k \in DOMAIN look.ips :
       \E rec \in Records(eps, said, i) : rec[2] = look.ips[k] /\ look.ttl <= rec[3]

LEMMA HeardSound ==
  ASSUME NEW eps, eps \in Seq(STRING), eps # <<>>, NEW said, said \in [DOMAIN eps -> Answers],
         NEW cut, cut \in 0..Len(eps), NEW look, look = Endpoints(eps, said, cut)
  PROVE  look.by = "endpoint" /\ IsList(look.ips) /\ SoundLook(eps, said, cut, look)
<1>1. Len(eps) \in Nat /\ DOMAIN eps = 1..Len(eps)
  OBVIOUS
<1>2. PICK i \in DOMAIN eps :
           /\ look = LookupEndpoint(eps[i], said[i])
           /\ \A j \in 1..(i - 1) : ~Settles(eps, said, j) /\ j # cut
           /\ Settles(eps, said, i) \/ i = cut \/ i = Len(eps)
  BY EndpointsSound
<1>3. said[i] \in Answers /\ i \in 1..Len(eps)
  BY <1>1
<1> DEFINE a == said[i]
           scheme == eps[i]
<1>4. /\ look.ok <=> Offering(scheme, a)
      /\ look.by = "endpoint" /\ IsList(look.ips)
      /\ \A k \in DOMAIN look.ips : \E f \in Range(Families) :
           /\ HasAddress(Told(scheme, a, f), f)
           /\ \E rec \in Range(Told(scheme, a, f).addrs) : rec[2] = look.ips[k] /\ look.ttl <= rec[3]
  BY <1>2, <1>3, LookupEndpointSound, SMTT(30)
<1>5. Offers(eps, said, i) <=> Offering(scheme, a)
  BY DEF Offers, Final, Offering, Told
<1>6. Offers(eps, said, i) => i \in Settling(eps, said, cut)
  BY <1>2 DEF Settling, Settles
<1>7. ASSUME NEW k \in DOMAIN look.ips
      PROVE \E rec \in Records(eps, said, i) : rec[2] = look.ips[k] /\ look.ttl <= rec[3]
  <2>1. PICK f \in Range(Families) :
           /\ HasAddress(Told(scheme, a, f), f)
           /\ \E rec \in Range(Told(scheme, a, f).addrs) : rec[2] = look.ips[k] /\ look.ttl <= rec[3]
    BY <1>4
  <2>2. Range(Told(scheme, a, f).addrs) \subseteq Records(eps, said, i)
    BY <2>1 DEF Records, Final, Told
  <2>3. QED
    BY <2>1, <2>2
<1>8. ASSUME NEW h \in Settling(eps, said, cut), Offers(eps, said, h) PROVE h = i
  <2>1. h \in 1..Len(eps) /\ Settles(eps, said, h) /\ \A j \in 1..(h - 1) : ~Settles(eps, said, j) /\ j # cut
    BY <1>1 DEF Settling
  <2>2. CASE h < i
    <3>1. h \in 1..(i - 1)
      BY <1>1, <1>3, <2>1, <2>2
    <3>2. QED
      BY <1>2, <2>1, <3>1
  <2>3. CASE i < h
    <3>1. i \in 1..(h - 1) /\ i # Len(eps)
      BY <1>1, <1>3, <2>1, <2>3
    <3>2. QED
      BY <1>2, <2>1, <3>1
  <2>4. QED
    BY <1>1, <1>3, <2>1, <2>2, <2>3
<1>9. SoundLook(eps, said, cut, look)
  <2>1. look.ok => i \in Settling(eps, said, cut) /\ Offers(eps, said, i)
    BY <1>4, <1>5, <1>6
  <2>2. (\E h \in Settling(eps, said, cut) : Offers(eps, said, h)) => look.ok
    BY <1>4, <1>5, <1>8
  <2>3. QED
    BY <1>7, <2>1, <2>2 DEF SoundLook
<1>10. QED
  BY <1>4, <1>9

(* The address that is connected to is one of those found. *)
LEMMA FirstUpFound ==
  ASSUME NEW ips, IsList(ips), NEW up
  PROVE  FirstUp(ips, up) # NoIP => FirstUp(ips, up) \in Range(ips)
<1> DEFINE reached == {i \in DOMAIN ips : ips[i] \in up}
<1>1. FirstUp(ips, up) = IF reached = {} THEN NoIP ELSE ips[Min(reached)]
  BY DEF FirstUp
<1>2. \A x \in reached : x \in Nat /\ x \in DOMAIN ips
  BY DEF IsList
<1> HIDE DEF reached
<1>3. reached # {} => Min(reached) \in DOMAIN ips
  BY <1>2, MinIsLeast
<1>4. QED
  BY <1>1, <1>3 DEF Range
-----------------------------------------------------------------------------
(* What is routed DIRECT. *)

Named(c, t) ==
  \/ \E m \in BuildWproxy(c).matchers : HostMatches(m, t)
  \/ t.host.ip \in BuildWproxy(c).ips

(* What the environment or the system's manual settings list for a target. *)
SchemeLists(c) ==
  IF BuildWproxy(c).mode = "env" THEN [s \in {"http", "https", "all"} |-> c.env[s]] ELSE c.sys.manual

Own(lists, scheme) == IF scheme \in DOMAIN lists THEN Items(lists[scheme]) ELSE {}

Listed(c, t) ==
  IF Own(SchemeLists(c), t.scheme) # {} THEN Own(SchemeLists(c), t.scheme) ELSE Items(SchemeLists(c)["all"])

(* The reasons of NoImplicitDirect, and a decision that keeps to them. *)
Reason(c, t, look, result) ==
  \/ BuildWproxy(c).mode = "none" \/ Named(c, t)
  \/ Range(look.ips) \cap BuildWproxy(c).ips # {}
  \/ /\ BuildWproxy(c).mode = "configPAC" /\ result # Error
     /\ \E i \in DOMAIN result : result[i][1] = "DIRECT"
  \/ BuildWproxy(c).mode \in {"auto", "pac"} /\ result # Error /\ Direct \in Range(result)
  \/ BuildWproxy(c).mode \in {"env", "manual"} /\ (Listed(c, t) = {} \/ Direct \in Listed(c, t))
  \/ BuildWproxy(c).mode = "config" /\ Direct \in Range(c.servers)

Allowable(c, t, look, result, out) ==
  out # Error =>
    /\ Distinct(out)
    /\ Direct \in Range(out) => Reason(c, t, look, result)
    /\ out = <<>> => BuildWproxy(c).mode \in {"config", "manual"}

(* A route has what its mode needs. *)
LEMMA RouteFacts ==
  ASSUME NEW c \in Configs, BuildWproxy(c) # Error
  PROVE  /\ BuildWproxy(c).mode = Mode(c)
         /\ Mode(c) = "env" => c.env.found /\ EnvParses(c)
         /\ Mode(c) = "manual" => c.sys.found
         /\ Mode(c) = "config" => ParseProxy(c.servers) # Error
<1>1. BuildWproxy(c) = NewWithDNS(c) /\ (c.mode = "config" => ParseProxy(c.servers) # Error)
  BY DEF BuildWproxy
<1>2. /\ BuildWproxy(c) = [mode |-> Mode(c), ips |-> ParseNoProxy(Bypass(c)).ips,
                           matchers |-> ParseNoProxy(Bypass(c)).matchers]
      /\ ~(Mode(c) = "env" /\ ~EnvParses(c))
  BY <1>1 DEF NewWithDNS
<1>3. BuildWproxy(c).mode = Mode(c)
  BY <1>2
<1>4. c.mode \in {"none", "config", "configPAC"}
  BY DecisionAssumption
<1>5. (Mode(c) = "env" => c.env.found) /\ (Mode(c) = "manual" => c.sys.found)
  BY <1>4 DEF Mode, SystemMode
<1>6. Mode(c) = "config" => c.mode = "config"
  BY <1>4 DEF Mode, SystemMode
<1>7. QED
  BY <1>1, <1>2, <1>3, <1>5, <1>6

LEMMA ListIsList == ASSUME NEW s \in Lists PROVE IsList(s)
BY DEF Lists, IsList

(* The one element list. *)
LEMMA JustDirect ==
  << Direct >> # <<>> /\ Distinct(<< Direct >>) /\ Range(<< Direct >>) = {Direct} /\ Head(<< Direct >>) = Direct
BY DEF Distinct, Range

(* The system's resolver. *)
LEMMA SystemAllowable ==
  ASSUME NEW c, BuildWproxy(c).mode \in {"auto", "pac"}, NEW t, NEW look, NEW result \in SystemResults
  PROVE  Allowable(c, t, look, result, SystemServers(result))
<1> SUFFICES ASSUME SystemServers(result) # Error
             PROVE  Allowable(c, t, look, result, SystemServers(result))
  BY DEF Allowable
<1>1. /\ result # Error /\ SystemServers(result) = ParseProxy(result)
      /\ Cardinality({i \in DOMAIN result : ~Blank(result[i])}) \in 1..MaxCandidates
  BY DEF SystemServers, ValidateCanonicalResult
<1>2. IsList(result)
  BY <1>1, DecisionAssumption, ListIsList
<1>3. /\ Range(ParseProxy(result)) = Items(result)
      /\ ParseProxy(result) = <<>> <=> Items(result) = {}
      /\ Distinct(ParseProxy(result))
  BY <1>1, <1>2, Parsed
<1>4. Items(result) # {}
  <2>1. SUFFICES {i \in DOMAIN result : ~Blank(result[i])} # {}
    BY DEF Items, Range
  <2>2. 0 \notin 1..MaxCandidates
    OBVIOUS
  <2>3. QED
    BY <1>1, <2>2, FS_EmptySet
<1>5. Direct \in Range(ParseProxy(result)) => Direct \in Range(result)
  BY <1>3 DEF Items
<1>6. QED
  BY <1>1, <1>3, <1>4, <1>5 DEF Allowable, Reason

(* PAC results: every known directive gives one candidate, DIRECT comes    *)
(* from DIRECT alone, and anything else is an error.                       *)
LEMMA Normalized ==
  ASSUME NEW result \in Lists, NormalizeResult(result) # Error
  PROVE  /\ IsList(NormalizeResult(result))
         /\ Items(NormalizeResult(result)) # {}
         /\ Direct \in Range(NormalizeResult(result)) => \E i \in DOMAIN result : result[i][1] = "DIRECT"
<1> DEFINE I == {i \in DOMAIN result : ~Blank(result[i])}
           said == Sift(result, I)
           norm == [i \in DOMAIN said |-> IF said[i][1] = "DIRECT" THEN Direct
                                         ELSE <<SchemeOf(said[i][1]), said[i][2]>>]
<1>1. Len(result) \in Nat /\ DOMAIN result = 1..Len(result)
  BY DEF Lists
<1>2. \A i \in I : i \in 1..Len(result) /\ i \in DOMAIN result
  BY <1>1
<1>3. /\ NormalizeResult(result) = norm /\ said # <<>>
      /\ \A i \in DOMAIN said : said[i][1] \in Directives \cup {"DIRECT"}
  BY DEF NormalizeResult
<1> HIDE DEF I
<1>4. /\ Cardinality(I) \in Nat /\ DOMAIN said = 1..Cardinality(I)
      /\ said = <<>> <=> I = {}
      /\ \A k \in DOMAIN said : \E i \in I : said[k] = result[i] /\ Rank(I, i) = k
      /\ \A i \in I : \E k \in DOMAIN said : said[k] = result[i]
  BY <1>1, <1>2, Sifted
<1> HIDE DEF said
<1>5. ASSUME NEW k \in DOMAIN said
      PROVE  /\ ~Blank(norm[k])
             /\ norm[k] = Direct => \E i \in DOMAIN result : result[i][1] = "DIRECT"
  <2>1. said[k][1] = "DIRECT" => norm[k] = Direct
    OBVIOUS
  <2>2. said[k][1] # "DIRECT" => norm[k] = <<SchemeOf(said[k][1]), said[k][2]>>
    OBVIOUS
  <2>3. said[k][1] # "DIRECT" => SchemeOf(said[k][1]) \in {"http", "https", "socks5", "socks4", "socks4a"}
    BY <1>3 DEF Directives, SchemeOf
  <2>4. said[k][1] = "DIRECT" => \E i \in DOMAIN result : result[i][1] = "DIRECT"
    <3>1. PICK i \in I : said[k] = result[i]
      BY <1>4
    <3>2. i \in DOMAIN result
      BY <1>2
    <3>3. QED
      BY <3>1, <3>2
  <2>5. QED
    BY <2>1, <2>2, <2>3, <2>4 DEF Blank, Direct
<1>6. DOMAIN norm = DOMAIN said /\ DOMAIN said # {}
  <2>1. PICK i \in I : TRUE
    BY <1>3, <1>4
  <2>2. QED
    BY <1>4, <2>1
<1> HIDE DEF norm
<1>7. IsList(norm) /\ Items(norm) # {}
  BY <1>4, <1>5, <1>6 DEF IsList, Items, Range
<1>8. Direct \in Range(norm) => \E i \in DOMAIN result : result[i][1] = "DIRECT"
  BY <1>5, <1>6 DEF Range
<1>9. QED
  BY <1>3, <1>7, <1>8

(* A PAC script, which may have thrown or been interrupted. *)
LEMMA PacAllowable ==
  ASSUME NEW c, BuildWproxy(c).mode = "configPAC", NEW t, NEW look, NEW result \in Scripts \cup {Error}
  PROVE  Allowable(c, t, look, result, PacServers(result))
<1> SUFFICES ASSUME PacServers(result) # Error
             PROVE  Allowable(c, t, look, result, PacServers(result))
  BY DEF Allowable
<1> DEFINE norm == NormalizeResult(result)
<1>1. result # Error /\ norm # Error /\ PacServers(result) = ParseProxy(norm)
  BY DEF PacServers
<1>2. result \in Lists
  BY <1>1, DecisionAssumption
<1>3. /\ IsList(norm) /\ Items(norm) # {}
      /\ Direct \in Range(norm) => \E i \in DOMAIN result : result[i][1] = "DIRECT"
  BY <1>1, <1>2, Normalized
<1> HIDE DEF norm
<1>4. /\ Range(ParseProxy(norm)) = Items(norm)
      /\ ParseProxy(norm) = <<>> <=> Items(norm) = {}
      /\ Distinct(ParseProxy(norm))
  BY <1>1, <1>3, Parsed
<1>5. Direct \in Range(ParseProxy(norm)) => Direct \in Range(norm)
  BY <1>4 DEF Items
<1>6. QED
  BY <1>1, <1>3, <1>4, <1>5 DEF Allowable, Reason
(* The environment: DIRECT is listed, or nothing is. *)
LEMMA EnvAllowable ==
  ASSUME NEW c \in Configs, BuildWproxy(c) # Error, BuildWproxy(c).mode = "env",
         NEW t, NEW look, NEW result, NEW list,
         list = ForScheme([s \in {"http", "https", "all"} |-> ParseProxy(c.env[s])], t.scheme)
  PROVE  Allowable(c, t, look, result, IF list = <<>> THEN << Direct >> ELSE list)
<1> DEFINE S == {"http", "https", "all"}
           lists == [s \in S |-> c.env[s]]
           parsed == [s \in S |-> ParseProxy(c.env[s])]
<1>1. \A s \in S : IsList(lists[s]) /\ parsed[s] = ParseProxy(lists[s]) /\ parsed[s] # Error
  BY RouteFacts, DecisionAssumption, ListIsList DEF EnvParses
<1>2. \A s \in S : /\ Range(parsed[s]) = Items(lists[s]) /\ Distinct(parsed[s])
                   /\ parsed[s] = <<>> <=> Items(lists[s]) = {}
  BY <1>1, Parsed
<1>3. DOMAIN lists = S /\ DOMAIN parsed = S
  OBVIOUS
<1>4. SchemeLists(c) = lists
  BY DEF SchemeLists
<1>5. list = IF t.scheme \in DOMAIN parsed /\ parsed[t.scheme] # <<>> THEN parsed[t.scheme] ELSE parsed["all"]
  BY DEF ForScheme
<1> HIDE DEF lists, parsed
<1>6. Listed(c, t) = Range(list) /\ Distinct(list) /\ (list = <<>> <=> Listed(c, t) = {})
  <2>1. CASE t.scheme \in S /\ parsed[t.scheme] # <<>>
    BY <1>2, <1>3, <1>4, <1>5, <2>1 DEF Listed, Own
  <2>2. CASE t.scheme \in S /\ parsed[t.scheme] = <<>>
    BY <1>2, <1>3, <1>4, <1>5, <2>2 DEF Listed, Own
  <2>3. CASE t.scheme \notin S
    BY <1>2, <1>3, <1>4, <1>5, <2>3 DEF Listed, Own
  <2>4. QED
    BY <2>1, <2>2, <2>3
<1>7. CASE list = <<>>
  BY <1>6, <1>7, JustDirect DEF Allowable, Reason
<1>8. CASE list # <<>>
  BY <1>6, <1>8 DEF Allowable, Reason
<1>9. QED
  BY <1>7, <1>8

(* The system's manual settings. *)
LEMMA ManualAllowable ==
  ASSUME NEW c \in Configs, BuildWproxy(c) # Error, BuildWproxy(c).mode = "manual",
         NEW t, NEW look, NEW result, NEW raw, raw = ForScheme(c.sys.manual, t.scheme)
  PROVE  Allowable(c, t, look, result, IF raw = <<>> THEN << Direct >> ELSE ParseProxy(raw))
<1> DEFINE lists == c.sys.manual
<1>1. /\ "all" \in DOMAIN lists
      /\ \A s \in DOMAIN lists : IsList(lists[s])
  BY RouteFacts, DecisionAssumption, ListIsList
<1>2. SchemeLists(c) = lists
  BY DEF SchemeLists
<1>3. raw = IF t.scheme \in DOMAIN lists /\ lists[t.scheme] # <<>> THEN lists[t.scheme] ELSE lists["all"]
  BY DEF ForScheme
<1> HIDE DEF lists
<1>4. IsList(raw)
  BY <1>1, <1>3
<1>5. Items(<<>>) = {}
  BY DEF Items, Range
<1>6. CASE raw = <<>>
  <2>1. Listed(c, t) = {}
    BY <1>2, <1>3, <1>5, <1>6 DEF Listed, Own
  <2>2. QED
    BY <1>6, <2>1, JustDirect DEF Allowable, Reason
<1>7. CASE raw # <<>> /\ ParseProxy(raw) # Error
  <2>1. Range(ParseProxy(raw)) = Items(raw) /\ Distinct(ParseProxy(raw))
    BY <1>4, <1>7, Parsed
  <2>2. Direct \in Items(raw) => Direct \in Listed(c, t)
    <3>1. CASE t.scheme \in DOMAIN lists /\ lists[t.scheme] # <<>>
      BY <1>2, <1>3, <3>1 DEF Listed, Own
    <3>2. CASE t.scheme \in DOMAIN lists /\ lists[t.scheme] = <<>>
      BY <1>2, <1>3, <1>5, <3>2 DEF Listed, Own
    <3>3. CASE t.scheme \notin DOMAIN lists
      BY <1>2, <1>3, <3>3 DEF Listed, Own
    <3>4. QED
      BY <3>1, <3>2, <3>3
  <2>3. QED
    BY <1>7, <2>1, <2>2 DEF Allowable, Reason
<1>8. CASE raw # <<>> /\ ParseProxy(raw) = Error
  BY <1>8 DEF Allowable
<1>9. QED
  BY <1>6, <1>7, <1>8

(* The configured servers. *)
LEMMA ConfigAllowable ==
  ASSUME NEW c \in Configs, BuildWproxy(c) # Error, BuildWproxy(c).mode = "config",
         NEW t, NEW look, NEW result
  PROVE  Allowable(c, t, look, result, ParseProxy(c.servers))
<1>1. IsList(c.servers) /\ ParseProxy(c.servers) # Error
  BY RouteFacts, DecisionAssumption, ListIsList
<1>2. Range(ParseProxy(c.servers)) = Items(c.servers) /\ Distinct(ParseProxy(c.servers))
  BY <1>1, Parsed
<1>3. QED
  BY <1>2 DEF Allowable, Reason, Items

(* All modes that ask nobody. *)
LEMMA StaticAllowable ==
  ASSUME conf \in Configs, route # Error, route.mode \in {"env", "manual", "config"},
         NEW t, NEW look, NEW result
  PROVE  Allowable(conf, t, look, result, StaticServers(t))
<1>1. route = BuildWproxy(conf)
  BY DEF route
<1>2. CASE route.mode = "env"
  <2> DEFINE list == ForScheme([s \in {"http", "https", "all"} |-> ParseProxy(conf.env[s])], t.scheme)
  <2>1. StaticServers(t) = IF list = <<>> THEN << Direct >> ELSE list
    BY <1>2 DEF StaticServers
  <2> HIDE DEF list
  <2>2. Allowable(conf, t, look, result, IF list = <<>> THEN << Direct >> ELSE list)
    BY <1>1, <1>2, EnvAllowable DEF list
  <2>3. QED
    BY <2>1, <2>2
<1>3. CASE route.mode = "manual"
  <2> DEFINE raw == ForScheme(conf.sys.manual, t.scheme)
  <2>1. StaticServers(t) = IF raw = <<>> THEN << Direct >> ELSE ParseProxy(raw)
    BY <1>3 DEF StaticServers
  <2> HIDE DEF raw
  <2>2. Allowable(conf, t, look, result, IF raw = <<>> THEN << Direct >> ELSE ParseProxy(raw))
    BY <1>1, <1>3, ManualAllowable DEF raw
  <2>3. QED
    BY <2>1, <2>2
<1>4. CASE route.mode = "config"
  <2>1. StaticServers(t) = ParseProxy(conf.servers)
    BY <1>4 DEF StaticServers
  <2>2. QED
    BY <1>1, <1>4, <2>1, ConfigAllowable
<1>5. QED
  BY <1>2, <1>3, <1>4
-----------------------------------------------------------------------------
(* The invariant of a request. *)

(* Under explicit endpoints, what is kept of a lookup is what they said. *)
Heard(eps, q) ==
  /\ q.look.by # "os"
  /\ q.said # <<>> => /\ eps \in Seq(STRING) /\ eps # <<>>
                      /\ q.said \in [DOMAIN eps -> Answers] /\ q.cut \in 0..Len(eps)
                      /\ q.look = Endpoints(eps, q.said, q.cut)
  /\ q.conn # NoIP => q.conn \in Range(q.look.ips)

Bound(c, t) == t.host.ip = NoIP /\ Resolves(c.policy, t.host).kind = "endpoints"

LookOK(c, q) ==
  /\ q.pc \notin {"idle", "done"} => q.t \in Targets /\ q.conn = NoIP
  /\ q.pc # "idle" /\ Bound(c, q.t) => Heard(Resolves(c.policy, q.t.host).eps, q)

(* A decision has its reason until the dial looks the name up again. *)
DirectOK(c, q) ==
  /\ q.pc \in {"eval", "stop"} => BuildWproxy(c).mode = "configPAC"
  /\ q.pc = "stop" => q.result \in Scripts \cup {Error}
  /\ q.pc = "dial" => q.out \notin {Error, <<>>} /\ Head(q.out) = Direct
  /\ q.pc = "done" /\ q.out = <<>> => BuildWproxy(c).mode \in {"config", "manual"}
  /\ (q.pc = "dial" \/ (q.pc = "done" /\ q.out \notin {Error, <<>>} /\ Head(q.out) # Direct)) =>
       /\ Distinct(q.out)
       /\ Direct \in Range(q.out) => Reason(c, q.t, q.look, q.result)

Fixed == conf \in Configs /\ route # Error

DecisionInv ==
  /\ Fixed /\ LockInv
  /\ \A r \in Requests : LookOK(conf, req[r]) /\ DirectOK(conf, req[r])

(* A decision within the reasons. *)
LEMMA DecidedRight ==
  ASSUME NEW c, NEW q, DOMAIN q = Fields, NEW out, Allowable(c, q.t, q.look, q.result, out),
         NEW d, d = Decided(q, out)
  PROVE  /\ DOMAIN d = Fields /\ d.pc \in {"dial", "done"} /\ (out = Error => d.pc = "done")
         /\ d.t = q.t /\ d.said = q.said /\ d.cut = q.cut /\ d.look = q.look /\ d.conn = q.conn
         /\ DirectOK(c, d)
<1>1. /\ DOMAIN d = Fields /\ d.out = out
      /\ d.pc = IF out \notin {Error, <<>>} /\ Head(out) = Direct THEN "dial" ELSE "done"
      /\ d.t = q.t /\ d.said = q.said /\ d.cut = q.cut /\ d.look = q.look /\ d.conn = q.conn
      /\ d.result = q.result
  BY DEF Decided, Fields
<1>2. d.pc \in {"dial", "done"} /\ (d.pc = "dial" <=> out \notin {Error, <<>>} /\ Head(out) = Direct)
  BY <1>1
<1>3. DirectOK(c, d)
  <2>1. d.pc = "done" /\ out = <<>> => BuildWproxy(c).mode \in {"config", "manual"}
    BY DecisionAssumption DEF Allowable
  <2>2. out \notin {Error, <<>>} => Distinct(out) /\ (Direct \in Range(out) => Reason(c, d.t, d.look, d.result))
    BY <1>1 DEF Allowable
  <2>3. QED
    BY <1>1, <1>2, <2>1, <2>2 DEF DirectOK
<1>4. QED
  BY <1>1, <1>2, <1>3

(* Nothing that a lookup left is touched. *)
LEMMA LookKept ==
  ASSUME NEW c, NEW q, LookOK(c, q), q.pc \notin {"idle", "done"},
         NEW d, d.t = q.t, d.said = q.said, d.cut = q.cut, d.look = q.look, d.conn = q.conn
  PROVE  LookOK(c, d)
BY DEF LookOK, Heard

(* No lookup yet. *)
LEMMA LookFresh ==
  ASSUME NEW c, NEW d, d.said = <<>>, d.look = NoLook, d.conn = NoIP, d.pc \in {"idle", "done"} \/ d.t \in Targets
  PROVE  LookOK(c, d)
BY DEF LookOK, Heard, NoLook

(* Before a decision there is nothing to justify. *)
LEMMA Undecided ==
  ASSUME NEW c, NEW d, d.pc \notin {"eval", "stop", "dial", "done"}
  PROVE  DirectOK(c, d)
BY DEF DirectOK

(* A lookup under the policy. *)
LEMMA LookedUp ==
  ASSUME Fixed, NEW r \in Requests, DOMAIN req[r] = Fields, req[r].t \in Targets, NEW q \in Lookup(r)
  PROVE  /\ DOMAIN q = Fields
         /\ q.pc = req[r].pc /\ q.t = req[r].t /\ q.result = req[r].result
         /\ q.out = req[r].out /\ q.conn = req[r].conn
         /\ Bound(conf, q.t) =>
              /\ q.look.by = "endpoint" /\ IsList(q.look.ips)
              /\ q.said # <<>> =>
                   LET eps == Resolves(conf.policy, q.t.host).eps
                   IN /\ eps \in Seq(STRING) /\ eps # <<>>
                      /\ q.said \in [DOMAIN eps -> Answers] /\ q.cut \in 0..Len(eps)
                      /\ q.look = Endpoints(eps, q.said, q.cut)
<1> DEFINE t == req[r].t
           to == Resolves(conf.policy, t.host)
           eps == IF to.kind = "endpoints" THEN to.eps ELSE <<>>
           oses == IF eps = <<>> THEN OsAnswers ELSE {<<>>}
           heard == {a \in [DOMAIN eps -> Answers] \X (0..Len(eps)) \X oses :
                       a[2] > 0 => a[1][a[2]]["AAAA"].first.code = "io"}
           look(a) == LookupIPTTL(conf.policy, t.host, a[1], a[3], a[2])
<1>0. Lookup(r) = {[req[r] EXCEPT !.said = a[1], !.cut = a[2], !.look = look(a)] : a \in heard}
  BY DEF Lookup
<1>1. PICK a \in heard : q = [req[r] EXCEPT !.said = a[1], !.cut = a[2], !.look = look(a)]
  <2> HIDE DEF heard, look
  <2>1. QED
    BY <1>0
<1>2. a[1] \in [DOMAIN eps -> Answers] /\ a[2] \in 0..Len(eps)
  BY <1>1
<1> DEFINE x == a[1]
           y == a[2]
           z == look(a)
<1>3. q = [req[r] EXCEPT !.said = x, !.cut = y, !.look = z]
  BY <1>1
<1> HIDE DEF x, y, z
<1>4. /\ DOMAIN q = Fields
      /\ q.pc = req[r].pc /\ q.t = req[r].t /\ q.result = req[r].result
      /\ q.out = req[r].out /\ q.conn = req[r].conn
      /\ q.said = x /\ q.cut = y /\ q.look = z
  BY <1>3 DEF Fields
<1>5. ASSUME Bound(conf, t)
      PROVE  /\ q.look.by = "endpoint" /\ IsList(q.look.ips)
             /\ q.said # <<>> => /\ to.eps \in Seq(STRING) /\ to.eps # <<>>
                                 /\ q.said \in [DOMAIN to.eps -> Answers] /\ q.cut \in 0..Len(to.eps)
                                 /\ q.look = Endpoints(to.eps, q.said, q.cut)
  <2>1. to.kind = "endpoints" /\ t.host.ip = NoIP /\ eps = to.eps
    BY <1>5 DEF Bound
  <2>2. to.eps \in Seq(STRING)
    BY <2>1, DecisionAssumption DEF Fixed
  <2>3. z = Endpoints(to.eps, x, y)
    BY <2>1 DEF LookupIPTTL, x, y, z
  <2>4. x \in [DOMAIN to.eps -> Answers] /\ y \in 0..Len(to.eps)
    BY <1>2, <2>1 DEF x, y
  <2>5. CASE to.eps = <<>>
    <3>1. z = Failed(FALSE)
      BY <2>3, <2>5 DEF Endpoints
    <3>2. z.by = "endpoint" /\ z.ips = <<>> /\ IsList(<<>>)
      <4>1. z.by = "endpoint" /\ z.ips = <<>>
        BY <3>1 DEF Failed
      <4>2. DOMAIN <<>> = 1..0
        BY SMTT(30)
      <4>3. QED
        BY <4>1, <4>2 DEF IsList
    <3>3. x = <<>>
      BY <2>4, <2>5, SMTT(30)
    <3>4. QED
      BY <1>4, <3>2, <3>3
  <2>6. CASE to.eps # <<>>
    <3>1. z.by = "endpoint" /\ IsList(z.ips)
      <4> DEFINE e == to.eps
      <4>1. e \in Seq(STRING) /\ e # <<>> /\ x \in [DOMAIN e -> Answers] /\ y \in 0..Len(e) /\ z = Endpoints(e, x, y)
        BY <2>2, <2>3, <2>4, <2>6
      <4> HIDE DEF e
      <4>2. QED
        BY <4>1, HeardSound
    <3>2. QED
      BY <1>4, <2>2, <2>3, <2>4, <2>6, <3>1
  <2>7. QED
    BY <2>5, <2>6
<1>6. QED
  BY <1>4, <1>5
-----------------------------------------------------------------------------
(* Every step keeps the invariant. *)

LEMMA PutRequest ==
  ASSUME DecisionInv, conf' = conf, LockInv', NEW r \in Requests, NEW d, DOMAIN d = Fields,
         req' = [req EXCEPT ![r] = d], LookOK(conf, d), DirectOK(conf, d)
  PROVE  DecisionInv'
<1>1. req'[r] = d /\ \A s \in Requests \ {r} : req'[s] = req[s]
  BY PutShaped DEF DecisionInv, LockInv
<1>2. \A s \in Requests : LookOK(conf, req'[s]) /\ DirectOK(conf, req'[s])
  BY <1>1 DEF DecisionInv
<1>3. Fixed'
  BY DEF DecisionInv, Fixed, route
<1>4. QED
  BY <1>2, <1>3 DEF DecisionInv

(* The same for a step that leaves the engine alone. *)
LEMMA PutQuietly ==
  ASSUME DecisionInv, UNCHANGED << conf, timer, vmMu, flag >>, NEW r \in Requests, NEW d, DOMAIN d = Fields,
         req' = [req EXCEPT ![r] = d], LookOK(conf, d), DirectOK(conf, d),
         d.pc \in {"eval", "stop"} => req[r].pc \in {"eval", "stop"}
  PROVE  DecisionInv'
<1>1. LockInv'
  BY PutLock DEF DecisionInv
<1>2. QED
  BY <1>1, PutRequest

LEMMA RequestFacts ==
  ASSUME DecisionInv, NEW r \in Requests
  PROVE  /\ DOMAIN req[r] = Fields /\ LookOK(conf, req[r]) /\ DirectOK(conf, req[r])
         /\ Fixed /\ route = BuildWproxy(conf) /\ conf \in Configs /\ route # Error
         /\ req[r].pc \notin {"idle", "done"} => req[r].t \in Targets /\ req[r].conn = NoIP
BY DEF DecisionInv, LockInv, Shaped, Fixed, route, LookOK

LEMMA IdleShape ==
  /\ DOMAIN Idle = Fields /\ Idle.pc = "idle" /\ Idle.said = <<>> /\ Idle.look = NoLook /\ Idle.conn = NoIP
  /\ Idle.out = <<>>
BY DEF Idle, Fields

(* <<Direct>> for a reason. *)
LEMMA DirectAllowable ==
  ASSUME NEW c, NEW t, NEW look, NEW result, Reason(c, t, look, result)
  PROVE  Allowable(c, t, look, result, << Direct >>)
BY JustDirect DEF Allowable

LEMMA ErrorAllowable ==
  ASSUME NEW c, NEW t, NEW look, NEW result PROVE Allowable(c, t, look, result, Error)
BY DEF Allowable

LEMMA FindProxyInv ==
  ASSUME DecisionInv, NEW r \in Requests, FindProxyForURL(r)
  PROVE  DecisionInv'
<1>1. PICK t \in Targets \cup {BadTarget} :
        req' = [req EXCEPT ![r] =
          IF t = BadTarget THEN Decided([Idle EXCEPT !.t = t], Error)
          ELSE IF route.mode = "none" \/ BypassedByName(t) THEN Decided([Idle EXCEPT !.t = t], << Direct >>)
          ELSE [[Idle EXCEPT !.t = t] EXCEPT !.pc = IF NeedsLookup(t) THEN "lookup" ELSE "route"]]
  BY DEF FindProxyForURL
<1>2. UNCHANGED << conf, timer, vmMu, flag >>
  BY DEF FindProxyForURL
<1> DEFINE q == [Idle EXCEPT !.t = t]
<1>3. DOMAIN q = Fields /\ q.t = t /\ q.said = <<>> /\ q.look = NoLook /\ q.conn = NoIP
  BY IdleShape DEF Fields
<1> HIDE DEF q
<1>4. CASE t = BadTarget
  <2> DEFINE d == Decided(q, Error)
  <2>1. req' = [req EXCEPT ![r] = d]
    BY <1>1, <1>4 DEF q
  <2>2. /\ DOMAIN d = Fields /\ d.pc = "done"
        /\ d.said = q.said /\ d.look = q.look /\ d.conn = q.conn
        /\ DirectOK(conf, d)
    BY <1>3, DecidedRight, ErrorAllowable
  <2> HIDE DEF d
  <2>3. LookOK(conf, d)
    BY <1>3, <2>2, LookFresh
  <2>4. QED
    BY <1>2, <2>1, <2>2, <2>3, PutQuietly
<1>5. CASE t # BadTarget /\ (route.mode = "none" \/ BypassedByName(t))
  <2> DEFINE d == Decided(q, << Direct >>)
  <2>1. req' = [req EXCEPT ![r] = d]
    BY <1>1, <1>5 DEF q
  <2>2. Reason(conf, t, q.look, q.result)
    BY <1>5 DEF Reason, Named, BypassedByName, HostMatchesNoProxy, InNoProxy, route
  <2>3. Allowable(conf, q.t, q.look, q.result, << Direct >>)
    BY <1>3, <2>2, DirectAllowable
  <2>4. /\ DOMAIN d = Fields /\ d.pc \in {"dial", "done"}
        /\ d.t = q.t /\ d.said = q.said /\ d.look = q.look /\ d.conn = q.conn
        /\ DirectOK(conf, d)
    BY <1>3, <2>3, DecidedRight, SMTT(30)
  <2> HIDE DEF d
  <2>5. t \in Targets
    BY <1>5
  <2>6. LookOK(conf, d)
    BY <1>3, <2>4, <2>5, LookFresh
  <2>7. QED
    BY <1>2, <2>1, <2>4, <2>6, PutQuietly
<1>6. CASE t # BadTarget /\ ~(route.mode = "none" \/ BypassedByName(t))
  <2> DEFINE pc == IF NeedsLookup(t) THEN "lookup" ELSE "route"
             d == [q EXCEPT !.pc = pc]
  <2>1. req' = [req EXCEPT ![r] = d]
    BY <1>1, <1>6 DEF q
  <2>2. pc \in {"lookup", "route"}
    OBVIOUS
  <2> HIDE DEF pc
  <2>3. DOMAIN d = Fields /\ d.pc = pc /\ d.t = t /\ d.said = <<>> /\ d.look = NoLook /\ d.conn = NoIP
    BY <1>3 DEF Fields
  <2> HIDE DEF d
  <2>4. LookOK(conf, d)
    BY <1>6, <2>3, LookFresh
  <2>5. DirectOK(conf, d)
    BY <2>2, <2>3, Undecided
  <2>6. QED
    BY <1>2, <2>1, <2>2, <2>3, <2>4, <2>5, PutQuietly
<1>7. QED
  BY <1>4, <1>5, <1>6
(* The lookup for the no-proxy addresses: a failed one is no reason. *)
LEMMA IsNoProxyInv ==
  ASSUME DecisionInv, NEW r \in Requests, IsNoProxy(r)
  PROVE  DecisionInv'
<1>1. req[r].pc = "lookup" /\ UNCHANGED << conf, timer, vmMu, flag >>
  BY DEF IsNoProxy
<1>2. PICK q \in Lookup(r) :
        req' = [req EXCEPT ![r] =
          IF \E i \in DOMAIN q.look.ips : InNoProxy(q.look.ips[i])
          THEN Decided([q EXCEPT !.said = <<>>], << Direct >>) ELSE [q EXCEPT !.pc = "route"]]
  BY DEF IsNoProxy
<1>3. /\ DOMAIN req[r] = Fields /\ Fixed /\ req[r].t \in Targets /\ req[r].conn = NoIP
      /\ route = BuildWproxy(conf)
  BY <1>1, RequestFacts
<1> DEFINE eps == Resolves(conf.policy, q.t.host).eps
<1>4. /\ DOMAIN q = Fields /\ q.t = req[r].t /\ q.conn = req[r].conn
      /\ Bound(conf, q.t) =>
           /\ q.look.by = "endpoint"
           /\ q.said # <<>> => /\ eps \in Seq(STRING) /\ eps # <<>>
                               /\ q.said \in [DOMAIN eps -> Answers] /\ q.cut \in 0..Len(eps)
                               /\ q.look = Endpoints(eps, q.said, q.cut)
  BY <1>3, LookedUp
<1>5. CASE \E i \in DOMAIN q.look.ips : InNoProxy(q.look.ips[i])
  <2> DEFINE p == [q EXCEPT !.said = <<>>]
             d == Decided(p, << Direct >>)
  <2>1. req' = [req EXCEPT ![r] = d]
    BY <1>2, <1>5
  <2>2. /\ DOMAIN p = Fields /\ p.t = q.t /\ p.look = q.look /\ p.said = <<>> /\ p.conn = NoIP
        /\ p.result = q.result
    BY <1>3, <1>4 DEF Fields
  <2> HIDE DEF p
  <2>3. Range(q.look.ips) \cap BuildWproxy(conf).ips # {}
    BY <1>3, <1>5 DEF InNoProxy, Range
  <2>4. Allowable(conf, p.t, p.look, p.result, << Direct >>)
    BY <2>2, <2>3, DirectAllowable DEF Reason
  <2>5. /\ DOMAIN d = Fields /\ d.pc \in {"dial", "done"}
        /\ d.t = p.t /\ d.said = p.said /\ d.look = p.look /\ d.conn = p.conn
        /\ DirectOK(conf, d)
    BY <2>2, <2>4, DecidedRight, SMTT(30)
  <2> HIDE DEF d
  <2>6. LookOK(conf, d)
    BY <1>3, <1>4, <2>2, <2>5 DEF LookOK, Heard
  <2>7. QED
    BY <1>1, <2>1, <2>5, <2>6, PutQuietly
<1>6. CASE ~\E i \in DOMAIN q.look.ips : InNoProxy(q.look.ips[i])
  <2> DEFINE d == [q EXCEPT !.pc = "route"]
  <2>1. req' = [req EXCEPT ![r] = d]
    BY <1>2, <1>6
  <2>2. /\ DOMAIN d = Fields /\ d.pc = "route" /\ d.t = q.t /\ d.said = q.said /\ d.cut = q.cut
        /\ d.look = q.look /\ d.conn = NoIP
    BY <1>3, <1>4 DEF Fields
  <2> HIDE DEF d
  <2>3. LookOK(conf, d)
    BY <1>3, <1>4, <2>2 DEF LookOK, Heard
  <2>4. DirectOK(conf, d)
    BY <2>2, Undecided
  <2>5. QED
    BY <1>1, <2>1, <2>2, <2>3, <2>4, PutQuietly
<1>7. QED
  BY <1>5, <1>6

LEMMA RouteStaticInv ==
  ASSUME DecisionInv, NEW r \in Requests, RouteStatic(r)
  PROVE  DecisionInv'
<1> DEFINE q == req[r]
           out == StaticServers(q.t)
           d == Decided(q, out)
<1>1. /\ q.pc = "route" /\ route.mode \in {"env", "manual", "config"}
      /\ UNCHANGED << conf, timer, vmMu, flag >>
  BY DEF RouteStatic
<1>2. req' = [req EXCEPT ![r] = d]
  BY DEF RouteStatic, DecisionInv, LockInv, Shaped
<1>3. DOMAIN q = Fields /\ LookOK(conf, q) /\ conf \in Configs /\ route # Error
  BY RequestFacts
<1>4. Allowable(conf, q.t, q.look, q.result, out)
  BY <1>1, <1>3, StaticAllowable
<1> HIDE DEF q, out
<1>5. /\ DOMAIN d = Fields /\ d.pc \in {"dial", "done"}
      /\ d.t = q.t /\ d.said = q.said /\ d.cut = q.cut /\ d.look = q.look /\ d.conn = q.conn
      /\ DirectOK(conf, d)
  BY <1>3, <1>4, DecidedRight, SMTT(30)
<1> HIDE DEF d
<1> USE DEF q
<1>6. LookOK(conf, d)
  BY <1>1, <1>3, <1>5, LookKept
<1>7. QED
  BY <1>1, <1>2, <1>5, <1>6, PutQuietly

LEMMA RouteSystemInv ==
  ASSUME DecisionInv, NEW r \in Requests, RouteSystem(r)
  PROVE  DecisionInv'
<1>1. /\ req[r].pc = "route" /\ route.mode \in {"auto", "pac"}
      /\ UNCHANGED << conf, timer, vmMu, flag >>
  BY DEF RouteSystem
<1>2. PICK result \in SystemResults :
        req' = [req EXCEPT ![r] = Decided([req[r] EXCEPT !.result = result], SystemServers(result))]
  BY DEF RouteSystem, DecisionInv, LockInv, Shaped
<1> DEFINE p == [req[r] EXCEPT !.result = result]
           out == SystemServers(result)
           d == Decided(p, out)
<1>3. DOMAIN req[r] = Fields /\ LookOK(conf, req[r]) /\ route = BuildWproxy(conf)
  BY RequestFacts
<1>4. /\ DOMAIN p = Fields /\ p.result = result /\ p.t = req[r].t /\ p.said = req[r].said /\ p.cut = req[r].cut
      /\ p.look = req[r].look /\ p.conn = req[r].conn
  BY <1>3 DEF Fields
<1>5. req' = [req EXCEPT ![r] = d]
  BY <1>2
<1> HIDE DEF p
<1>6. Allowable(conf, p.t, p.look, p.result, out)
  BY <1>1, <1>3, <1>4, SystemAllowable, SMTT(30)
<1> HIDE DEF out
<1>7. /\ DOMAIN d = Fields /\ d.pc \in {"dial", "done"}
      /\ d.t = p.t /\ d.said = p.said /\ d.cut = p.cut /\ d.look = p.look /\ d.conn = p.conn
      /\ DirectOK(conf, d)
  BY <1>4, <1>6, DecidedRight, SMTT(30)
<1> HIDE DEF d
<1>8. LookOK(conf, d)
  BY <1>1, <1>3, <1>4, <1>7, LookKept
<1>9. QED
  BY <1>1, <1>5, <1>7, <1>8, PutQuietly

LEMMA LockVMInv ==
  ASSUME DecisionInv, NEW r \in Requests, LockVM(r)
  PROVE  DecisionInv'
<1> DEFINE d == [req[r] EXCEPT !.pc = "eval"]
<1>1. req[r].pc = "route" /\ conf' = conf /\ req' = [req EXCEPT ![r] = d]
  BY DEF LockVM
<1>2. DOMAIN req[r] = Fields /\ LookOK(conf, req[r]) /\ BuildWproxy(conf).mode = "configPAC"
  BY RequestFacts DEF LockVM
<1>3. /\ DOMAIN d = Fields /\ d.pc = "eval" /\ d.t = req[r].t /\ d.said = req[r].said /\ d.cut = req[r].cut
      /\ d.look = req[r].look /\ d.conn = req[r].conn
  BY <1>2 DEF Fields
<1> HIDE DEF d
<1>4. LookOK(conf, d) /\ DirectOK(conf, d)
  BY <1>1, <1>2, <1>3, LookKept DEF DirectOK
<1>5. LockInv'
  BY LockVMLock DEF DecisionInv
<1>6. QED
  BY <1>1, <1>3, <1>4, <1>5, PutRequest

LEMMA ScriptInv ==
  ASSUME DecisionInv, NEW r \in Requests, ScriptReturns(r) \/ ScriptInterrupted(r)
  PROVE  DecisionInv'
<1>1. req[r].pc = "eval" /\ UNCHANGED << conf, timer, vmMu, flag >>
  BY DEF ScriptReturns, ScriptInterrupted
<1>2. DOMAIN req[r] = Fields /\ LookOK(conf, req[r]) /\ BuildWproxy(conf).mode = "configPAC"
  BY <1>1, RequestFacts DEF DirectOK
<1>3. PICK result \in Scripts \cup {Error} : req' = [req EXCEPT ![r] = [req[r] EXCEPT !.pc = "stop", !.result = result]]
  BY DEF ScriptReturns, ScriptInterrupted, DecisionInv, LockInv, Shaped
<1> DEFINE d == [req[r] EXCEPT !.pc = "stop", !.result = result]
<1>4. /\ DOMAIN d = Fields /\ d.pc = "stop" /\ d.result = result
      /\ d.t = req[r].t /\ d.said = req[r].said /\ d.cut = req[r].cut
      /\ d.look = req[r].look /\ d.conn = req[r].conn
  BY <1>2 DEF Fields
<1>5. req' = [req EXCEPT ![r] = d]
  BY <1>3
<1> HIDE DEF d
<1>6. LookOK(conf, d)
  BY <1>1, <1>2, <1>4, LookKept
<1>7. DirectOK(conf, d)
  BY <1>2, <1>4 DEF DirectOK
<1>8. QED
  BY <1>1, <1>4, <1>5, <1>6, <1>7, PutQuietly

LEMMA TimersInv ==
  ASSUME DecisionInv, NEW r \in Requests, TimerStarts(r) \/ Interrupt(r)
  PROVE  DecisionInv'
<1>1. LockInv'
  BY TimersLock DEF DecisionInv
<1>2. conf' = conf /\ req' = req
  BY DEF TimerStarts, Interrupt
<1>3. QED
  BY <1>1, <1>2 DEF DecisionInv, Fixed, route

LEMMA StopTimerInv ==
  ASSUME DecisionInv, NEW r \in Requests, StopTimer(r)
  PROVE  DecisionInv'
<1> DEFINE q == req[r]
           out == PacServers(q.result)
           d == Decided(q, out)
<1>1. q.pc = "stop" /\ conf' = conf
  BY DEF StopTimer
<1>2. req' = [req EXCEPT ![r] = d]
  BY DEF StopTimer, DecisionInv, LockInv, Shaped
<1>3. DOMAIN q = Fields /\ LookOK(conf, q) /\ DirectOK(conf, q) /\ route = BuildWproxy(conf)
  BY RequestFacts
<1>4. q.result \in Scripts \cup {Error} /\ BuildWproxy(conf).mode = "configPAC"
  BY <1>1, <1>3 DEF DirectOK
<1>5. Allowable(conf, q.t, q.look, q.result, out)
  BY <1>3, <1>4, PacAllowable
<1> HIDE DEF q, out
<1>6. /\ DOMAIN d = Fields /\ d.pc \in {"dial", "done"}
      /\ d.t = q.t /\ d.said = q.said /\ d.cut = q.cut /\ d.look = q.look /\ d.conn = q.conn
      /\ DirectOK(conf, d)
  BY <1>3, <1>5, DecidedRight, SMTT(30)
<1> HIDE DEF d
<1> USE DEF q
<1>7. LookOK(conf, d)
  BY <1>1, <1>3, <1>6, LookKept
<1>8. LockInv'
  BY <1>2, <1>6, StopTimerLock DEF DecisionInv
<1>9. QED
  BY <1>1, <1>2, <1>6, <1>7, <1>8, PutRequest
(* The dial that follows a decision for DIRECT. *)
LEMMA DialInv ==
  ASSUME DecisionInv, NEW r \in Requests, Dial(r)
  PROVE  DecisionInv'
<1> DEFINE t == req[r].t
<1>1. req[r].pc = "dial" /\ UNCHANGED << conf, timer, vmMu, flag >>
  BY DEF Dial
<1>2. /\ DOMAIN req[r] = Fields /\ Fixed /\ DirectOK(conf, req[r]) /\ t \in Targets /\ req[r].conn = NoIP
  BY <1>1, RequestFacts
<1>3. req[r].out \notin {Error, <<>>} /\ Head(req[r].out) = Direct
  BY <1>1, <1>2 DEF DirectOK
<1>4. CASE DialsByName(conf.policy, t.host)
  <2> DEFINE look == IF t.host.ip = NoIP THEN OsVerdict(<<>>) ELSE Literal(t.host)
             d == [req[r] EXCEPT !.pc = "done", !.look = look]
  <2>1. req' = [req EXCEPT ![r] = d]
    BY <1>4 DEF Dial, DecisionInv, LockInv, Shaped
  <2> HIDE DEF look
  <2>2. DOMAIN d = Fields /\ d.pc = "done" /\ d.t = t /\ d.out = req[r].out
    BY <1>2 DEF Fields
  <2> HIDE DEF d
  <2>3. ~Bound(conf, t)
    BY <1>4 DEF DialsByName, Bound, Resolves
  <2>4. LookOK(conf, d) /\ DirectOK(conf, d)
    BY <1>3, <2>2, <2>3 DEF LookOK, DirectOK
  <2>5. QED
    BY <1>1, <2>1, <2>2, <2>4, PutQuietly
<1>5. CASE ~DialsByName(conf.policy, t.host)
  <2>1. PICK up \in SUBSET (V4 \cup V6), q \in Lookup(r) :
          req' = [req EXCEPT ![r] = [q EXCEPT !.pc = "done", !.conn = FirstUp(q.look.ips, up)]]
    BY <1>5 DEF Dial
  <2> DEFINE conn == FirstUp(q.look.ips, up)
             d == [q EXCEPT !.pc = "done", !.conn = conn]
             eps == Resolves(conf.policy, q.t.host).eps
  <2>2. /\ DOMAIN q = Fields /\ q.t = t /\ q.out = req[r].out
        /\ Bound(conf, q.t) =>
             /\ q.look.by = "endpoint" /\ IsList(q.look.ips)
             /\ q.said # <<>> => /\ eps \in Seq(STRING) /\ eps # <<>>
                                 /\ q.said \in [DOMAIN eps -> Answers] /\ q.cut \in 0..Len(eps)
                                 /\ q.look = Endpoints(eps, q.said, q.cut)
    BY <1>2, LookedUp
  <2>3. req' = [req EXCEPT ![r] = d]
    BY <2>1
  <2>4. Bound(conf, q.t) => (conn # NoIP => conn \in Range(q.look.ips))
    BY <2>2, FirstUpFound
  <2> HIDE DEF conn
  <2>5. /\ DOMAIN d = Fields /\ d.pc = "done" /\ d.t = q.t /\ d.out = q.out /\ d.said = q.said /\ d.cut = q.cut
        /\ d.look = q.look /\ d.conn = conn
    BY <2>2 DEF Fields
  <2> HIDE DEF d
  <2>6. LookOK(conf, d)
    BY <2>2, <2>4, <2>5 DEF LookOK, Heard
  <2>7. DirectOK(conf, d)
    BY <1>3, <2>2, <2>5 DEF DirectOK
  <2>8. QED
    BY <1>1, <2>3, <2>5, <2>6, <2>7, PutQuietly
<1>6. QED
  BY <1>4, <1>5

LEMMA ReturnInv ==
  ASSUME DecisionInv, NEW r \in Requests, Return(r)
  PROVE  DecisionInv'
<1>1. req' = [req EXCEPT ![r] = Idle] /\ UNCHANGED << conf, timer, vmMu, flag >>
  BY DEF Return
<1>2. LookOK(conf, Idle) /\ DirectOK(conf, Idle)
  BY IdleShape, LookFresh, Undecided
<1>3. QED
  BY <1>1, <1>2, IdleShape, PutQuietly

LEMMA DecisionInit == Init => DecisionInv
<1> SUFFICES ASSUME Init PROVE DecisionInv
  OBVIOUS
<1>1. Fixed
  BY DEF Init, Fixed
<1>2. req = [r \in Requests |-> Idle] /\ \A r \in Requests : req[r] = Idle
  BY DEF Init
<1>3. Shaped
  BY <1>2, IdleShape DEF Shaped
<1>4. Holder
  BY <1>2, IdleShape DEF Init, Holder, InterruptIsolated
<1>5. LookOK(conf, Idle) /\ DirectOK(conf, Idle)
  BY IdleShape, LookFresh, Undecided
<1>6. QED
  BY <1>1, <1>2, <1>3, <1>4, <1>5 DEF DecisionInv, LockInv

LEMMA DecisionNext == DecisionInv /\ [Next]_vars => DecisionInv'
<1> SUFFICES ASSUME DecisionInv, [Next]_vars PROVE DecisionInv'
  OBVIOUS
<1>1. CASE UNCHANGED vars
  BY <1>1 DEF vars, DecisionInv, Fixed, route, LockInv, Shaped, Holder, InterruptIsolated
<1>2. ASSUME NEW r \in Requests,
             \/ FindProxyForURL(r) \/ IsNoProxy(r) \/ RouteStatic(r) \/ RouteSystem(r)
             \/ LockVM(r) \/ ScriptReturns(r) \/ ScriptInterrupted(r)
             \/ TimerStarts(r) \/ Interrupt(r) \/ StopTimer(r) \/ Dial(r) \/ Return(r)
      PROVE  DecisionInv'
  BY <1>2, FindProxyInv, IsNoProxyInv, RouteStaticInv, RouteSystemInv, LockVMInv, ScriptInv,
     TimersInv, StopTimerInv, DialInv, ReturnInv
<1>3. QED
  BY <1>1, <1>2 DEF Next

LEMMA DecisionAlways == Spec => []DecisionInv
BY DecisionInit, DecisionNext, PTL DEF Spec

-----------------------------------------------------------------------------
(* An interrupt that is pending in the JavaScript engine belongs to the    *)
(* request that holds it, whose own time is up: the timer of an evaluation *)
(* that is over never stops another (runPACBounded), for any number of     *)
(* requests.                                                               *)
THEOREM InterruptsAreOwn == Spec => []InterruptIsolated
<1>1. DecisionInv => InterruptIsolated
  BY DEF DecisionInv, LockInv, Holder
<1>2. QED
  BY DecisionAlways, <1>1, PTL

(* DIRECT is never the outcome of a failure: it has one of the reasons     *)
(* that NoImplicitDirect lists (FindProxyForURL, NormalizeResult,          *)
(* ParseProxy), for all configurations, scripts and system results.        *)
THEOREM DirectIsExplicit == Spec => []NoImplicitDirect
<1>1. ASSUME DecisionInv, NEW r \in Requests, DirectOK(conf, req[r])
      PROVE  LET q == req[r]
                 items(list) == {x \in Range(list) : ~Blank(x)}
                 lists == IF route.mode = "env" THEN [s \in {"http", "https", "all"} |-> conf.env[s]]
                          ELSE conf.sys.manual
                 own == IF q.t.scheme \in DOMAIN lists THEN items(lists[q.t.scheme]) ELSE {}
                 listed == IF own # {} THEN own ELSE items(lists["all"])
             IN listed = Listed(conf, q.t)
  BY DEF Listed, SchemeLists, Own, Items, route
<1>2. DecisionInv => NoImplicitDirect
  <2> SUFFICES ASSUME DecisionInv PROVE NoImplicitDirect
    OBVIOUS
  <2>1. \A r \in Requests : DirectOK(conf, req[r])
    BY DEF DecisionInv
  <2>2. \A t : Named(conf, t) <=> BypassedByName(t)
    BY DEF Named, BypassedByName, HostMatchesNoProxy, InNoProxy, route
  <2>3. QED
    BY <1>1, <2>1, <2>2, ZenonT(30) DEF NoImplicitDirect, DirectOK, Reason, Distinct, route
<1>3. QED
  BY DecisionAlways, <1>2, PTL

(* A lookup under explicit endpoints never goes to the operating system,   *)
(* ends with the first endpoint that settles it, and returns only what     *)
(* that one said, with a TTL no record exceeds (LookupIPTTL, lookupEndpoint, *)
(* parseResponseTTL), for any endpoints, answers and cancellations.        *)
THEOREM LookupsAreSound == Spec => []LookupSound
<1>1. ASSUME NEW c, NEW q, LookOK(c, q), q.pc # "idle", Bound(c, q.t),
             NEW eps, eps = Resolves(c.policy, q.t.host).eps
      PROVE  /\ q.look.by # "os"
             /\ q.said # <<>> => SoundLook(eps, q.said, q.cut, q.look)
             /\ q.conn # NoIP => q.conn \in Range(q.look.ips)
  <2>1. Heard(eps, q)
    BY <1>1 DEF LookOK
  <2>2. q.look.by # "os" /\ (q.conn # NoIP => q.conn \in Range(q.look.ips))
    BY <2>1 DEF Heard
  <2>3. ASSUME q.said # <<>> PROVE SoundLook(eps, q.said, q.cut, q.look)
    <3>1. /\ eps \in Seq(STRING) /\ eps # <<>> /\ q.said \in [DOMAIN eps -> Answers] /\ q.cut \in 0..Len(eps)
          /\ q.look = Endpoints(eps, q.said, q.cut)
      BY <2>1, <2>3 DEF Heard
    <3>2. QED
      BY <3>1, HeardSound, Zenon
  <2>4. QED
    BY <2>2, <2>3
<1>2. DecisionInv => LookupSound
  <2> SUFFICES ASSUME DecisionInv PROVE LookupSound
    OBVIOUS
  <2>1. \A r \in Requests : LookOK(conf, req[r])
    BY DEF DecisionInv
  <2> DEFINE Body(q, eps) ==
        /\ q.look.by # "os"
        /\ q.said # <<>> => SoundLook(eps, q.said, q.cut, q.look)
        /\ q.conn # NoIP => q.conn \in Range(q.look.ips)
  <2>2. ASSUME NEW r \in Requests, req[r].pc # "idle", Bound(conf, req[r].t)
        PROVE  Body(req[r], Resolves(conf.policy, req[r].t.host).eps)
    BY <1>1, <2>1, <2>2, Zenon
  <2>3. LookupSound <=> \A r \in Requests : req[r].pc # "idle" /\ Bound(conf, req[r].t) =>
                          Body(req[r], Resolves(conf.policy, req[r].t.host).eps)
    BY Zenon DEF LookupSound, Bound, SoundLook, Settling, Records
  <2> HIDE DEF Body
  <2>4. QED
    BY <2>2, <2>3
<1>3. QED
  BY DecisionAlways, <1>2, PTL
=============================================================================
