-------------------------- MODULE SupervisorProofs --------------------------
(* Proofs about Supervisor, for any number of reporters and proxies, any   *)
(* thresholds and windows, and any delay between clock and mutex; and, at  *)
(* the end, about Kerberos, the ticket manager it makes check.             *)
EXTENDS Supervisor, Kerberos, FiniteSetTheorems, TLAPS

(* The supervisor's bookkeeping of its goroutines: an action is in flight  *)
(* exactly when one goroutine executes it.                                 *)
Bookkeeping ==
  \A a \in Actions : running[a] = IF a \in inflight THEN 1 ELSE 0

(* What the window of internal failures has counted: the last failures of  *)
(* the history, all within the window of its start, stale readings apart.  *)
CountedBurst ==
  /\ internal.start <= now
  /\ internal.failures <= Len(panics)
  /\ \A i \in (Len(panics) - internal.failures + 1)..Len(panics) :
       /\ panics[i] <= internal.start + InternalWindow
       /\ internal.start <= panics[i] + MaxDelay

(* The inductive invariant. *)
IInv ==
  /\ TypeOK /\ Bookkeeping /\ QuietAfterClose /\ CoolingIsBounded
  /\ CountedBurst /\ FatalNeedsBurst

-----------------------------------------------------------------------------
(* Whatever the backoff level, a cooldown is at most maxCooldown. *)
LEMMA CooldownType ==
  ASSUME NEW level
  PROVE  Cooldown(level) \in 0..MaxCooldown
  BY SupervisorAssumption DEF Cooldown

(* A reading of the clock is a time that has come. *)
LEMMA ReadingsArePast ==
  ASSUME now \in Nat, NEW t \in Readings
  PROVE  t \in Nat /\ t <= now
  BY DEF Readings

(* The entry of a proxy after a failure. *)
LEMMA FailedEntry ==
  ASSUME TypeOK, CoolingIsBounded, NEW k \in Proxies, NEW t \in Readings
  PROVE  Failed(k, t) \in Health /\ Failed(k, t).until <= now + MaxCooldown
<1>1. t \in Nat /\ t <= now /\ now \in Nat
  BY ReadingsArePast DEF TypeOK
<1>2. MaxBackoff \in Nat /\ MaxCooldown \in Nat /\ sequence \in Nat
  BY SupervisorAssumption DEF TypeOK
<1> DEFINE e == Refreshed(k, t)
           level == IF e.level < MaxBackoff THEN e.level + 1 ELSE e.level
<1>3. e \in Health /\ e.until <= now + MaxCooldown
  BY <1>1, <1>2 DEF TypeOK, HealthOK, CoolingIsBounded, Refreshed, NewEntry, Health
<1>4. level \in 0..MaxBackoff
  BY <1>2, <1>3 DEF Health
<1>5. Cooldown(level) \in Nat /\ Cooldown(level) <= MaxCooldown
  BY <1>2, CooldownType
<1>6. CASE e.failures + 1 < LocalThreshold
  <2>1. Failed(k, t) = [failures |-> e.failures + 1, level |-> e.level,
                        until |-> e.until, seq |-> sequence + 1]
    BY <1>6 DEF Failed
  <2> QED
    BY <1>1, <1>2, <1>3, <2>1 DEF Health
<1>7. CASE ~(e.failures + 1 < LocalThreshold)
  <2>1. Failed(k, t) = [failures |-> e.failures + 1, level |-> level,
                        until |-> t + Cooldown(level), seq |-> sequence + 1]
    BY <1>7 DEF Failed
  <2> HIDE DEF level
  <2> QED
    BY <1>1, <1>2, <1>3, <1>4, <1>5, <2>1 DEF Health
<1> QED
  BY <1>6, <1>7

(* evictOldestHealthLocked makes room for the entry of k. *)
LEMMA RoomForEntry ==
  ASSUME TypeOK, NEW k \in Proxies, NEW kept \in Room(k)
  PROVE  /\ kept \subseteq DOMAIN health
         /\ IsFiniteSet(kept \cup {k})
         /\ Cardinality(kept \cup {k}) <= MaxHealth
<1>1. /\ IsFiniteSet(DOMAIN health)
      /\ Cardinality(DOMAIN health) \in Nat
      /\ Cardinality(DOMAIN health) <= MaxHealth
      /\ MaxHealth \in Nat
  BY FS_CardinalityType, SupervisorAssumption DEF TypeOK, HealthOK
<1>2. CASE k \in DOMAIN health
  <2>1. kept = DOMAIN health /\ kept \cup {k} = DOMAIN health
    BY <1>2 DEF Room
  <2> QED
    BY <1>1, <2>1
<1>3. CASE k \notin DOMAIN health /\ Cardinality(DOMAIN health) < MaxHealth
  <2>1. kept = DOMAIN health
    BY <1>3 DEF Room
  <2>2. /\ IsFiniteSet(kept \cup {k})
        /\ Cardinality(kept \cup {k}) = Cardinality(kept) + 1
    BY <1>1, <1>3, <2>1, FS_AddElement
  <2> QED
    BY <1>1, <1>3, <2>1, <2>2
<1>4. CASE k \notin DOMAIN health /\ ~(Cardinality(DOMAIN health) < MaxHealth)
  <2>1. PICK v \in DOMAIN health : kept = DOMAIN health \ {v}
    BY <1>4 DEF Room
  <2>2. /\ IsFiniteSet(kept)
        /\ Cardinality(kept) = Cardinality(DOMAIN health) - 1
    BY <1>1, <2>1, FS_RemoveElement
  <2>3. /\ IsFiniteSet(kept \cup {k})
        /\ Cardinality(kept \cup {k}) = Cardinality(kept) + 1
    BY <1>4, <2>1, <2>2, FS_AddElement
  <2> QED
    BY <1>1, <2>1, <2>2, <2>3
<1> QED
  BY <1>2, <1>3, <1>4

-----------------------------------------------------------------------------
(* The steps that leave the history of internal failures alone keep what   *)
(* is known of it.                                                         *)
LEMMA BurstUnchanged ==
  ASSUME TypeOK, CountedBurst, FatalNeedsBurst, UNCHANGED fatalVars,
         now' = now \/ now' = now + 1
  PROVE  CountedBurst' /\ FatalNeedsBurst'
<1>1. CountedBurst'
  BY DEF CountedBurst, fatalVars, TypeOK
<1>2. FatalNeedsBurst'
  BY DEF FatalNeedsBurst, fatalVars
<1> QED
  BY <1>1, <1>2

(* The initial state satisfies the invariant. *)
LEMMA InitIInv == Init => IInv
<1> SUFFICES ASSUME Init PROVE IInv
  OBVIOUS
<1>1. DOMAIN health = {} /\ IsFiniteSet({}) /\ Cardinality({}) = 0
  BY FS_EmptySet DEF Init, NoHealth
<1>6. HealthOK
  BY <1>1, SupervisorAssumption DEF HealthOK
<1>7. correlated \in [start : Nat, count : Nat, proxies : SUBSET Proxies]
  BY DEF Init, NoWindow
<1>8. panics \in Seq(Nat) /\ todo \in [Reporters -> Seq(Actions)]
  BY DEF Init
<1>9. internal \in [start : Nat, failures : Nat] /\ running \in [Actions -> Nat]
  BY DEF Init
<1>2. TypeOK
  BY <1>6, <1>7, <1>8, <1>9 DEF Init, TypeOK
<1>3. Bookkeeping /\ QuietAfterClose
  BY DEF Init, Bookkeeping, QuietAfterClose
<1>4. CoolingIsBounded
  BY <1>1 DEF CoolingIsBounded
<1>5. CountedBurst /\ FatalNeedsBurst
  BY SupervisorAssumption DEF Init, CountedBurst, FatalNeedsBurst
<1> QED
  BY <1>2, <1>3, <1>4, <1>5 DEF IInv

(* An epoch, and ResetTransient, forget the health of all proxies. *)
LEMMA EmptyHealth ==
  ASSUME health' = NoHealth
  PROVE  HealthOK' /\ CoolingIsBounded'
<1>1. DOMAIN health' = {}
  BY DEF NoHealth
<1>2. IsFiniteSet(DOMAIN health') /\ Cardinality(DOMAIN health') = 0
  BY <1>1, FS_EmptySet
<1> QED
  BY <1>1, <1>2, SupervisorAssumption DEF HealthOK, CoolingIsBounded

(* Dropping entries keeps the health map well formed. *)
LEMMA SmallerHealth ==
  ASSUME TypeOK, CoolingIsBounded, NEW S \in SUBSET (DOMAIN health),
         health' = [k \in S |-> health[k]], now' = now
  PROVE  HealthOK' /\ CoolingIsBounded'
<1>1. DOMAIN health' = S
  OBVIOUS
<1>2. IsFiniteSet(S) /\ Cardinality(S) <= Cardinality(DOMAIN health)
  BY FS_Subset DEF TypeOK, HealthOK
<1>3. Cardinality(S) \in Nat /\ Cardinality(DOMAIN health) \in Nat /\ MaxHealth \in Nat
  BY <1>2, FS_CardinalityType, SupervisorAssumption DEF TypeOK, HealthOK
<1> QED
  BY <1>1, <1>2, <1>3 DEF TypeOK, HealthOK, CoolingIsBounded

(* A success of a proxy forgets its failures. *)
LEMMA SuccessIInv ==
  ASSUME IInv, NEW r \in Requests, NEW k \in Proxies, ReportSuccess(r, k)
  PROVE  IInv'
<1> USE DEF ReportSuccess, Reports
<1>1. CountedBurst' /\ FatalNeedsBurst'
  BY BurstUnchanged DEF IInv
<1>2. DOMAIN health \ {k} \in SUBSET (DOMAIN health)
  OBVIOUS
<1>3. HealthOK' /\ CoolingIsBounded'
  BY <1>2, SmallerHealth DEF IInv
<1>5. todo' \in [Reporters -> Seq(Actions)]
  BY DEF IInv, TypeOK, Reporters
<1>6. TypeOK'
  BY <1>3, <1>5 DEF IInv, TypeOK, actionVars, fatalVars
<1>4. Bookkeeping' /\ QuietAfterClose'
  BY DEF IInv, Bookkeeping, QuietAfterClose, actionVars
<1> QED
  BY <1>1, <1>3, <1>4, <1>6 DEF IInv

(* The entry made or updated by a failure. *)
LEMMA NewHealth ==
  ASSUME TypeOK, CoolingIsBounded, NEW k \in Proxies, NEW t \in Readings,
         NEW kept \in Room(k), now' = now,
         health' = [h \in kept \cup {k} |-> IF h = k THEN Failed(k, t) ELSE health[h]]
  PROVE  HealthOK' /\ CoolingIsBounded'
<1>1. DOMAIN health' = kept \cup {k}
  OBVIOUS
<1>2. /\ kept \subseteq DOMAIN health
      /\ IsFiniteSet(kept \cup {k})
      /\ Cardinality(kept \cup {k}) <= MaxHealth
  BY RoomForEntry
<1>3. Failed(k, t) \in Health /\ Failed(k, t).until <= now + MaxCooldown
  BY FailedEntry
<1>4. \A h \in DOMAIN health' : health'[h] = Failed(k, t) \/ (h \in DOMAIN health /\ health'[h] = health[h])
  BY <1>1, <1>2
<1>5. HealthOK'
  BY <1>1, <1>2, <1>3, <1>4 DEF TypeOK, HealthOK
<1>6. CoolingIsBounded'
  BY <1>3, <1>4 DEF CoolingIsBounded
<1> QED
  BY <1>5, <1>6

(* What a failure asks for is a sequence of owner actions. *)
LEMMA RecoverySeqs ==
  ASSUME NEW idle \in BOOLEAN, NEW epoch \in BOOLEAN
  PROVE  (IF idle THEN << "CloseIdleTransports" >> ELSE << >>)
           \o (IF epoch THEN NetworkRecovery ELSE << >>) \in Seq(Actions)
<1>1. << >> \in Seq(Actions)
  OBVIOUS
<1>2. << "CloseIdleTransports" >> \in Seq(Actions)
  BY DEF Actions
<1>3. NetworkRecovery \in Seq(Actions)
  BY DEF NetworkRecovery, Actions
<1> QED
  BY <1>1, <1>2, <1>3

(* A failure penalizes its proxy or starts a network epoch. *)
LEMMA LocalFailureIInv ==
  ASSUME IInv, NEW r \in Requests, NEW k \in Proxies, NEW t \in Readings,
         ReportLocalFailure(r, k, t)
  PROVE  IInv'
<1> USE DEF ReportLocalFailure
<1>1. CountedBurst' /\ FatalNeedsBurst'
  BY BurstUnchanged DEF IInv
<1>2. t \in Nat /\ t <= now
  BY ReadingsArePast DEF IInv, TypeOK
<1>3. HealthOK' /\ CoolingIsBounded'
  <2>1. CASE StartsEpoch(k, t)
    BY <2>1, EmptyHealth DEF StartNetworkEpoch
  <2>2. CASE ~StartsEpoch(k, t)
    BY <2>2, NewHealth DEF IInv
  <2> QED
    BY <2>1, <2>2
<1>4. /\ lastNetworkEpoch' \in Nat
      /\ correlated' \in [start : Nat, count : Nat, proxies : SUBSET Proxies]
  BY <1>2 DEF IInv, TypeOK, StartNetworkEpoch, NoWindow, Observed
<1>5. todo' \in [Reporters -> Seq(Actions)] /\ reported' \in Nat
  <2>1. PICK actions \in Seq(Actions) : Reports(r, actions)
    <3>1. EntersCooling(k, t) \in BOOLEAN /\ StartsEpoch(k, t) \in BOOLEAN
      BY DEF EntersCooling, StartsEpoch
    <3> QED
      BY <3>1, RecoverySeqs
  <2> HIDE DEF ReportLocalFailure
  <2> QED
    BY <2>1 DEF IInv, TypeOK, Reports, Reporters
<1>6. TypeOK'
  BY <1>3, <1>4, <1>5 DEF IInv, TypeOK, actionVars, fatalVars
<1>7. Bookkeeping' /\ QuietAfterClose'
  BY DEF IInv, Bookkeeping, QuietAfterClose, actionVars
<1> QED
  BY <1>1, <1>3, <1>6, <1>7 DEF IInv

(* A request for an owner action touches no state of the supervisor. *)
LEMMA OwnerFailureIInv ==
  ASSUME IInv, NEW r \in Requests, NEW a \in {"RefreshRoute", "RefreshAuth"},
         ReportOwnerFailure(r, a)
  PROVE  IInv'
<1> USE DEF ReportOwnerFailure, healthVars
<1>1. CountedBurst' /\ FatalNeedsBurst'
  BY BurstUnchanged DEF IInv
<1>2. HealthOK' /\ CoolingIsBounded'
  BY DEF IInv, TypeOK, HealthOK, CoolingIsBounded
<1>3. todo' \in [Reporters -> Seq(Actions)] /\ reported' \in Nat
  BY DEF IInv, TypeOK, Reports, Reporters, Actions
<1>4. TypeOK'
  BY <1>2, <1>3 DEF IInv, TypeOK, actionVars, fatalVars
<1>5. Bookkeeping' /\ QuietAfterClose'
  BY DEF IInv, Bookkeeping, QuietAfterClose, actionVars
<1> QED
  BY <1>1, <1>2, <1>4, <1>5 DEF IInv

(* An internal failure counts in the window it falls into.  When the count *)
(* reaches the threshold, the last failures of the history are the burst.  *)
LEMMA InternalFailureIInv ==
  ASSUME IInv, NEW r \in Requests, NEW t \in Readings, ReportInternalFailure(r, t)
  PROVE  IInv'
<1> DEFINE n == PanicsInWindow(t)
           L == Len(panics)
<1>1. t \in Nat /\ t <= now /\ now <= t + MaxDelay /\ now \in Nat
  <2>1. now \in Nat /\ MaxDelay \in Nat
    BY SupervisorAssumption DEF IInv, TypeOK
  <2>2. t \in 1..now /\ t >= now - MaxDelay
    BY DEF Readings
  <2> QED
    BY <2>1, <2>2
<1>2. /\ internal.start \in Nat /\ internal.failures \in Nat
      /\ panics \in Seq(Nat) /\ L \in Nat
      /\ InternalWindow \in Nat /\ MaxDelay \in Nat
      /\ FatalThreshold \in Nat /\ FatalThreshold > 0
  <2>1. internal \in [start : Nat, failures : Nat] /\ panics \in Seq(Nat)
    BY DEF IInv, TypeOK
  <2>2. /\ InternalWindow \in Nat /\ MaxDelay \in Nat
        /\ FatalThreshold \in Nat /\ FatalThreshold > 0
    BY SupervisorAssumption
  <2> QED
    BY <2>1, <2>2
<1>3. n \in Nat /\ n >= 1 /\ n <= L + 1
  BY <1>2 DEF PanicsInWindow, IInv, CountedBurst
<1>4. /\ panics' \in Seq(Nat) /\ Len(panics') = L + 1 /\ panics'[L + 1] = t
      /\ \A i \in 1..L : panics'[i] = panics[i]
  <2>1. panics' = Append(panics, t)
    BY DEF ReportInternalFailure
  <2> QED
    BY <1>1, <1>2, <2>1
<1>5. /\ internal'.failures = n /\ internal'.start \in Nat /\ internal'.start <= now
      /\ internal' \in [start : Nat, failures : Nat]
  BY <1>1, <1>2, <1>3 DEF IInv, CountedBurst, ReportInternalFailure
<1>6. \A i \in (L + 1 - n + 1)..(L + 1) :
        /\ panics'[i] <= internal'.start + InternalWindow
        /\ internal'.start <= panics'[i] + MaxDelay
  <2>1. CASE n = 1
    <3>1. internal'.start = t
      BY <2>1 DEF ReportInternalFailure
    <3> HIDE DEF n, L
    <3> QED
      BY <1>1, <1>2, <1>4, <2>1, <3>1
  <2>2. CASE n # 1
    <3>1. internal'.start = internal.start
      BY <2>2 DEF ReportInternalFailure
    <3>2. n = internal.failures + 1 /\ t <= internal.start + InternalWindow
      BY <1>1, <1>2, <2>2 DEF PanicsInWindow
    <3>3. internal.start <= now
      BY DEF IInv, CountedBurst
    <3>4. \A i \in (L - internal.failures + 1)..L :
            /\ panics[i] <= internal.start + InternalWindow
            /\ internal.start <= panics[i] + MaxDelay
      BY DEF IInv, CountedBurst
    <3> HIDE DEF n, L
    <3> SUFFICES ASSUME NEW i \in (L + 1 - n + 1)..(L + 1)
                 PROVE  /\ panics'[i] <= internal'.start + InternalWindow
                        /\ internal'.start <= panics'[i] + MaxDelay
      OBVIOUS
    <3>5. CASE i = L + 1
      <4>1. panics'[i] = t
        BY <1>4, <3>5
      <4> QED
        BY <1>1, <1>2, <3>1, <3>2, <3>3, <4>1
    <3>6. CASE i # L + 1
      <4>1. i \in 1..L /\ i \in (L - internal.failures + 1)..L
        <5>0. L \in Nat /\ internal.failures \in Nat
          BY <1>2
        <5>1. L \in Nat /\ n \in Nat /\ n <= L + 1 /\ L - internal.failures + 1 = L + 1 - n + 1
          BY <1>3, <3>2, <5>0
        <5>2. i \in (L + 1 - n + 1)..(L + 1) /\ i # L + 1
          BY <3>6
        <5>3. i \in Int /\ 1 <= L + 1 - n + 1 /\ L + 1 - n + 1 <= i /\ i <= L
          BY <5>1, <5>2
        <5> QED
          BY <5>1, <5>3
      <4> QED
        BY <1>4, <3>1, <3>4, <4>1
    <3> QED
      BY <3>5, <3>6
  <2> QED
    BY <2>1, <2>2
<1>7. CountedBurst'
  <2>1. now' = now
    BY DEF ReportInternalFailure
  <2> HIDE DEF n
  <2> QED
    BY <1>2, <1>3, <1>4, <1>5, <1>6, <2>1 DEF CountedBurst
<1>8. FatalNeedsBurst'
  <2>1. CASE fatal
    <3>1. PICK B \in SUBSET (DOMAIN panics) :
             /\ Cardinality(B) = FatalThreshold
             /\ \A i, j \in B : panics[i] - panics[j] <= InternalWindow + MaxDelay
      BY <2>1 DEF IInv, FatalNeedsBurst
    <3>2. DOMAIN panics = 1..L /\ DOMAIN panics' = 1..(L + 1)
      BY <1>2, <1>4
    <3>3. B \in SUBSET (DOMAIN panics') /\ \A i \in B : panics'[i] = panics[i]
      <4>1. B \subseteq 1..L /\ 1..L \subseteq 1..(L + 1)
        BY <1>2, <3>1, <3>2
      <4> HIDE DEF L
      <4> QED
        BY <1>4, <3>2, <4>1
    <3> QED
      BY <3>1, <3>3 DEF FatalNeedsBurst
  <2>2. CASE n >= FatalThreshold
    <3> DEFINE a == L + 1 - FatalThreshold + 1
               b == L + 1
               B == a..b
    <3>1. B \in SUBSET (DOMAIN panics')
      BY <1>2, <1>3, <1>4, <2>2, SMTT(30)
    <3>2. Cardinality(B) = FatalThreshold
      <4>1. a \in Int /\ b \in Int /\ ~(a > b) /\ b - a + 1 = FatalThreshold
        BY <1>2
      <4> HIDE DEF a, b
      <4>2. Cardinality(a..b) = IF a > b THEN 0 ELSE b - a + 1
        BY <4>1, FS_Interval
      <4> QED
        BY <4>1, <4>2
    <3>3. \A i, j \in B : panics'[i] - panics'[j] <= InternalWindow + MaxDelay
      <4>1. B \subseteq (L + 1 - n + 1)..(L + 1)
        BY <1>2, <1>3, <2>2
      <4>2. \A i \in B : panics'[i] \in Nat
        BY <1>4, <3>1
      <4> SUFFICES ASSUME NEW i \in B, NEW j \in B
                   PROVE  panics'[i] - panics'[j] <= InternalWindow + MaxDelay
        OBVIOUS
      <4> HIDE DEF B, n, L
      <4>3. /\ panics'[i] <= internal'.start + InternalWindow
            /\ internal'.start <= panics'[j] + MaxDelay
        BY <1>6, <4>1
      <4>4. /\ panics'[i] \in Nat /\ panics'[j] \in Nat /\ internal'.start \in Nat
            /\ InternalWindow \in Nat /\ MaxDelay \in Nat
        BY <1>2, <1>5, <4>2
      <4> QED
        BY <4>3, <4>4
    <3> QED
      BY <3>1, <3>2, <3>3 DEF FatalNeedsBurst
  <2>3. CASE ~fatal'
    BY <2>3 DEF FatalNeedsBurst
  <2> QED
    BY <2>1, <2>2, <2>3 DEF ReportInternalFailure
<1>9. HealthOK' /\ CoolingIsBounded'
  BY DEF IInv, TypeOK, HealthOK, CoolingIsBounded, healthVars, ReportInternalFailure
<1>10. todo' \in [Reporters -> Seq(Actions)] /\ reported' \in Nat
  BY DEF IInv, TypeOK, Reports, Reporters, ReportInternalFailure
<1>11. fatal' \in BOOLEAN
  BY DEF IInv, TypeOK, ReportInternalFailure
<1>12. TypeOK'
  BY <1>4, <1>5, <1>9, <1>10, <1>11
  DEF IInv, TypeOK, actionVars, healthVars, ReportInternalFailure
<1>13. Bookkeeping' /\ QuietAfterClose'
  BY DEF IInv, Bookkeeping, QuietAfterClose, actionVars, ReportInternalFailure
<1> QED
  BY <1>7, <1>8, <1>9, <1>12, <1>13 DEF IInv

(* A tick may start a network epoch. *)
LEMMA TickIInv ==
  ASSUME IInv, NEW t \in Readings, Tick(t)
  PROVE  IInv'
<1>1. CountedBurst' /\ FatalNeedsBurst'
  BY BurstUnchanged DEF IInv, Tick
<1>2. t \in Nat
  BY ReadingsArePast DEF IInv, TypeOK
<1>3. HealthOK' /\ CoolingIsBounded'
  <2>1. CASE health' = NoHealth
    BY <2>1, EmptyHealth
  <2>2. CASE health' = health
    BY <2>2 DEF IInv, TypeOK, HealthOK, CoolingIsBounded, Tick
  <2> QED
    BY <2>1, <2>2 DEF Tick, StartNetworkEpoch, healthVars
<1>4. /\ lastNetworkEpoch' \in Nat /\ sequence' \in Nat /\ lastTick' \in Nat
      /\ correlated' \in [start : Nat, count : Nat, proxies : SUBSET Proxies]
  BY <1>2, SMTT(30) DEF IInv, TypeOK, Tick, StartNetworkEpoch, NoWindow, healthVars
<1>5. todo' \in [Reporters -> Seq(Actions)]
  <2>1. NetworkRecovery \in Seq(Actions)
    BY DEF NetworkRecovery, Actions
  <2> QED
    BY <2>1 DEF IInv, TypeOK, Tick, Reporters
<1>6. TypeOK'
  BY <1>3, <1>4, <1>5 DEF IInv, TypeOK, Tick, actionVars, fatalVars
<1>7. Bookkeeping' /\ QuietAfterClose'
  BY DEF IInv, Tick, Bookkeeping, QuietAfterClose, actionVars
<1> QED
  BY <1>1, <1>3, <1>6, <1>7 DEF IInv

(* Order and ResetTransient only drop entries. *)
LEMMA OrderIInv ==
  ASSUME IInv,
         ResetTransient \/ \E l, t : OrderCandidates(l, t)
  PROVE  IInv'
<1>1. CountedBurst' /\ FatalNeedsBurst'
  BY BurstUnchanged DEF IInv, ResetTransient, OrderCandidates
<1>2. HealthOK' /\ CoolingIsBounded'
  <2>1. CASE ResetTransient
    BY <2>1, EmptyHealth DEF ResetTransient
  <2>2. ASSUME NEW l, NEW t, OrderCandidates(l, t)
        PROVE  HealthOK' /\ CoolingIsBounded'
    <3>1. PICK S \in SUBSET (DOMAIN health) : health' = [k \in S |-> health[k]]
      BY <2>2 DEF OrderCandidates
    <3> QED
      BY <2>2, <3>1, SmallerHealth DEF IInv, OrderCandidates
  <2> QED
    BY <2>1, <2>2
<1>3. correlated' \in [start : Nat, count : Nat, proxies : SUBSET Proxies]
  <2>1. correlated' = correlated \/ correlated' = NoWindow
    BY DEF ResetTransient, OrderCandidates
  <2> QED
    BY <2>1 DEF IInv, TypeOK, NoWindow
<1>4. TypeOK'
  BY <1>2, <1>3 DEF IInv, TypeOK, ResetTransient, OrderCandidates, actionVars, fatalVars
<1>5. Bookkeeping' /\ QuietAfterClose'
  BY DEF IInv, ResetTransient, OrderCandidates, Bookkeeping, QuietAfterClose, actionVars
<1> QED
  BY <1>1, <1>2, <1>4, <1>5 DEF IInv

(* A call of Trigger starts an action only while the supervisor is open    *)
(* and the action is not in flight.                                        *)
LEMMA TriggerIInv ==
  ASSUME IInv, NEW r \in Reporters, Trigger(r)
  PROVE  IInv'
<1>1. CountedBurst' /\ FatalNeedsBurst'
  BY BurstUnchanged DEF IInv, Trigger
<1>2. HealthOK' /\ CoolingIsBounded'
  BY DEF IInv, TypeOK, HealthOK, CoolingIsBounded, healthVars, Trigger
<1> DEFINE a == Head(todo[r])
<1>3. /\ a \in Actions /\ Tail(todo[r]) \in Seq(Actions)
  BY DEF IInv, TypeOK, Trigger
<1>4. todo' \in [Reporters -> Seq(Actions)]
  BY <1>3 DEF IInv, TypeOK, Trigger
<1>8. \/ /\ Startable(a)
         /\ inflight' = inflight \cup {a}
         /\ running' = [running EXCEPT ![a] = running[a] + 1]
      \/ UNCHANGED << inflight, running >>
  BY DEF Trigger
<1>9. closer' = closer /\ leaving' = leaving
  BY DEF Trigger
<1> HIDE DEF a
<1>5. inflight' \subseteq Actions /\ running' \in [Actions -> Nat]
  <2>1. inflight \subseteq Actions /\ running \in [Actions -> Nat]
    BY DEF IInv, TypeOK
  <2> QED
    BY <1>3, <1>8, <2>1
<1>6. TypeOK'
  BY <1>2, <1>4, <1>5 DEF IInv, TypeOK, Trigger, fatalVars, healthVars
<1>7. Bookkeeping' /\ QuietAfterClose'
  BY <1>3, <1>8, <1>9 DEF IInv, TypeOK, Startable, Bookkeeping, QuietAfterClose
<1> QED
  BY <1>1, <1>2, <1>6, <1>7 DEF IInv

(* The end of an action, in its two steps, and the steps of Close. *)
LEMMA ActionEndIInv ==
  ASSUME IInv,
         (\E a \in Actions : FinishAction(a)) \/ WgDone \/ Close \/ CloseReturn
  PROVE  IInv'
<1> USE DEF FinishAction, WgDone, Close, CloseReturn
<1>1. CountedBurst' /\ FatalNeedsBurst'
  BY BurstUnchanged DEF IInv
<1>2. HealthOK' /\ CoolingIsBounded'
  BY DEF IInv, TypeOK, HealthOK, CoolingIsBounded, healthVars
<1>3. ASSUME NEW a \in Actions, FinishAction(a)
      PROVE  /\ inflight' \subseteq Actions /\ running' \in [Actions -> Nat]
             /\ leaving' \in Nat
             /\ Bookkeeping' /\ QuietAfterClose'
  BY <1>3, SMTT(30) DEF IInv, TypeOK, Bookkeeping, QuietAfterClose
<1>6. ASSUME WgDone \/ Close \/ CloseReturn
      PROVE  /\ inflight' \subseteq Actions /\ running' \in [Actions -> Nat]
             /\ leaving' \in Nat
             /\ Bookkeeping' /\ QuietAfterClose'
  <2>1. /\ inflight \subseteq Actions /\ running \in [Actions -> Nat]
        /\ leaving \in Nat /\ Bookkeeping /\ QuietAfterClose
    BY DEF IInv, TypeOK
  <2>2. inflight' = inflight /\ running' = running
    BY <1>6 DEF actionVars
  <2>3. Bookkeeping'
    BY <2>1, <2>2 DEF Bookkeeping
  <2>4. leaving' \in Nat
    BY <1>6, <2>1, SMTT(30) DEF actionVars
  <2>5. QuietAfterClose'
    <3>1. CASE WgDone
      BY <2>1, <3>1, SMTT(30) DEF QuietAfterClose
    <3>2. CASE Close \/ CloseReturn
      BY <2>2, <3>2 DEF QuietAfterClose, actionVars
    <3> QED
      BY <1>6, <3>1, <3>2
  <2> QED
    BY <2>1, <2>2, <2>3, <2>4, <2>5
<1>4. TypeOK'
  BY <1>2, <1>3, <1>6 DEF IInv, TypeOK, fatalVars, healthVars
<1>5. Bookkeeping' /\ QuietAfterClose'
  BY <1>3, <1>6
<1> QED
  BY <1>1, <1>2, <1>4, <1>5 DEF IInv

(* Time goes on, or nothing happens. *)
LEMMA ClockIInv ==
  ASSUME IInv, Clock \/ UNCHANGED vars
  PROVE  IInv'
<1> USE DEF Clock, vars
<1>1. CountedBurst' /\ FatalNeedsBurst'
  BY BurstUnchanged DEF IInv
<1>5. health' = health /\ (now' = now \/ now' = now + 1)
  BY DEF healthVars
<1>6. HealthOK'
  BY <1>5 DEF IInv, TypeOK, HealthOK
<1>7. CoolingIsBounded'
  <2>1. MaxCooldown \in Nat /\ now \in Nat
    BY SupervisorAssumption DEF IInv, TypeOK
  <2>2. \A k \in DOMAIN health : health[k].until \in Nat
    BY DEF IInv, TypeOK, HealthOK, Health
  <2> QED
    BY <1>5, <2>1, <2>2, SMTT(30) DEF IInv, CoolingIsBounded
<1>2. HealthOK' /\ CoolingIsBounded'
  BY <1>6, <1>7
<1>3. TypeOK'
  <2>1. /\ closer' = closer /\ sequence' = sequence /\ lastTick' = lastTick
        /\ lastNetworkEpoch' = lastNetworkEpoch /\ correlated' = correlated
        /\ inflight' = inflight /\ running' = running /\ leaving' = leaving
        /\ internal' = internal /\ fatal' = fatal /\ panics' = panics
        /\ todo' = todo /\ reported' = reported
    BY DEF fatalVars, healthVars, actionVars
  <2>2. TypeOK /\ now' \in Nat
    BY <1>5 DEF IInv, TypeOK
  <2> HIDE DEF Clock, vars
  <2> QED
    BY <1>6, <2>1, <2>2 DEF TypeOK
<1>4. Bookkeeping' /\ QuietAfterClose'
  BY DEF IInv, TypeOK, Bookkeeping, QuietAfterClose, actionVars
<1> QED
  BY <1>1, <1>2, <1>3, <1>4 DEF IInv

(* Every step keeps the invariant. *)
LEMMA NextIInv == IInv /\ [Next]_vars => IInv'
<1> SUFFICES ASSUME IInv, [Next]_vars PROVE IInv'
  OBVIOUS
<1>1. ASSUME NEW r \in Requests, NEW k \in Proxies, NEW t \in Readings,
             ReportSuccess(r, k) \/ ReportLocalFailure(r, k, t)
      PROVE  IInv'
  BY <1>1, SuccessIInv, LocalFailureIInv
<1>2. ASSUME NEW r \in Requests, NEW a \in {"RefreshRoute", "RefreshAuth"},
             ReportOwnerFailure(r, a)
      PROVE  IInv'
  BY <1>2, OwnerFailureIInv
<1>3. ASSUME NEW r \in Requests, NEW t \in Readings, ReportInternalFailure(r, t)
      PROVE  IInv'
  BY <1>3, InternalFailureIInv
<1>4. ASSUME NEW t \in Readings, Tick(t) PROVE IInv'
  BY <1>4, TickIInv
<1>5. ASSUME NEW l, NEW t, OrderCandidates(l, t) PROVE IInv'
  BY <1>5, OrderIInv
<1>6. CASE ResetTransient
  BY <1>6, OrderIInv
<1>7. ASSUME NEW r \in Reporters, Trigger(r) PROVE IInv'
  BY <1>7, TriggerIInv
<1>8. CASE (\E a \in Actions : FinishAction(a)) \/ WgDone \/ Close \/ CloseReturn
  BY <1>8, ActionEndIInv
<1>9. CASE Clock \/ UNCHANGED vars
  BY <1>9, ClockIInv
<1> QED
  BY <1>1, <1>2, <1>3, <1>4, <1>5, <1>6, <1>7, <1>8, <1>9 DEF Next

(* The inductive invariant holds in every reachable state. *)
THEOREM Invariance == Spec => []IInv
  BY InitIInv, NextIInv, PTL DEF Spec

(* Every variable keeps its type, and the health map never outgrows        *)
(* maxHealthEntries.                                                       *)
THEOREM TypeCorrect == Spec => []TypeOK
<1>1. IInv => TypeOK
  BY DEF IInv
<1> QED
  BY <1>1, Invariance, PTL

(* Trigger is single-flight: no owner action ever runs twice at once.      *)
THEOREM ActionsAreSingleFlight == Spec => []SingleFlight
<1>1. IInv => SingleFlight
  BY DEF IInv, Bookkeeping, SingleFlight
<1> QED
  BY <1>1, Invariance, PTL

(* After Close has returned no owner action runs. *)
THEOREM CloseIsFinal == Spec => []QuietAfterClose
<1>1. IInv => QuietAfterClose
  BY DEF IInv
<1> QED
  BY <1>1, Invariance, PTL

(* Once Close has begun, what it waits for only shrinks: no action starts, *)
(* and a goroutine that is leaving is one that no longer runs an action.   *)
Draining ==
  closer # "open" =>
    /\ closer' # "open" /\ inflight' \subseteq inflight
    /\ \A a \in Actions : running'[a] <= running[a]
    /\ leaving' <= leaving \/ (leaving' = leaving + 1 /\ \E a \in Actions : running'[a] < running[a])

(* No request, tick or owner action replenishes what the wg.Wait of Close  *)
(* waits for, whatever calls of Trigger are still to come.                 *)
THEOREM CloseWaitsForLess == Spec => [][Draining]_vars
<1>1. IInv /\ [Next]_vars => [Draining]_vars
  <2> SUFFICES ASSUME IInv, Next, closer # "open" PROVE Draining
    BY DEF Draining
  <2>0. running \in [Actions -> Nat] /\ leaving \in Nat
    BY DEF IInv, TypeOK
  <2>1. ASSUME UNCHANGED << closer, inflight, running, leaving >> PROVE Draining
    BY <2>0, <2>1 DEF Draining
  <2>2. ASSUME NEW r \in Reporters, Trigger(r) PROVE Draining
    BY <2>1, <2>2 DEF Trigger, Startable
  <2>3. ASSUME NEW a \in Actions, FinishAction(a) PROVE Draining
    BY <2>0, <2>3 DEF FinishAction, Draining
  <2>4. CASE WgDone
    BY <2>0, <2>4 DEF WgDone, Draining
  <2>5. CASE CloseReturn
    BY <2>0, <2>5 DEF CloseReturn, actionVars, Draining
  <2>6. QED
    BY <2>1, <2>2, <2>3, <2>4, <2>5 DEF Next, ReportSuccess, ReportLocalFailure, ReportOwnerFailure,
      ReportInternalFailure, Tick, OrderCandidates, ResetTransient, Close, Clock, actionVars
<1>2. QED
  BY <1>1, Invariance, PTL DEF Spec

(* No proxy is put aside for longer than maxCooldown from now. *)
THEOREM CoolingEnds == Spec => []CoolingIsBounded
<1>1. IInv => CoolingIsBounded
  BY DEF IInv
<1> QED
  BY <1>1, Invariance, PTL

(* A fatal request is backed by a burst of internal failures, for any      *)
(* threshold and window.                                                   *)
THEOREM FatalIsJustified == Spec => []FatalNeedsBurst
<1>1. IInv => FatalNeedsBurst
  BY DEF IInv
<1> QED
  BY <1>1, Invariance, PTL

(* Failures start network epochs at most once per networkEpochCooldown.    *)
THEOREM EpochsAreSpaced == Spec => EpochsSpaced
<1> DEFINE Spaced ==
      lastNetworkEpoch' # lastNetworkEpoch /\ lastTick' = lastTick
        => \/ lastNetworkEpoch = 0
           \/ lastNetworkEpoch' - lastNetworkEpoch >= EpochCooldown
<1>1. IInv /\ [Next]_vars => [Spaced]_vars
  <2> SUFFICES ASSUME IInv, Next, lastNetworkEpoch' # lastNetworkEpoch,
                      lastTick' = lastTick, lastNetworkEpoch # 0
               PROVE  lastNetworkEpoch' - lastNetworkEpoch >= EpochCooldown
    OBVIOUS
  <2>1. PICK r \in Requests, k \in Proxies, t \in Readings : ReportLocalFailure(r, k, t)
    <3>1. \A t \in Readings : ~Tick(t)
      BY ReadingsArePast DEF Tick, IInv, TypeOK
    <3> QED
      BY <3>1 DEF Next, ReportSuccess, ReportOwnerFailure, ReportInternalFailure,
        OrderCandidates, ResetTransient, Trigger, FinishAction, WgDone, Close,
        CloseReturn, Clock, healthVars
  <2>2. StartsEpoch(k, t) /\ lastNetworkEpoch' = t
    BY <2>1 DEF ReportLocalFailure, StartNetworkEpoch
  <2>3. t \in Nat /\ lastNetworkEpoch \in Nat /\ EpochCooldown \in Nat
    BY ReadingsArePast, SupervisorAssumption DEF IInv, TypeOK
  <2> QED
    BY <2>2, <2>3 DEF StartsEpoch, InEpochCooldown
<1>2. Spec => [][Spaced]_vars
  BY <1>1, Invariance, PTL DEF Spec
<1> QED
  BY <1>2 DEF EpochsSpaced

-----------------------------------------------------------------------------
(* The reordering of candidates. *)

(* Ranks number the positions of I from 1 to Cardinality(I). *)
LEMMA Ranks ==
  ASSUME NEW n \in Nat, NEW I, \A i \in I : i \in 1..n
  PROVE  /\ Cardinality(I) \in Nat /\ IsFiniteSet(I)
         /\ \A i \in I : Rank(I, i) \in 1..Cardinality(I)
         /\ \A k \in 1..Cardinality(I) : \E i \in I : Rank(I, i) = k
         /\ \A i, j \in I : Rank(I, i) = Rank(I, j) => i = j
         /\ \A i, j \in I : i < j => Rank(I, i) < Rank(I, j)
<1>1. IsFiniteSet(I) /\ Cardinality(I) \in Nat
  <2>1. I \in SUBSET (1..n) /\ IsFiniteSet(1..n)
    BY FS_Interval
  <2>2. QED
    BY <2>1, FS_Subset, FS_CardinalityType
<1> DEFINE Below(i) == {j \in I : j <= i}
<1>2. ASSUME NEW i \in I
      PROVE IsFiniteSet(Below(i)) /\ Rank(I, i) \in 1..Cardinality(I) /\ Rank(I, i) \in Nat
  <2>1. Below(i) \in SUBSET I /\ i \in Below(i)
    OBVIOUS
  <2>2. IsFiniteSet(Below(i)) /\ Cardinality(Below(i)) <= Cardinality(I)
    BY <1>1, <2>1, FS_Subset
  <2>3. Cardinality(Below(i)) \in Nat /\ Cardinality(Below(i)) # 0
    BY <2>1, <2>2, FS_CardinalityType, FS_EmptySet
  <2>4. QED
    BY <1>1, <2>2, <2>3 DEF Rank
<1>3. ASSUME NEW i \in I, NEW j \in I, i < j
      PROVE Rank(I, i) < Rank(I, j)
  <2>1. Below(i) \in SUBSET Below(j) /\ j \in Below(j) /\ j \notin Below(i)
    BY <1>3
  <2>2. IsFiniteSet(Below(j)) /\ Below(i) # Below(j)
    BY <1>2, <2>1
  <2>3. Cardinality(Below(i)) <= Cardinality(Below(j)) /\ Cardinality(Below(j)) # Cardinality(Below(i))
    BY <2>1, <2>2, FS_Subset
  <2>4. Rank(I, i) \in Nat /\ Rank(I, j) \in Nat
    BY <1>2
  <2>5. QED
    BY <2>3, <2>4 DEF Rank
<1>4. \A i, j \in I : Rank(I, i) = Rank(I, j) => i = j
  <2> SUFFICES ASSUME NEW i \in I, NEW j \in I, i # j PROVE Rank(I, i) # Rank(I, j)
    OBVIOUS
  <2>1. Rank(I, i) \in Nat /\ Rank(I, j) \in Nat
    BY <1>2
  <2>2. i < j \/ j < i
    OBVIOUS
  <2>3. QED
    BY <1>3, <2>1, <2>2
<1>5. \A k \in 1..Cardinality(I) : \E i \in I : Rank(I, i) = k
  <2> DEFINE f == [i \in I |-> Rank(I, i)]
  <2>1. f \in Injection(I, 1..Cardinality(I))
    BY <1>2, <1>4 DEF Injection, IsInjective
  <2>2. IsFiniteSet(1..Cardinality(I)) /\ Cardinality(1..Cardinality(I)) = Cardinality(I)
    BY <1>1, FS_Interval
  <2>3. f \in Surjection(I, 1..Cardinality(I))
    BY <2>1, <2>2, FS_Injection
  <2>4. QED
    BY <2>3 DEF Surjection
<1>6. QED
  BY <1>1, <1>2, <1>3, <1>4, <1>5

(* Sift puts the element at the position of rank k at k. *)
LEMMA Sifted ==
  ASSUME NEW T, NEW s \in Seq(T), NEW I, \A i \in I : i \in 1..Len(s)
  PROVE  /\ Cardinality(I) \in Nat
         /\ Sift(s, I) \in Seq(T) /\ Len(Sift(s, I)) = Cardinality(I)
         /\ \A i \in I : Sift(s, I)[Rank(I, i)] = s[i]
<1> DEFINE at(k) == CHOOSE i \in I : Rank(I, i) = k
           t == [k \in 1..Cardinality(I) |-> s[at(k)]]
<1>1. Sift(s, I) = t
  BY DEF Sift
<1>0. Len(s) \in Nat /\ \A i \in I : s[i] \in T
  OBVIOUS
<1>2. Cardinality(I) \in Nat
  BY <1>0, Ranks
<1>3. \A k \in 1..Cardinality(I) : at(k) \in I /\ Rank(I, at(k)) = k
  BY <1>0, Ranks
<1>4. \A i \in I : Rank(I, i) \in 1..Cardinality(I) /\ at(Rank(I, i)) = i
  BY <1>0, Ranks, <1>3
<1> HIDE DEF at
<1>5. t \in [1..Cardinality(I) -> T] /\ \A i \in I : t[Rank(I, i)] = s[i]
  BY <1>0, <1>3, <1>4
<1>6. t \in Seq(T) /\ Len(t) = Cardinality(I)
  BY <1>2, <1>5
<1> HIDE DEF t
<1>7. QED
  BY <1>1, <1>2, <1>5, <1>6

(* Two lists of the same length whose elements of the same rank agree. *)
LEMMA SameSift ==
  ASSUME NEW n \in Nat, NEW I, \A i \in I : i \in 1..n, NEW J, \A j \in J : j \in 1..n,
         Cardinality(I) = Cardinality(J), NEW s, NEW t,
         \A i \in I, j \in J : Rank(I, i) = Rank(J, j) => s[i] = t[j]
  PROVE  Sift(s, I) = Sift(t, J)
<1>1. ASSUME NEW k \in 1..Cardinality(I)
      PROVE  s[CHOOSE i \in I : Rank(I, i) = k] = t[CHOOSE j \in J : Rank(J, j) = k]
  <2>1. (\E i \in I : Rank(I, i) = k) /\ (\E j \in J : Rank(J, j) = k)
    BY <1>1, Ranks, SMTT(30)
  <2>2. QED
    BY <2>1
<1> DEFINE x(k) == s[CHOOSE i \in I : Rank(I, i) = k]
           y(k) == t[CHOOSE j \in J : Rank(J, j) = k]
<1>2. /\ Sift(s, I) = [k \in 1..Cardinality(I) |-> x(k)]
      /\ Sift(t, J) = [k \in 1..Cardinality(I) |-> y(k)]
  BY DEF Sift
<1>3. \A k \in 1..Cardinality(I) : x(k) = y(k)
  BY <1>1
<1> HIDE DEF x, y
<1>4. QED
  BY <1>2, <1>3

(* The first h positions of E, and the others. *)
First(E, h) == {i \in E : Rank(E, i) <= h}
Rest(E, h)  == E \ First(E, h)

LEMMA Split ==
  ASSUME NEW n \in Nat, NEW E, \A i \in E : i \in 1..n, NEW h \in 0..Cardinality(E)
  PROVE  /\ Cardinality(First(E, h)) = h /\ Cardinality(Rest(E, h)) = Cardinality(E) - h
         /\ \A i \in First(E, h) : Rank(First(E, h), i) = Rank(E, i)
         /\ \A i \in Rest(E, h) : Rank(E, i) = h + Rank(Rest(E, h), i)
         /\ \A i \in Rest(E, h), j \in First(E, h) : j < i
<1> DEFINE P == {i \in E : Rank(E, i) <= h}
           Q == E \ P
<1>1. /\ Cardinality(E) \in Nat /\ IsFiniteSet(E) /\ h \in Nat
      /\ \A i \in E : Rank(E, i) \in 1..Cardinality(E)
      /\ \A k \in 1..Cardinality(E) : \E i \in E : Rank(E, i) = k
      /\ \A i, j \in E : Rank(E, i) = Rank(E, j) => i = j
      /\ \A i, j \in E : i < j => Rank(E, i) < Rank(E, j)
  BY Ranks, SMTT(30)
<1>2. \A i, j \in E : Rank(E, j) < Rank(E, i) => j < i
  <2> SUFFICES ASSUME NEW i \in E, NEW j \in E, Rank(E, j) < Rank(E, i) PROVE j < i
    OBVIOUS
  <2>1. /\ Rank(E, i) \in Nat /\ Rank(E, j) \in Nat /\ i \in Nat /\ j \in Nat
        /\ (i < j => Rank(E, i) < Rank(E, j)) /\ (i = j => Rank(E, i) = Rank(E, j))
    BY <1>1, SMTT(30)
  <2>2. QED
    BY <2>1
<1>3. \A i \in Q, j \in P : j < i
  <2> SUFFICES ASSUME NEW i \in Q, NEW j \in P PROVE j < i
    OBVIOUS
  <2>1. i \in E /\ j \in E /\ Rank(E, j) <= h /\ ~(Rank(E, i) <= h)
    OBVIOUS
  <2>2. Rank(E, i) \in Nat /\ Rank(E, j) \in Nat
    BY <1>1, <2>1, SMTT(30)
  <2>3. QED
    BY <1>1, <1>2, <2>1, <2>2, SMTT(30)
<1>4. IsFiniteSet(P) /\ IsFiniteSet(Q)
  <2>1. P \in SUBSET E /\ Q \in SUBSET E
    OBVIOUS
  <2>2. QED
    BY <1>1, <2>1, FS_Subset
<1>5. Cardinality(P) = h
  <2> DEFINE f == [i \in P |-> Rank(E, i)]
  <2>1. /\ \A i \in P : Rank(E, i) \in 1..h
        /\ \A i, j \in P : Rank(E, i) = Rank(E, j) => i = j
        /\ \A k \in 1..h : \E i \in P : Rank(E, i) = k
    BY <1>1
  <2>2. f \in Bijection(P, 1..h)
    BY <2>1 DEF Bijection, Injection, IsInjective, Surjection
  <2>3. ExistsBijection(P, 1..h)
    BY <2>2 DEF ExistsBijection
  <2>4. Cardinality(1..h) = h
    BY <1>1, FS_Interval
  <2>5. QED
    BY <1>4, <2>3, <2>4, FS_Bijection
<1>6. Cardinality(Q) = Cardinality(E) - h
  <2>1. E \cap P = P
    OBVIOUS
  <2>2. Cardinality(E \ P) = Cardinality(E) - Cardinality(E \cap P)
    BY <1>1, FS_Difference
  <2>3. QED
    BY <1>5, <2>1, <2>2
<1>7. \A i \in P : Rank(P, i) = Rank(E, i)
  <2> SUFFICES ASSUME NEW i \in P PROVE Rank(P, i) = Rank(E, i)
    OBVIOUS
  <2>1. ASSUME NEW j \in E, j <= i PROVE j \in P
    <3>1. j \notin Q
      <4>1. j \in Q => i < j
        BY <1>3
      <4>2. i \in 1..n /\ j \in 1..n
        OBVIOUS
      <4>3. QED
        BY <2>1, <4>1, <4>2
    <3>2. QED
      BY <2>1, <3>1
  <2>2. {j \in P : j <= i} = {j \in E : j <= i}
    BY <2>1
  <2>3. QED
    BY <2>2 DEF Rank
<1>8. \A i \in Q : Rank(E, i) = h + Rank(Q, i)
  <2> SUFFICES ASSUME NEW i \in Q PROVE Rank(E, i) = h + Rank(Q, i)
    OBVIOUS
  <2> DEFINE R == {j \in Q : j <= i}
  <2>1. \A j \in P : j <= i
    <3>1. \A j \in P : j < i /\ j \in 1..n /\ i \in 1..n
      BY <1>3
    <3>2. QED
      BY <3>1
  <2>2. {j \in E : j <= i} = P \cup R /\ P \cap R = {}
    BY <2>1
  <2>3. R \in SUBSET Q
    OBVIOUS
  <2>4. IsFiniteSet(R) /\ Cardinality(R) \in Nat
    BY <1>4, <2>3, FS_Subset, FS_CardinalityType
  <2> HIDE DEF R
  <2>5. Cardinality(P \cup R) = Cardinality(P) + Cardinality(R)
    <3>1. Cardinality(P \cup R) = Cardinality(P) + Cardinality(R) - Cardinality(P \cap R)
      BY <1>4, <2>4, FS_Union
    <3>2. Cardinality(P \cap R) = 0
      BY <2>2, FS_EmptySet
    <3>3. QED
      BY <1>1, <1>5, <2>4, <3>1, <3>2, SMTT(30)
  <2>6. Rank(Q, i) = Cardinality(R) /\ Rank(E, i) = Cardinality(P \cup R)
    BY <2>2 DEF Rank, R
  <2>7. QED
    BY <1>5, <2>5, <2>6
<1>9. First(E, h) = P /\ Rest(E, h) = Q
  BY DEF First, Rest
<1> HIDE DEF P, Q
<1>10. QED
  BY <1>3, <1>5, <1>6, <1>7, <1>8, <1>9

(* What stands where in a concatenation. *)
LEMMA Joined ==
  ASSUME NEW T, NEW x \in Seq(T), NEW y \in Seq(T), NEW k \in 1..(Len(x) + Len(y))
  PROVE  (x \o y)[k] = IF k <= Len(x) THEN x[k] ELSE y[k - Len(x)]
OBVIOUS

(* Order returns the members of its list with DIRECT in its slots, each    *)
(* class in its order and the cooled candidates last, for lists of any     *)
(* length and any health (upstream.go).                                    *)
THEOREM OrderKeepsLists ==
  ASSUME NEW T, NEW list \in Seq(T), NEW cooled
  PROVE  OrderIsSound(list, cooled)
<1> DEFINE n == Len(list)
           E == Explicit(list)
           B == Cooling(list, cooled)
           H == E \ B
           h == Cardinality(H)
           out == Order(list, cooled)
           bad == cooled \ {Direct}
           healthy == {c \in {list[i] : i \in DOMAIN list} : c # Direct /\ c \notin cooled}
<1>1. n \in Nat /\ DOMAIN list = 1..n
  OBVIOUS
<1>2. /\ \A i \in E : i \in 1..n /\ list[i] # Direct
      /\ \A i \in 1..n : i \notin E => list[i] = Direct
      /\ \A i \in B : i \in E /\ list[i] \in cooled
      /\ \A i \in H : i \in E /\ list[i] \notin cooled
  BY <1>1 DEF Explicit, Cooling
<1>3. Among(list, bad) = B /\ Among(list, healthy) = H
  BY <1>1 DEF Explicit, Cooling, Among
<1>4. \A c : ~(c \in bad /\ c \in healthy)
  OBVIOUS
<1>5. CASE n < 2 \/ B = {} \/ B = E
  <2>1. out = list
    BY <1>5 DEF Order
  <2>2. ASSUME NEW i \in DOMAIN list, NEW j \in DOMAIN list, list[i] \in bad, list[j] \in healthy
        PROVE  j < i
    <3>1. i \in B /\ j \in H
      BY <1>3, <2>2 DEF Among
    <3>2. n < 2
      BY <1>5, <3>1
    <3>3. i = j
      BY <1>1, <3>2
    <3>4. QED
      BY <1>4, <2>2, <3>3
  <2> HIDE DEF out, bad, healthy
  <2>3. QED
    BY <2>1, <2>2 DEF OrderIsSound, out, bad, healthy
<1>6. CASE ~(n < 2 \/ B = {} \/ B = E)
  <2> DEFINE good == Sift(list, H)
             ill == Sift(list, B)
             P == First(E, h)
             Q == Rest(E, h)
  <2>1. out = [i \in DOMAIN list |-> IF i \in E THEN (good \o ill)[Rank(E, i)] ELSE list[i]]
    BY <1>6 DEF Order
  <2>0. H = E \ B /\ h = Cardinality(H)
    OBVIOUS
  <2> HIDE DEF n, E, B, H, h
  <2>2. /\ Cardinality(E) \in Nat /\ IsFiniteSet(E)
        /\ \A i \in E : Rank(E, i) \in 1..Cardinality(E)
    BY <1>1, <1>2, Ranks
  <2>3. \A i \in B : i \in 1..n
    BY <1>2
  <2>4. \A i \in H : i \in 1..n
    BY <1>2
  <2>5. /\ Cardinality(B) \in Nat /\ IsFiniteSet(B) /\ h \in Nat
        /\ \A k \in 1..Cardinality(B) : \E p \in B : Rank(B, p) = k
        /\ \A k \in 1..h : \E p \in H : Rank(H, p) = k
    <3>1. IsFiniteSet(B) /\ Cardinality(B) \in Nat /\ \A k \in 1..Cardinality(B) : \E p \in B : Rank(B, p) = k
      BY <1>1, <2>3, Ranks
    <3>2. Cardinality(H) \in Nat /\ \A k \in 1..Cardinality(H) : \E p \in H : Rank(H, p) = k
      BY <1>1, <2>4, Ranks
    <3>3. QED
      BY <2>0, <3>1, <3>2
  <2>6. Cardinality(E) = h + Cardinality(B)
    <3>1. E \cap B = B
      BY <1>2
    <3>2. Cardinality(E \ B) = Cardinality(E) - Cardinality(E \cap B)
      BY <2>2, FS_Difference
    <3>3. QED
      <4>1. h = Cardinality(E) - Cardinality(B)
        BY <2>0, <3>1, <3>2, Zenon
      <4>2. QED
        BY <2>2, <2>5, <4>1
  <2>7. /\ good \in Seq(T) /\ Len(good) = h
        /\ \A p \in H : good[Rank(H, p)] = list[p]
    BY <2>0, <2>4, Sifted, SMTT(30) DEF n
  <2>8. /\ ill \in Seq(T) /\ Len(ill) = Cardinality(B)
        /\ \A p \in B : ill[Rank(B, p)] = list[p]
    BY <2>3, Sifted, SMTT(30), ZenonT(30) DEF n
  <2>9. h \in 0..Cardinality(E)
    BY <2>2, <2>5, <2>6
  <2>10. /\ Cardinality(P) = h /\ Cardinality(Q) = Cardinality(E) - h
         /\ \A i \in P : Rank(P, i) = Rank(E, i)
         /\ \A i \in Q : Rank(E, i) = h + Rank(Q, i)
         /\ \A i \in Q, j \in P : j < i
    <3>1. \A i \in E : i \in 1..n
      BY <1>2
    <3>2. QED
      BY <1>1, <2>9, <3>1, Split
  <2> HIDE DEF good, ill
  <2>11. \A i \in E : i \in P \/ i \in Q
    BY DEF First, Rest
  <2>12. /\ \A i \in P : i \in E /\ Rank(E, i) \in 1..h
         /\ \A i \in Q : i \in E /\ Rank(E, i) \in 1..Cardinality(E) /\ ~(Rank(E, i) <= h)
    BY <2>2, <2>5 DEF First, Rest
  <2> HIDE DEF P, Q
  <2>13. \A k \in 1..(h + Cardinality(B)) :
           (good \o ill)[k] = IF k <= h THEN good[k] ELSE ill[k - h]
    <3>1. ASSUME NEW k \in 1..(h + Cardinality(B))
          PROVE  (good \o ill)[k] = IF k <= h THEN good[k] ELSE ill[k - h]
      <4>1. k \in 1..(Len(good) + Len(ill))
        BY <2>7, <2>8, <3>1
      <4>2. (good \o ill)[k] = IF k <= Len(good) THEN good[k] ELSE ill[k - Len(good)]
        BY <2>7, <2>8, <4>1, Joined
      <4>3. QED
        BY <2>7, <4>2
    <3>2. QED
      BY <3>1
  <2>14. DOMAIN out = 1..n /\ \A i \in 1..n : i \notin E => out[i] = Direct
    BY <1>1, <1>2, <2>1
  <2>15. ASSUME NEW i \in P, NEW p \in H, Rank(H, p) = Rank(E, i)
         PROVE  out[i] = list[p]
    <3>1. i \in DOMAIN list /\ i \in E /\ Rank(E, i) \in 1..h
      BY <1>1, <1>2, <2>12
    <3>2. out[i] = (good \o ill)[Rank(E, i)]
      BY <2>1, <3>1
    <3>3. (good \o ill)[Rank(E, i)] = good[Rank(E, i)]
      <4>1. Rank(E, i) \in 1..(h + Cardinality(B)) /\ Rank(E, i) <= h
        BY <2>5, <3>1, SMTT(30)
      <4>2. QED
        BY <2>13, <4>1
    <3>4. QED
      BY <2>7, <2>15, <3>2, <3>3
  <2>16. ASSUME NEW i \in Q, NEW p \in B, h + Rank(B, p) = Rank(E, i)
         PROVE  out[i] = list[p]
    <3>1. i \in DOMAIN list /\ i \in E /\ Rank(E, i) \in 1..(h + Cardinality(B)) /\ ~(Rank(E, i) <= h)
      BY <1>1, <1>2, <2>6, <2>12
    <3>2. out[i] = (good \o ill)[Rank(E, i)]
      BY <2>1, <3>1
    <3>3. (good \o ill)[Rank(E, i)] = ill[Rank(E, i) - h]
      BY <2>5, <2>13, <3>1
    <3>4. Rank(B, p) \in Nat
      <4>1. Rank(B, p) \in 1..Cardinality(B)
        BY <1>1, <2>3, Ranks
      <4>2. QED
        BY <4>1
    <3>5. Rank(E, i) - h = Rank(B, p)
      BY <2>5, <2>16, <3>4
    <3>6. QED
      BY <2>8, <3>2, <3>3, <3>5
  <2>17. ASSUME NEW i \in P PROVE out[i] \in healthy
    <3>1. PICK p \in H : Rank(H, p) = Rank(E, i)
      BY <2>5, <2>12
    <3>2. out[i] = list[p]
      BY <2>15, <3>1
    <3>3. list[p] \in healthy
      BY <1>3 DEF Among
    <3>4. QED
      BY <3>2, <3>3
  <2>18. ASSUME NEW i \in Q PROVE out[i] \in bad
    <3>1. Rank(E, i) - h \in 1..Cardinality(B)
      BY <2>5, <2>6, <2>12
    <3>2. PICK p \in B : Rank(B, p) = Rank(E, i) - h
      BY <2>5, <3>1
    <3>3. h + Rank(B, p) = Rank(E, i)
      BY <2>5, <2>12, <3>2
    <3>4. out[i] = list[p]
      BY <2>16, <3>3
    <3>5. list[p] \in bad
      BY <1>3 DEF Among
    <3>6. QED
      BY <3>4, <3>5
  <2>19. /\ \A i \in 1..n : i \notin E => out[i] \notin bad /\ out[i] \notin healthy
         /\ Direct \notin bad /\ Direct \notin healthy
    BY <2>14
  <2> HIDE DEF out, bad, healthy
  <2>20. Among(out, healthy) = P /\ Among(out, bad) = Q
    BY <1>2, <1>4, <2>11, <2>12, <2>14, <2>17, <2>18, <2>19 DEF Among
  <2>21. \A i \in P : i \in 1..n
    BY <1>2, <2>12
  <2>22. \A i \in Q : i \in 1..n
    BY <1>2, <2>12
  <2>23. In(out, healthy) = In(list, healthy)
    <3>1. \A i \in P, p \in H : Rank(P, i) = Rank(H, p) => out[i] = list[p]
      BY <2>10, <2>15
    <3>2. Cardinality(P) = Cardinality(H)
      BY <2>0, <2>10
    <3>3. Sift(out, P) = Sift(list, H)
      BY <1>1, <2>4, <2>21, <3>1, <3>2, SameSift
    <3>4. QED
      BY <1>3, <2>20, <3>3 DEF In
  <2>24. In(out, bad) = In(list, bad)
    <3>1. \A i \in Q, p \in B : Rank(Q, i) = Rank(B, p) => out[i] = list[p]
      BY <2>10, <2>16
    <3>2. Cardinality(Q) = Cardinality(B)
      BY <2>2, <2>5, <2>6, <2>10
    <3>3. Sift(out, Q) = Sift(list, B)
      BY <1>1, <2>3, <2>22, <3>1, <3>2, SameSift
    <3>4. QED
      BY <1>3, <2>20, <3>3 DEF In
  <2>25. \A i \in DOMAIN list : out[i] = Direct <=> list[i] = Direct
    BY <1>1, <1>2, <2>11, <2>14, <2>17, <2>18, <2>19
  <2>26. ASSUME NEW i \in DOMAIN out, NEW j \in DOMAIN out, out[i] \in bad, out[j] \in healthy
         PROVE  j < i
    <3>1. i \in Q /\ j \in P
      BY <2>20, <2>26 DEF Among
    <3>2. QED
      BY <2>10, <3>1
  <2>27. QED
    BY <1>1, <2>14, <2>23, <2>24, <2>25, <2>26 DEF OrderIsSound, out, bad, healthy
<1>7. QED
  BY <1>5, <1>6

(* So no state of the supervisor makes Order lose, invent or misplace a    *)
(* candidate.                                                              *)
THEOREM OrderKeepsRouting == Spec => []OrderSound
<1>1. OrderSound
  <2> SUFFICES ASSUME NEW l \in CandidateLists PROVE OrderIsSound(l, Cooled(now))
    BY DEF OrderSound
  <2>1. PICK n \in 2..3 : l \in [1..n -> Proxies \cup {Direct}]
    BY DEF CandidateLists
  <2>2. l \in Seq(Proxies \cup {Direct})
    BY <2>1
  <2>3. QED
    BY <2>2, OrderKeepsLists
<1>2. QED
  BY <1>1, PTL

-----------------------------------------------------------------------------
(* The ticket manager.                                                     *)

(* The refresh has a program counter; refreshing stands for one            *)
(* that has not ended, and closed for a Cleanup that has begun.            *)
Flags ==
  /\ "pc" \in DOMAIN rf
  /\ refreshing \in BOOLEAN /\ closed \in BOOLEAN /\ file \in BOOLEAN
  /\ refreshing <=> rf.pc # "none"
  /\ closed <=> cleanup # "none"

TicketInv == Flags /\ NoCacheLeft

(* The initial state: nothing runs, nothing is closed. *)
LEMMA TicketInitInv == TicketInit => TicketInv
<1> SUFFICES ASSUME TicketInit PROVE TicketInv
  OBVIOUS
<1>1. "pc" \in DOMAIN rf /\ rf.pc = "none"
  BY DEF TicketInit, Idle
<1>2. QED
  BY <1>1 DEF TicketInit, TicketInv, Flags, NoCacheLeft

(* A refresh that has not ended writes what it likes; its end removes the  *)
(* cache if the manager was closed meanwhile.                              *)
LEMMA RefreshInv == TicketInv /\ Refresh => TicketInv'
<1> SUFFICES ASSUME TicketInv, Refresh PROVE TicketInv'
  OBVIOUS
<1> USE DEF TicketInv, Flags, NoCacheLeft, At, Go, manager
<1>1. CASE Begin
  <2>1. "pc" \in DOMAIN rf' /\ rf.pc # "none" /\ rf'.pc # "none"
    BY <1>1 DEF Begin, Needed
  <2>2. QED
    BY <1>1, <2>1 DEF Begin
<1>2. CASE Klist
  <2>1. "pc" \in DOMAIN rf' /\ rf.pc # "none" /\ rf'.pc # "none"
    BY <1>2 DEF Klist
  <2>2. QED
    BY <1>2, <2>1 DEF Klist
<1>3. CASE KinitRenew
  <2>1. "pc" \in DOMAIN rf' /\ rf.pc # "none" /\ rf'.pc # "none"
    BY <1>3 DEF KinitRenew
  <2>2. QED
    BY <1>3, <2>1 DEF KinitRenew
<1>4. CASE Acquire
  <2>1. "pc" \in DOMAIN rf' /\ rf.pc # "none" /\ rf'.pc # "none"
    BY <1>4 DEF Acquire, ConsumeBackoff
  <2>2. QED
    BY <1>4, <2>1 DEF Acquire
<1>5. CASE KinitSucceeds
  <2>1. "pc" \in DOMAIN rf' /\ rf.pc # "none" /\ rf'.pc # "none"
    BY <1>5 DEF KinitSucceeds
  <2>2. QED
    BY <1>5, <2>1 DEF KinitSucceeds
<1>6. CASE KinitFails
  <2>1. "pc" \in DOMAIN rf' /\ rf.pc # "none" /\ rf'.pc # "none"
    BY <1>6 DEF KinitFails
  <2>2. QED
    BY <1>6, <2>1 DEF KinitFails
<1>7. CASE NoPassword
  <2>1. "pc" \in DOMAIN rf' /\ rf.pc # "none" /\ rf'.pc # "none"
    BY <1>7 DEF NoPassword
  <2>2. QED
    BY <1>7, <2>1 DEF NoPassword
<1>8. CASE ClearBackoff
  <2>1. "pc" \in DOMAIN rf' /\ rf.pc # "none" /\ rf'.pc # "none"
    BY <1>8 DEF ClearBackoff
  <2>2. QED
    BY <1>8, <2>1 DEF ClearBackoff
<1>9. CASE UpdateExpiry
  <2>1. "pc" \in DOMAIN rf' /\ rf.pc # "none" /\ rf'.pc # "none"
    BY <1>9 DEF UpdateExpiry
  <2>2. QED
    BY <1>9, <2>1 DEF UpdateExpiry
<1>10. CASE End
  <2>1. "pc" \in DOMAIN rf' /\ rf'.pc = "none"
    BY <1>10 DEF End, Idle
  <2>2. QED
    BY <1>10, <2>1 DEF End
<1>11. QED
  BY <1>1, <1>2, <1>3, <1>4, <1>5, <1>6, <1>7, <1>8, <1>9, <1>10 DEF Refresh

(* The other steps: Check refuses a closed manager, Cleanup removes last. *)
LEMMA TicketNextInv == TicketInv /\ [TicketNext]_ticketVars => TicketInv'
<1> SUFFICES ASSUME TicketInv, [TicketNext]_ticketVars PROVE TicketInv'
  OBVIOUS
<1> USE DEF TicketInv, Flags, NoCacheLeft, manager
<1>1. ASSUME NEW force \in BOOLEAN, Check(force) PROVE TicketInv'
  <2>1. "pc" \in DOMAIN rf' /\ rf'.pc = "begin"
    BY <1>1 DEF Check, Idle
  <2>2. QED
    BY <1>1, <2>1 DEF Check
<1>2. CASE Refresh
  BY <1>2, RefreshInv
<1>3. CASE CleanupBegins
  BY <1>3 DEF CleanupBegins
<1>4. CASE RemoveCCache
  BY <1>4 DEF RemoveCCache
<1>5. CASE Vanish
  BY <1>5 DEF Vanish
<1>6. CASE TimePasses
  <2>1. "pc" \in DOMAIN rf' /\ rf'.pc = rf.pc
    BY <1>6 DEF TimePasses
  <2>2. QED
    BY <1>6, <2>1 DEF TimePasses
<1>7. CASE UNCHANGED ticketVars
  BY <1>7 DEF ticketVars
<1>8. QED
  BY <1>1, <1>2, <1>3, <1>4, <1>5, <1>6, <1>7 DEF TicketNext

(* Once Cleanup has returned and no refresh runs there is no credential    *)
(* cache, whatever the two did at the same time.                           *)
THEOREM CleanupIsFinal == TicketSpec => []NoCacheLeft
<1>1. TicketInv => NoCacheLeft
  BY DEF TicketInv
<1>2. QED
  BY TicketInitInv, TicketNextInv, <1>1, PTL DEF TicketSpec

(* The states of a refresh. *)
RefreshSteps == {"none", "begin", "klist", "renew", "acquire", "kinit", "clear", "update", "end"}
RefreshState == [pc : RefreshSteps, force : BOOLEAN, expiry : 0..Lifetime, age : 0..MaxRefresh]

(* The longest time that Check may be put off. *)
Interval == IF CheckInterval > RetryInterval THEN CheckInterval ELSE RetryInterval

(* The next check is never further away, and refreshing, which keeps Check *)
(* from starting a refresh, stands for one that runs.                      *)
CheckIsNear == nextCheck \in 0..Interval /\ (refreshing <=> rf.pc # "none")

Near == TicketTypeOK /\ CheckIsNear

LEMMA LeftType ==
  ASSUME NEW n \in Nat, NEW age \in Nat
  PROVE  Left(n, age) \in 0..n
BY DEF Left

LEMMA NextCheckType ==
  ASSUME NEW n \in Nat, NEW age \in Nat
  PROVE  NextCheckFor(n, age) \in 0..Interval
<1> DEFINE m == IF CheckInterval > Left(n, RenewalMargin) THEN Left(n, RenewalMargin) ELSE CheckInterval
<1>1. m \in Nat /\ m <= CheckInterval
  BY KerberosAssumption, LeftType
<1>2. Left(m, age) \in 0..m /\ NextCheckFor(n, age) = Left(m, age)
  BY <1>1, LeftType DEF NextCheckFor
<1> HIDE DEF m
<1>3. QED
  BY <1>1, <1>2, KerberosAssumption DEF Interval

(* A refresh goes from step to step. *)
LEMMA GoType ==
  ASSUME rf \in RefreshState, NEW x \in RefreshSteps, Go(x)
  PROVE  rf' \in RefreshState /\ rf'.pc = x
BY DEF Go, RefreshState

LEMMA NearRefresh == Near /\ Refresh => Near'
<1> SUFFICES ASSUME Near, Refresh PROVE Near'
  OBVIOUS
<1>1. /\ rf \in RefreshState /\ rf.expiry \in Nat /\ rf.age \in Nat
      /\ expiry \in 0..Lifetime /\ life \in 0..Lifetime /\ life \in Nat /\ backoff \in {0, RetryInterval, CheckInterval}
      /\ nextCheck \in 0..Interval /\ Lifetime \in Nat /\ 0 \in 0..Lifetime /\ Lifetime \in 0..Lifetime
      /\ 0 \in 0..MaxRefresh
      /\ refreshing <=> rf.pc # "none"
      /\ closed \in BOOLEAN /\ refreshing \in BOOLEAN /\ file \in BOOLEAN /\ cleanup \in {"none", "remove", "done"}
  BY KerberosAssumption DEF Near, CheckIsNear, TicketTypeOK, RefreshState, RefreshSteps
<1>2. Interval \in Nat /\ RetryInterval \in 0..Interval /\ CheckInterval \in 0..Interval /\ RetryInterval \in Nat
  BY KerberosAssumption DEF Interval
<1>3. SUFFICES /\ rf' \in RefreshState
               /\ expiry' \in 0..Lifetime /\ life' \in 0..Lifetime /\ backoff' \in {0, RetryInterval, CheckInterval}
               /\ nextCheck' \in 0..Interval
               /\ refreshing' <=> rf'.pc # "none"
               /\ closed' \in BOOLEAN /\ refreshing' \in BOOLEAN /\ file' \in BOOLEAN
               /\ cleanup' \in {"none", "remove", "done"}
  BY <1>2, SMTT(30) DEF Near, CheckIsNear, TicketTypeOK, RefreshState, RefreshSteps
<1>4. {"klist", "renew", "acquire", "kinit", "clear", "update", "end"} \subseteq RefreshSteps \ {"none"}
  BY DEF RefreshSteps
<1> USE DEF At, manager
<1> HIDE DEF RefreshSteps, RefreshState
<1>5. CASE Begin
  <2>1. Needed(expiry) \in RefreshSteps \ {"none"}
    BY <1>4 DEF Needed
  <2>2. rf' = [rf EXCEPT !.pc = Needed(expiry), !.expiry = expiry, !.age = 0]
    BY <1>5 DEF Begin
  <2>3. rf' \in RefreshState /\ rf'.pc # "none"
    BY <1>1, <2>1, <2>2 DEF RefreshState
  <2>4. QED
    BY <1>1, <1>5, <2>3 DEF Begin
<1>6. CASE Klist
  <2>1. NextCheckFor(rf.expiry, rf.age) \in 0..Interval
    BY <1>1, NextCheckType
  <2>2. rf' \in RefreshState /\ rf'.pc # "none"
    BY <1>1, <1>4, <1>6, GoType DEF Klist
  <2>3. QED
    BY <1>1, <1>6, <2>1, <2>2 DEF Klist
<1>7. CASE KinitRenew
  <2>1. rf' \in RefreshState /\ rf'.pc # "none"
    BY <1>1, <1>4, <1>7, GoType DEF KinitRenew
  <2>2. QED
    BY <1>1, <1>7, <2>1 DEF KinitRenew
<1>8. CASE Acquire
  <2>1. Left(backoff, rf.age) \in 0..Interval
    <3>1. backoff \in Nat /\ backoff <= Interval
      BY <1>1, <1>2
    <3>2. Left(backoff, rf.age) \in 0..backoff
      BY <1>1, <3>1, LeftType
    <3>3. QED
      BY <1>2, <3>1, <3>2
  <2>2. rf' \in RefreshState /\ rf'.pc # "none"
    BY <1>1, <1>4, <1>8, GoType DEF Acquire, ConsumeBackoff
  <2>3. QED
    BY <1>1, <1>8, <2>1, <2>2 DEF Acquire, ConsumeBackoff
<1>9. CASE KinitSucceeds
  <2>1. rf' \in RefreshState /\ rf'.pc # "none"
    BY <1>1, <1>4, <1>9, GoType DEF KinitSucceeds
  <2>2. QED
    BY <1>1, <1>9, <2>1 DEF KinitSucceeds
<1>10. CASE KinitFails
  <2>1. rf' \in RefreshState /\ rf'.pc # "none"
    BY <1>1, <1>4, <1>10, GoType DEF KinitFails
  <2>2. QED
    BY <1>1, <1>10, <2>1 DEF KinitFails
<1>11. CASE NoPassword
  <2>1. rf' \in RefreshState /\ rf'.pc # "none"
    BY <1>1, <1>4, <1>11, GoType DEF NoPassword
  <2>2. QED
    BY <1>1, <1>11, <2>1 DEF NoPassword
<1>12. CASE ClearBackoff
  <2>1. rf' \in RefreshState /\ rf'.pc # "none"
    BY <1>1, <1>4, <1>12, GoType DEF ClearBackoff
  <2>2. QED
    BY <1>1, <1>12, <2>1 DEF ClearBackoff
<1>13. CASE UpdateExpiry
  <2>1. NextCheckFor(life, 0) \in 0..Interval
    BY <1>1, NextCheckType
  <2>2. rf' \in RefreshState /\ rf'.pc # "none"
    BY <1>1, <1>4, <1>13, GoType DEF UpdateExpiry
  <2>3. QED
    BY <1>1, <1>2, <1>13, <2>1, <2>2 DEF UpdateExpiry
<1>14. CASE End
  <2>1. rf' \in RefreshState /\ rf'.pc = "none"
    BY <1>1, <1>14 DEF End, Idle, RefreshState, RefreshSteps
  <2>2. QED
    BY <1>1, <1>14, <2>1 DEF End
<1>15. QED
  BY <1>5, <1>6, <1>7, <1>8, <1>9, <1>10, <1>11, <1>12, <1>13, <1>14 DEF Refresh

LEMMA NearNext == Near /\ [TicketNext]_ticketVars => Near'
<1> SUFFICES ASSUME Near, [TicketNext]_ticketVars PROVE Near'
  OBVIOUS
<1>1. CASE Refresh
  BY <1>1, NearRefresh
<1>2. CASE CleanupBegins \/ RemoveCCache \/ Vanish \/ UNCHANGED ticketVars
  <2>1. UNCHANGED << refreshing, expiry, nextCheck, backoff, life, rf >>
    BY <1>2 DEF CleanupBegins, RemoveCCache, Vanish, ticketVars, manager
  <2>2. closed \in BOOLEAN /\ file \in BOOLEAN /\ cleanup \in {"none", "remove", "done"}
    BY DEF Near, TicketTypeOK
  <2>3. /\ closed' \in {closed, TRUE} /\ file' \in {file, FALSE}
        /\ cleanup' \in {cleanup, "remove", "done"}
    BY <1>2 DEF CleanupBegins, RemoveCCache, Vanish, ticketVars, manager
  <2>4. closed' \in BOOLEAN /\ file' \in BOOLEAN /\ cleanup' \in {"none", "remove", "done"}
    BY <2>2, <2>3
  <2>5. QED
    BY <2>1, <2>4 DEF Near, CheckIsNear, TicketTypeOK
<1>3. ASSUME NEW force \in BOOLEAN, Check(force) PROVE Near'
  <2>1. 0 \in 0..Lifetime /\ 0 \in 0..MaxRefresh
    BY KerberosAssumption
  <2>2. rf' = [pc |-> "begin", force |-> force, expiry |-> 0, age |-> 0]
    BY <1>3 DEF Check, Idle
  <2>3. QED
    BY <1>3, <2>1, <2>2 DEF Check, Near, CheckIsNear, TicketTypeOK
<1>4. CASE TimePasses
  <2>1. /\ expiry \in 0..Lifetime /\ life \in 0..Lifetime /\ nextCheck \in 0..Interval
        /\ Lifetime \in Nat /\ Interval \in Nat /\ MaxRefresh \in Nat /\ rf \in RefreshState
    BY KerberosAssumption DEF Near, CheckIsNear, TicketTypeOK, RefreshState, RefreshSteps, Interval
  <2>2. expiry' \in 0..Lifetime /\ life' \in 0..Lifetime /\ nextCheck' \in 0..Interval /\ nextCheck' \in Nat
    BY <1>4, <2>1 DEF TimePasses, Left
  <2>3. rf' \in RefreshState /\ rf'.pc = rf.pc
    <3>1. CASE refreshing
      <4>1. rf.age + 1 \in 0..MaxRefresh
        BY <1>4, <2>1, <3>1 DEF TimePasses, RefreshState
      <4>2. rf' = [rf EXCEPT !.age = rf.age + 1]
        BY <1>4, <3>1 DEF TimePasses
      <4>3. QED
        BY <2>1, <4>1, <4>2 DEF RefreshState
    <3>2. CASE ~refreshing
      BY <1>4, <2>1, <3>2 DEF TimePasses
    <3>3. QED
      BY <3>1, <3>2
  <2>4. QED
    BY <1>4, <2>2, <2>3 DEF TimePasses, Near, CheckIsNear, TicketTypeOK, RefreshState, RefreshSteps
<1>5. QED
  BY <1>1, <1>2, <1>3, <1>4 DEF TicketNext

(* No backoff, ticket lifetime or slow refresh puts the next check of the  *)
(* ticket off for longer than the longer of CheckInterval and              *)
(* RetryInterval (nextCheckFor, consumeBackoff, commitExpiry), and no      *)
(* refresh that is over keeps Check from starting another.                 *)
THEOREM ChecksComeSoon == TicketSpec => [](TicketTypeOK /\ CheckIsNear)
<1>1. TicketInit => Near
  <2> SUFFICES ASSUME TicketInit PROVE Near
    OBVIOUS
  <2>1. 0 \in 0..Lifetime /\ 0 \in 0..MaxRefresh /\ 0 \in 0..Interval
    BY KerberosAssumption DEF Interval
  <2>2. rf = [pc |-> "none", force |-> FALSE, expiry |-> 0, age |-> 0]
    BY DEF TicketInit, Idle
  <2>3. rf \in RefreshState /\ rf.pc = "none"
    BY <2>1, <2>2 DEF RefreshState, RefreshSteps
  <2>4. nextCheck \in 0..Interval /\ (refreshing <=> rf.pc # "none")
    BY <2>1, <2>3 DEF TicketInit
  <2>5. TicketTypeOK
    BY <2>1, <2>3 DEF TicketInit, TicketTypeOK, RefreshState, RefreshSteps
  <2>6. QED
    BY <2>4, <2>5 DEF Near, CheckIsNear
<1>2. Near => TicketTypeOK /\ CheckIsNear
  BY DEF Near
<1>3. QED
  BY <1>1, <1>2, NearNext, PTL DEF TicketSpec
=============================================================================
