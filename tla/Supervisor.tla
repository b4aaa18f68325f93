----------------------------- MODULE Supervisor -----------------------------
(***************************************************************************)
(* internal/supervisor: passive health of the upstream proxies, network    *)
(* epochs, escalation of internal failures, and single-flight recovery     *)
(* actions run on behalf of the parts that own the state.                  *)
(*                                                                         *)
(* A reporter is a goroutine that calls Record, Recover or Tick.  It reads *)
(* the clock, updates the state under the mutex (up to MaxDelay later, so  *)
(* readings are applied out of order), and then calls Trigger for each     *)
(* recovery action, one critical section each.  The owner actions run in   *)
(* goroutines of their own; Close waits for them.  Time is in periods of   *)
(* the maintenance loop; 0 is the zero time.                               *)
(***************************************************************************)
EXTENDS Integers, Sequences, FiniteSets

CONSTANTS
  Requests,     \* the request goroutines that report outcomes
  Maintenance,  \* the maintenance loop, which calls Tick
  Proxies,      \* the keys of the explicit upstream proxies
  Direct,       \* the DIRECT member of a candidate list
  LocalThreshold, MaxHealth, MaxBackoff, BaseCooldown, MaxCooldown,
  GapThreshold, CorrelatedWindow, CorrelatedThreshold, EpochCooldown,
  InternalWindow, FatalThreshold,
  MaxDelay,     \* how long a goroutine may take from the clock to the mutex
  MaxTime,      \* bound on the clock
  MaxReports    \* bound on the outcomes that are reported

ASSUME SupervisorAssumption ==
  /\ Maintenance \notin Requests
  /\ Direct \notin Proxies
  /\ {LocalThreshold, MaxHealth, MaxBackoff, CorrelatedThreshold, FatalThreshold}
       \subseteq Nat \ {0}
  /\ {BaseCooldown, MaxCooldown, GapThreshold, CorrelatedWindow, EpochCooldown,
      InternalWindow, MaxDelay, MaxTime, MaxReports} \subseteq Nat

INSTANCE CandidateOrder

Reporters == Requests \cup {Maintenance}
Actions   == {"RefreshRoute", "RefreshAuth", "CloseIdleTransports", "ClearNetworkDNS"}

VARIABLES
  now,               \* time.Now()
  closer,            \* Close: "open", "waiting" in wg.Wait, or "returned"
  health,            \* Supervisor.health: a function on the penalized proxies
  sequence,          \* Supervisor.sequence
  inflight,          \* Supervisor.inflight
  running,           \* how many goroutines execute each owner action
  leaving,           \* goroutines past the delete from inflight, before wg.Done
  lastTick,          \* Supervisor.lastTick; progressSequence grows with it
  lastNetworkEpoch,  \* Supervisor.lastNetworkEpoch
  correlated,        \* Supervisor.correlated
  internal,          \* internalWindowStart and internalFailures
  fatal,             \* fatalRequested, and the signal in fatalCh
  todo,              \* the actions each reporter has still to Trigger
  reported,          \* bound: how many outcomes were reported
  panics             \* history: the clock readings of the internal failures

healthVars == << health, sequence, lastNetworkEpoch, correlated >>
actionVars == << inflight, running, leaving >>
fatalVars  == << internal, fatal, panics >>
vars == << now, closer, healthVars, actionVars, fatalVars, lastTick, todo, reported >>

NoWindow == [start |-> 0, count |-> 0, proxies |-> {}]
NoHealth == [k \in {} |-> 0]

Init ==
  /\ now = 1
  /\ closer = "open"
  /\ health = NoHealth /\ sequence = 0
  /\ lastNetworkEpoch = 0 /\ correlated = NoWindow
  /\ inflight = {} /\ running = [a \in Actions |-> 0] /\ leaving = 0
  /\ internal = [start |-> 0, failures |-> 0] /\ fatal = FALSE /\ panics = << >>
  /\ lastTick = 0
  /\ todo = [r \in Reporters |-> << >>]
  /\ reported = 0

(* A reading of the clock that a goroutine may still hold. *)
Readings == {t \in 1..now : t >= now - MaxDelay}

-----------------------------------------------------------------------------
(* cooldownForLevel, which is called with a level of at least one. *)
Cooldown(level) ==
  LET d == BaseCooldown * (2 ^ (level - 1))
  IN  IF d \in 0..MaxCooldown THEN d ELSE MaxCooldown

NewEntry == [failures |-> 0, level |-> 0, until |-> 0, seq |-> 0]

(* evictOldestHealthLocked: the entries that may stay when k needs one. *)
Room(k) ==
  IF k \in DOMAIN health \/ Cardinality(DOMAIN health) < MaxHealth
  THEN {DOMAIN health}
  ELSE {DOMAIN health \ {v} : v \in {h \in DOMAIN health :
          \A g \in DOMAIN health : health[h].seq <= health[g].seq}}

(* recordLocalFailureLocked: the entry of k after a failure at time t.  An *)
(* entry whose cooldown is over starts afresh.                             *)
Refreshed(k, t) ==
  IF k \notin DOMAIN health \/ (health[k].until # 0 /\ t >= health[k].until)
  THEN NewEntry ELSE health[k]

Failed(k, t) ==
  LET e     == Refreshed(k, t)
      level == IF e.level < MaxBackoff THEN e.level + 1 ELSE e.level
  IN  IF e.failures + 1 < LocalThreshold
      THEN [failures |-> e.failures + 1, level |-> e.level,
            until |-> e.until, seq |-> sequence + 1]
      ELSE [failures |-> e.failures + 1, level |-> level,
            until |-> t + Cooldown(level), seq |-> sequence + 1]

EntersCooling(k, t) == Refreshed(k, t).until = 0 /\ Failed(k, t).until # 0

(* observeCorrelatedFailureLocked. *)
NeverInEpochCooldown(t) == FALSE

InEpochCooldown(t) == lastNetworkEpoch # 0 /\ t - lastNetworkEpoch < EpochCooldown

Observed(k, t) ==
  LET w == IF correlated.start = 0 \/ t - correlated.start > CorrelatedWindow
           THEN [start |-> t, count |-> 0, proxies |-> {}] ELSE correlated
  IN  [start |-> w.start, count |-> w.count + 1, proxies |-> w.proxies \cup {k}]

StartsEpoch(k, t) ==
  /\ ~InEpochCooldown(t)
  /\ Observed(k, t).count >= CorrelatedThreshold
  /\ Cardinality(Observed(k, t).proxies) >= 2

StartNetworkEpoch(t) ==
  /\ lastNetworkEpoch' = t
  /\ health' = NoHealth
  /\ correlated' = NoWindow

(* triggerNetworkRecovery. *)
NetworkRecovery ==
  << "RefreshRoute", "RefreshAuth", "CloseIdleTransports", "ClearNetworkDNS" >>

-----------------------------------------------------------------------------
(* A request calls Record or Recover with an outcome; the ones with no     *)
(* effect on the supervisor are left out.  After Close nothing is recorded *)
(* but Trigger is still called.                                            *)
Reports(r, actions) ==
  /\ r \in Requests
  /\ todo[r] = << >>
  /\ reported < MaxReports
  /\ reported' = reported + 1
  /\ todo' = [todo EXCEPT ![r] = actions]

ReportSuccess(r, k) ==
  /\ Reports(r, << >>)
  /\ closer = "open"
  /\ health' = [h \in DOMAIN health \ {k} |-> health[h]]
  /\ UNCHANGED << now, closer, sequence, lastNetworkEpoch, correlated,
                  actionVars, fatalVars, lastTick >>

(* A failure of the local path to a proxy.  It may start the cooldown of   *)
(* that proxy, and together with others a network epoch.                   *)
ReportLocalFailure(r, k, t) ==
  /\ closer = "open"
  /\ Reports(r, (IF EntersCooling(k, t) THEN << "CloseIdleTransports" >> ELSE << >>)
                \o (IF StartsEpoch(k, t) THEN NetworkRecovery ELSE << >>))
  /\ sequence' = sequence + 1
  /\ IF StartsEpoch(k, t)
     THEN StartNetworkEpoch(t)
     ELSE /\ \E kept \in Room(k) :
               health' = [h \in kept \cup {k} |->
                            IF h = k THEN Failed(k, t) ELSE health[h]]
          /\ correlated' = IF InEpochCooldown(t) THEN correlated ELSE Observed(k, t)
          /\ UNCHANGED lastNetworkEpoch
  /\ UNCHANGED << now, closer, actionVars, fatalVars, lastTick >>

(* OutcomeRouteFailure and OutcomeAuthExhausted only ask for an action. *)
ReportOwnerFailure(r, action) ==
  /\ Reports(r, << action >>)
  /\ UNCHANGED << now, closer, healthVars, actionVars, fatalVars, lastTick >>

(* Mutant of PanicsInWindow: the window is never restarted. *)
PanicsEver(t) == internal.failures + 1

(* recordInternalFailureLocked: the failures in the window, with the one   *)
(* at t.  A window is over when a failure comes later than its length.     *)
PanicsInWindow(t) ==
  IF internal.start = 0 \/ t - internal.start > InternalWindow
  THEN 1 ELSE internal.failures + 1

ReportInternalFailure(r, t) ==
  /\ Reports(r, << >>)
  /\ closer = "open"
  /\ internal' = [start |-> IF PanicsInWindow(t) = 1 THEN t ELSE internal.start,
                  failures |-> PanicsInWindow(t)]
  /\ fatal' = (fatal \/ PanicsInWindow(t) >= FatalThreshold)
  /\ panics' = Append(panics, t)
  /\ UNCHANGED << now, closer, healthVars, actionVars, lastTick >>

(* The maintenance loop calls Tick with the time its ticker fired.  A gap  *)
(* in the ticks is taken for a suspended machine: a new network epoch.     *)
Tick(t) ==
  /\ closer = "open"
  /\ todo[Maintenance] = << >>
  /\ t > lastTick
  /\ lastTick' = t
  /\ IF lastTick # 0 /\ t - lastTick > GapThreshold
     THEN /\ StartNetworkEpoch(t)
          /\ todo' = [todo EXCEPT ![Maintenance] = NetworkRecovery]
          /\ UNCHANGED sequence
     ELSE UNCHANGED << healthVars, todo >>
  /\ UNCHANGED << now, closer, actionVars, fatalVars, reported >>

-----------------------------------------------------------------------------
(* Order and candidateCooledLocked: entries whose cooldown is over are     *)
(* dropped from the health of the listed candidates.                       *)
Cooled(t) == {k \in DOMAIN health : health[k].until # 0 /\ t < health[k].until}

OrderCandidates(list, t) ==
  /\ Len(list) >= 2
  /\ health' = [k \in {h \in DOMAIN health :
                         \/ h \notin {list[i] : i \in DOMAIN list}
                         \/ health[h].until = 0
                         \/ h \in Cooled(t)} |-> health[k]]
  /\ health' # health
  /\ UNCHANGED << now, closer, sequence, lastNetworkEpoch, correlated, actionVars,
                  fatalVars, lastTick, todo, reported >>

ResetTransient ==
  /\ health' = NoHealth
  /\ correlated' = NoWindow
  /\ UNCHANGED << now, closer, sequence, lastNetworkEpoch, actionVars, fatalVars,
                  lastTick, todo, reported >>

-----------------------------------------------------------------------------
(* Mutant of Startable: closed is not looked at. *)
StartableAfterClose(a) == a \notin inflight

(* Mutant of Startable: inflight is not looked at. *)
StartableTwice(a) == closer = "open"

(* The test under the mutex in Trigger. *)
Startable(a) == closer = "open" /\ a \notin inflight

(* The next call of Trigger by a reporter. *)
Trigger(r) ==
  /\ todo[r] # << >>
  /\ LET a == Head(todo[r])
     IN  IF Startable(a)
         THEN /\ inflight' = inflight \cup {a}
              /\ running' = [running EXCEPT ![a] = running[a] + 1]
         ELSE UNCHANGED << inflight, running >>
  /\ todo' = [todo EXCEPT ![r] = Tail(todo[r])]
  /\ UNCHANGED << now, closer, healthVars, fatalVars, leaving, lastTick, reported >>

(* runAction after the owner has returned: the delete, then wg.Done. *)
FinishAction(a) ==
  /\ running[a] > 0
  /\ running' = [running EXCEPT ![a] = running[a] - 1]
  /\ inflight' = inflight \ {a}
  /\ leaving' = leaving + 1
  /\ UNCHANGED << now, closer, healthVars, fatalVars, lastTick, todo, reported >>

(* Mutant of WgDone: wg.Done is forgotten. *)
NoWgDone == FALSE /\ UNCHANGED vars

WgDone ==
  /\ leaving > 0
  /\ leaving' = leaving - 1
  /\ UNCHANGED << now, closer, healthVars, inflight, running, fatalVars, lastTick,
                  todo, reported >>

Close ==
  /\ closer = "open"
  /\ closer' = "waiting"
  /\ UNCHANGED << now, healthVars, actionVars, fatalVars, lastTick, todo, reported >>

(* wg.Wait returns. *)
CloseReturn ==
  /\ closer = "waiting"
  /\ leaving = 0 /\ \A a \in Actions : running[a] = 0
  /\ closer' = "returned"
  /\ UNCHANGED << now, healthVars, actionVars, fatalVars, lastTick, todo, reported >>

Clock ==
  /\ now < MaxTime
  /\ now' = now + 1
  /\ UNCHANGED << closer, healthVars, actionVars, fatalVars, lastTick, todo, reported >>

CandidateLists == UNION {[1..n -> Proxies \cup {Direct}] : n \in 2..3}

Next ==
  \/ \E r \in Requests, k \in Proxies, t \in Readings :
       ReportSuccess(r, k) \/ ReportLocalFailure(r, k, t)
  \/ \E r \in Requests, a \in {"RefreshRoute", "RefreshAuth"} : ReportOwnerFailure(r, a)
  \/ \E r \in Requests, t \in Readings : ReportInternalFailure(r, t)
  \/ \E t \in Readings : Tick(t)
  \/ \E l \in [1..2 -> Proxies \cup {Direct}], t \in Readings : OrderCandidates(l, t)
  \/ ResetTransient
  \/ \E r \in Reporters : Trigger(r)
  \/ \E a \in Actions : FinishAction(a)
  \/ WgDone
  \/ Close
  \/ CloseReturn
  \/ Clock

Spec == Init /\ [][Next]_vars

(* Goroutines keep running and the owner actions return: each is given a   *)
(* context that Close cancels and that ends after ownerActionTimeout, and  *)
(* none of them waits for anything but bounded I/O.                        *)
FairSpec ==
  /\ Spec
  /\ \A a \in Actions : WF_vars(FinishAction(a))
  /\ WF_vars(WgDone)
  /\ WF_vars(CloseReturn)

-----------------------------------------------------------------------------
Health == [failures : Nat, level : 0..MaxBackoff, until : Nat, seq : Nat]

(* The health map holds at most maxHealthEntries entries. *)
HealthOK ==
  /\ DOMAIN health \subseteq Proxies
  /\ IsFiniteSet(DOMAIN health)
  /\ Cardinality(DOMAIN health) <= MaxHealth
  /\ \A k \in DOMAIN health : health[k] \in Health

(* Every variable holds a value of its type, and the health map stays      *)
(* within maxHealthEntries.                                                *)
TypeOK ==
  /\ now \in Nat
  /\ closer \in {"open", "waiting", "returned"}
  /\ HealthOK
  /\ sequence \in Nat
  /\ inflight \subseteq Actions
  /\ running \in [Actions -> Nat]
  /\ leaving \in Nat
  /\ lastTick \in Nat /\ lastNetworkEpoch \in Nat
  /\ correlated \in [start : Nat, count : Nat, proxies : SUBSET Proxies]
  /\ internal \in [start : Nat, failures : Nat]
  /\ fatal \in BOOLEAN
  /\ panics \in Seq(Nat)
  /\ todo \in [Reporters -> Seq(Actions)]
  /\ reported \in Nat

(* Trigger is single-flight: an owner action never runs twice at the same  *)
(* time, whichever goroutines ask for it and however they interleave with  *)
(* the end of the previous run.                                            *)
SingleFlight == \A a \in Actions : running[a] <= 1

(* Once Close has returned no owner action runs, and none ever starts: the *)
(* shutdown that called Close may tear down what the actions use.          *)
QuietAfterClose ==
  closer = "returned" => leaving = 0 /\ \A a \in Actions : running[a] = 0

(* A proxy is never put aside for longer than maxCooldown from now, even   *)
(* by failures whose clock readings are applied out of order.              *)
CoolingIsBounded ==
  \A k \in DOMAIN health : health[k].until <= now + MaxCooldown

(* The supervisor asks for a restart of the process only after a burst of  *)
(* internal failures: isolated ones never add up to a fatal request.       *)
FatalNeedsBurst ==
  fatal => \E B \in SUBSET (DOMAIN panics) :
             /\ Cardinality(B) = FatalThreshold
             /\ \A i, j \in B : panics[i] - panics[j] <= InternalWindow + MaxDelay

(* Order keeps routing's candidates and its DIRECT slots, for whatever     *)
(* health the proxies are in.                                              *)
OrderSound ==
  \A l \in CandidateLists : OrderIsSound(l, Cooled(now))

(* Failures alone start network epochs at most once per cooldown: a storm  *)
(* of them does not keep dropping the transports and the DNS cache.        *)
EpochsSpaced ==
  [][lastNetworkEpoch' # lastNetworkEpoch /\ lastTick' = lastTick
       => \/ lastNetworkEpoch = 0
          \/ lastNetworkEpoch' - lastNetworkEpoch >= EpochCooldown]_vars

(* Close returns: what it waits for cannot be replenished behind its back. *)
CloseTerminates == closer = "waiting" ~> closer = "returned"
=============================================================================
