-------------------------- MODULE RouteLifecycle --------------------------
(***************************************************************************)
(* internal/proxy/proxy.go: how the route (s.w) and the DoH bootstrap      *)
(* route are built, published, used under their locks, replaced by         *)
(* reloadProxy and closed by Shutdown, and how Start, the maintenance loop *)
(* and the supervisor's RefreshRoute take part.                            *)
(*                                                                         *)
(* A Wproxy is a number and the environment it was built from; its system  *)
(* resolver is open from the build to Close.  What a lookup computes is    *)
(* module RouteDecision.  Both mutexes are Go RWMutexes: a waiting writer  *)
(* keeps new readers out.  ProxyReload is positive.                        *)
(***************************************************************************)
EXTENDS Naturals, FiniteSets

CONSTANTS
  Lookups,    \* the requests that ask for a route, again and again
  Reloaders,  \* the goroutines that call reloadProxy
  Forced,     \* those that run RefreshRoute; the rest is maintenanceLoop
  HasDoH,     \* cfg.DNS names a DoH endpoint: dohBootstrap exists
  Slots,      \* numbers for the Wproxy pairs that exist at a time
  Pinned,     \* the environments that lead to ModeConfig or ModeEnv: not reloadable
  MaxChanges, MaxFailures,  \* bounds: changes of the environment, failed builds
  None, Pending

ASSUME RouteAssumption ==
  /\ HasDoH \in BOOLEAN /\ Forced \subseteq Reloaders /\ Slots \subseteq Nat
  /\ MaxChanges \in Nat /\ MaxFailures \in Nat
  /\ None \notin Slots \X (0..MaxChanges) /\ Pending \notin Slots \X (0..MaxChanges)
  /\ Pending # None

(* A Wproxy pair, and the environment (discovery, PAC source) it was built *)
(* from.                                                                   *)
Envs == 0..MaxChanges
Ids == Slots \X Envs
EnvOf(i) == i[2]

VARIABLES
  w,              \* s.w
  doh,            \* s.dohBootstrap.current
  openR, openD,   \* the ids whose ordinary, bootstrap resolver is open
  routingClosed,  \* s.routingClosed
  due,            \* ProxyReload has passed since s.lastReload
  rl,             \* each reloader's place in reloadProxy and what it built
  lk,             \* each lookup's place and the Wproxy it uses
  ans,            \* what each lookup returned
  dial,           \* the DoH dial on behalf of each lookup, and its lease
  http,           \* s.srv, "none" while Start has not set it
  sd,             \* Shutdown's place
  env, failures   \* the environment now; how many builds have failed

built    == << openR, openD >>
lookups  == << lk, ans, dial >>
outside  == << env, failures >>
vars == << w, doh, built, routingClosed, due, rl, lookups, http, sd, outside >>

R == INSTANCE Routing WITH current <- w

(* New: both routes are built before the server exists. *)
Init ==
  /\ env = 0 /\ failures = 0
  /\ w \in Ids /\ EnvOf(w) = env /\ (\A n \in Slots : w[1] <= n)
  /\ openR = {w}
  /\ doh = IF HasDoH THEN w ELSE None
  /\ openD = IF HasDoH THEN {w} ELSE {}
  /\ routingClosed = FALSE /\ due = FALSE
  /\ rl = [r \in Reloaders |-> [pc |-> "idle", id |-> None]]
  /\ lk = [l \in Lookups |-> [pc |-> "idle", use |-> None]]
  /\ ans = [l \in Lookups |-> None]
  /\ dial = [l \in Lookups |-> [pc |-> "none", lease |-> None]]
  /\ http = "none" /\ sd = "none"

-----------------------------------------------------------------------------
(* The two RWMutexes, read off the places of their users. *)

(* Mutant of Reading: the lock is given back before the route is used. *)
ReadingUnlocked(l) == FALSE

Reading(l)  == lk[l].pc = "using"
Leasing(l)  == dial[l].pc = "leased"
Writing(r)  == rl[r].pc = "lockDoH"
WWaiters == \E r \in Reloaders : rl[r].pc = "lock"
ShutdownLocksW == sd \in {"fence", "closeRoute"}

(* sup.Close has cancelled the context of the owner actions. *)
SupCancelled == sd \in {"waitSup", "closeDoH", "closeRoute", "closed"}

WReadable == ~WWaiters /\ ~ShutdownLocksW /\ \A r \in Reloaders : ~Writing(r)

(* Mutant of WWritable: Shutdown keeps the routing lock from its fence on. *)
WWritableBesideShutdown ==
  /\ \A l \in Lookups : ~Reading(l)
  /\ \A r \in Reloaders : ~Writing(r)
  /\ sd \in {"none", "fence", "closeRoute", "closed"}

WWritable == (\A l \in Lookups : ~Reading(l)) /\ \A r \in Reloaders : ~Writing(r)
DReadable == (\A r \in Reloaders : ~Writing(r)) /\ sd # "closeDoH"
DWritable == \A l \in Lookups : ~Leasing(l)

-----------------------------------------------------------------------------
(* findProxyForURL, called by the handlers of accepted requests. *)
HandlersRun == http \in {"serving", "abandoned"}

Ask(l) ==
  /\ HandlersRun
  /\ lk[l].pc = "idle"
  /\ lk' = [lk EXCEPT ![l].pc = "asking"]
  /\ ans' = [ans EXCEPT ![l] = Pending]
  /\ UNCHANGED << w, doh, built, routingClosed, due, rl, dial, http, sd, outside >>

Closed(l) ==
  /\ lk[l].pc = "asking" /\ WReadable /\ w = None
  /\ lk' = [lk EXCEPT ![l].pc = "idle"]
  /\ ans' = [ans EXCEPT ![l] = None]
  /\ UNCHANGED << w, doh, built, routingClosed, due, rl, dial, http, sd, outside >>

Use(l) ==
  /\ lk[l].pc = "asking" /\ WReadable /\ w # None
  /\ lk' = [lk EXCEPT ![l] = [pc |-> "using", use |-> w]]
  /\ UNCHANGED << w, doh, built, routingClosed, due, rl, ans, dial, http, sd, outside >>

(* The no-proxy rules or the PAC script resolve a name: with DoH that may  *)
(* need a connection, dialled by a goroutine of the DoH transport.  The    *)
(* lookup waits for it up to its own timeout, so it may answer before the  *)
(* dial is over.                                                           *)
Resolve(l) ==
  /\ HasDoH /\ Reading(l) /\ dial[l].pc = "none"
  /\ dial' = [dial EXCEPT ![l].pc = "asking"]
  /\ UNCHANGED << w, doh, built, routingClosed, due, rl, lk, ans, http, sd, outside >>

Answer(l) ==
  /\ lk[l].pc = "using"
  /\ lk' = [lk EXCEPT ![l] = [pc |-> "idle", use |-> None]]
  /\ ans' = [ans EXCEPT ![l] = lk[l].use]
  /\ UNCHANGED << w, doh, built, routingClosed, due, rl, dial, http, sd, outside >>

(* The dialer installed by SetDoHDialContext holds a lease on the          *)
(* bootstrap route until its CONNECT is established or has failed.         *)
Lease(l) ==
  /\ dial[l].pc = "asking" /\ DReadable
  /\ dial' = [dial EXCEPT ![l] = IF doh = None THEN [pc |-> "none", lease |-> None]
                                 ELSE [pc |-> "leased", lease |-> doh]]
  /\ UNCHANGED << w, doh, built, routingClosed, due, rl, lk, ans, http, sd, outside >>

Release(l) ==
  /\ dial[l].pc = "leased"
  /\ dial' = [dial EXCEPT ![l] = [pc |-> "none", lease |-> None]]
  /\ UNCHANGED << w, doh, built, routingClosed, due, rl, lk, ans, http, sd, outside >>

LookupStep(l) == Closed(l) \/ Use(l) \/ Answer(l)
DialStep(l) == Lease(l) \/ Release(l)

-----------------------------------------------------------------------------
(* reloadProxy. *)
At(r, from) == rl[r].pc = from
Go(r, to, i) == rl' = [rl EXCEPT ![r] = [pc |-> to, id |-> i]]

(* maintenanceLoop runs from Start until Shutdown has closed s.closed; the *)
(* supervisor triggers RefreshRoute until it is closed.                    *)
Running(r) == IF r \in Forced THEN ~SupCancelled ELSE http \notin {"none", "failed"} /\ sd # "closed"

(* Mutant of Reloadable: one failed build ends reloading. *)
ReloadableUntilFailure == w # None /\ EnvOf(w) \notin Pinned /\ failures = 0

(* proxyReloadableLocked. *)
Reloadable == w # None /\ EnvOf(w) \notin Pinned

Check(r) ==
  /\ At(r, "idle") /\ Running(r) /\ WReadable
  /\ ~routingClosed /\ Reloadable
  /\ r \in Forced \/ due
  /\ Go(r, "build", None)
  /\ UNCHANGED << w, doh, built, routingClosed, due, lookups, http, sd, outside >>

(* A new object: the least number that is free stands for its address. *)
Free(n) == \A i \in openR \cup openD : i[1] # n

Build(r) ==
  /\ At(r, "build")
  /\ \E n \in Slots :
       /\ Free(n) /\ \A k \in Slots : k < n => ~Free(k)
       /\ openR' = openR \cup {<< n, env >>}
       /\ Go(r, "built", << n, env >>)
  /\ UNCHANGED << w, doh, openD, routingClosed, due, lookups, http, sd, outside >>

BuildFails(r) ==
  /\ At(r, "build") /\ failures < MaxFailures
  /\ failures' = failures + 1
  /\ Go(r, "idle", None)
  /\ UNCHANGED << w, doh, built, routingClosed, due, lookups, http, sd, env >>

(* Both resolvers of what r has built are closed. *)
Drop(r) ==
  /\ openR' = openR \ {rl[r].id}
  /\ openD' = openD \ {rl[r].id}
  /\ Go(r, "idle", None)

Cancelled(r) == r \in Forced /\ SupCancelled

(* Mutant of BuildBootstrap: a cancelled reload forgets what it has built. *)
BuildBootstrapLeaking(r) ==
  /\ At(r, "built")
  /\ IF Cancelled(r)
       THEN Go(r, "idle", None) /\ UNCHANGED << openR, openD >>
       ELSE /\ openD' = IF HasDoH THEN openD \cup {rl[r].id} ELSE openD
            /\ Go(r, "lock", rl[r].id) /\ UNCHANGED openR
  /\ UNCHANGED << w, doh, routingClosed, due, lookups, http, sd, outside >>

BuildBootstrap(r) ==
  /\ At(r, "built")
  /\ IF Cancelled(r)
       THEN Drop(r)
       ELSE /\ openD' = IF HasDoH THEN openD \cup {rl[r].id} ELSE openD
            /\ Go(r, "lock", rl[r].id) /\ UNCHANGED openR
  /\ UNCHANGED << w, doh, routingClosed, due, lookups, http, sd, outside >>

BootstrapFails(r) ==
  /\ At(r, "built") /\ HasDoH /\ failures < MaxFailures
  /\ failures' = failures + 1
  /\ Drop(r)
  /\ UNCHANGED << w, doh, routingClosed, due, lookups, http, sd, env >>

Fenced(r) ==
  /\ At(r, "lock") /\ WWritable /\ routingClosed
  /\ Drop(r)
  /\ UNCHANGED << w, doh, routingClosed, due, lookups, http, sd, outside >>

LockRoute(r) ==
  /\ At(r, "lock") /\ WWritable /\ ~routingClosed
  /\ Go(r, "lockDoH", rl[r].id)
  /\ UNCHANGED << w, doh, built, routingClosed, due, lookups, http, sd, outside >>

(* Mutant of Publish: the bootstrap route is replaced without its lock. *)
PublishUnderLeases(r) ==
  /\ At(r, "lockDoH")
  /\ w' = rl[r].id
  /\ doh' = IF HasDoH THEN rl[r].id ELSE None
  /\ openR' = openR \ {w} /\ openD' = openD \ {doh}
  /\ due' = FALSE
  /\ Go(r, "idle", None)
  /\ UNCHANGED << routingClosed, lookups, http, sd, outside >>

(* Under both locks: swap both routes, close both old ones.  Clearing the  *)
(* transports afterwards is ClearTransports of module Forwarding.          *)
Publish(r) ==
  /\ At(r, "lockDoH") /\ DWritable
  /\ w' = rl[r].id
  /\ doh' = IF HasDoH THEN rl[r].id ELSE None
  /\ openR' = openR \ {w} /\ openD' = openD \ {doh}
  /\ due' = FALSE
  /\ Go(r, "idle", None)
  /\ UNCHANGED << routingClosed, lookups, http, sd, outside >>

ReloadStep(r) ==
  Check(r) \/ Build(r) \/ BuildBootstrap(r) \/ Fenced(r) \/ LockRoute(r) \/ Publish(r)

(* ProxyReload passes. *)
Elapse ==
  /\ ~due /\ due' = TRUE
  /\ UNCHANGED << w, doh, built, routingClosed, rl, lookups, http, sd, outside >>

-----------------------------------------------------------------------------
(* Start: a listener cannot be opened, or s.srv is set and Serve runs.  A  *)
(* Shutdown that came before has found no srv.                             *)
ListenFails ==
  /\ http = "none" /\ http' = "failed"
  /\ UNCHANGED << w, doh, built, routingClosed, due, rl, lookups, sd, outside >>

Serve ==
  /\ http = "none" /\ http' = "serving"
  /\ UNCHANGED << w, doh, built, routingClosed, due, rl, lookups, sd, outside >>

-----------------------------------------------------------------------------
(* Shutdown, behind its sync.Once: RunWorker and a quit request call it    *)
(* with a deadline, Start without one when a listener fails.               *)
Shutdown ==
  /\ sd = "none" /\ sd' = "fence"
  /\ UNCHANGED << w, doh, built, routingClosed, due, rl, lookups, http, outside >>

Fence ==
  /\ sd = "fence" /\ WWritable
  /\ routingClosed' = TRUE
  /\ sd' = "http"
  /\ UNCHANGED << w, doh, built, due, rl, lookups, http, outside >>

(* srv.Shutdown closes the listeners first, then waits for the handlers. *)
CloseListeners ==
  /\ sd = "http"
  /\ IF http \notin {"none", "failed"} THEN sd' = "drain" /\ http' = "draining" ELSE sd' = "closeSup" /\ UNCHANGED http
  /\ UNCHANGED << w, doh, built, routingClosed, due, rl, lookups, outside >>

Drained ==
  /\ sd = "drain"
  /\ \A l \in Lookups : lk[l].pc = "idle"
  /\ sd' = "closeSup" /\ http' = "gone"
  /\ UNCHANGED << w, doh, built, routingClosed, due, rl, lookups, outside >>

DrainTimesOut ==
  /\ sd = "drain"
  /\ sd' = "closeSup" /\ http' = "abandoned"
  /\ UNCHANGED << w, doh, built, routingClosed, due, rl, lookups, outside >>

(* sup.Close cancels the owner actions and waits for them. *)
CancelActions ==
  /\ sd = "closeSup" /\ sd' = "waitSup"
  /\ UNCHANGED << w, doh, built, routingClosed, due, rl, lookups, http, outside >>

SupClosed ==
  /\ sd = "waitSup"
  /\ \A r \in Forced : rl[r].pc = "idle"
  /\ sd' = "closeDoH"
  /\ UNCHANGED << w, doh, built, routingClosed, due, rl, lookups, http, outside >>

CloseDoH ==
  /\ sd = "closeDoH" /\ DWritable /\ \A r \in Reloaders : ~Writing(r)
  /\ doh' = None /\ openD' = openD \ {doh}
  /\ sd' = "closeRoute"
  /\ UNCHANGED << w, openR, routingClosed, due, rl, lookups, http, outside >>

CloseRoute ==
  /\ sd = "closeRoute" /\ WWritable
  /\ w' = None /\ openR' = openR \ {w}
  /\ sd' = "closed"
  /\ UNCHANGED << doh, openD, routingClosed, due, rl, lookups, http, outside >>

ShutdownStep ==
  \/ Fence \/ CloseListeners \/ Drained
  \/ CancelActions \/ SupClosed \/ CloseDoH \/ CloseRoute

ChangeEnv ==
  /\ env < MaxChanges
  /\ env' = env + 1
  /\ UNCHANGED << w, doh, built, routingClosed, due, rl, lookups, http, sd, failures >>

Next ==
  \/ \E l \in Lookups : Ask(l) \/ LookupStep(l) \/ Resolve(l) \/ DialStep(l)
  \/ \E r \in Reloaders : ReloadStep(r) \/ BuildFails(r) \/ BootstrapFails(r)
  \/ Elapse \/ ListenFails \/ Serve
  \/ Shutdown \/ ShutdownStep \/ DrainTimesOut
  \/ ChangeEnv

Spec == Init /\ [][Next]_vars

(* Lookups and dials have timeouts of their own, a build is bounded I/O,   *)
(* the ticker ticks, and a released mutex goes to a waiter.  Nothing       *)
(* depends on Shutdown's deadline.                                         *)
Fairness ==
  /\ \A l \in Lookups : WF_vars(LookupStep(l)) /\ WF_vars(DialStep(l))
  /\ \A r \in Reloaders : WF_vars(ReloadStep(r))
  /\ WF_vars(Elapse) /\ WF_vars(ShutdownStep)

FairSpec == Spec /\ Fairness

-----------------------------------------------------------------------------
TypeOK ==
  /\ w \in Ids \cup {None} /\ doh \in Ids \cup {None}
  /\ openR \subseteq Ids /\ openD \subseteq Ids
  /\ env \in Envs /\ failures \in 0..MaxFailures
  /\ routingClosed \in BOOLEAN /\ due \in BOOLEAN
  /\ rl \in [Reloaders -> [pc : {"idle", "build", "built", "lock", "lockDoH"}, id : Ids \cup {None}]]
  /\ lk \in [Lookups -> [pc : {"idle", "asking", "using"}, use : Ids \cup {None}]]
  /\ ans \in [Lookups -> Ids \cup {None, Pending}]
  /\ dial \in [Lookups -> [pc : {"none", "asking", "leased"}, lease : Ids \cup {None}]]
  /\ http \in {"none", "failed", "serving", "draining", "gone", "abandoned"}
  /\ sd \in {"none", "fence", "http", "drain", "closeSup", "waitSup", "closeDoH", "closeRoute", "closed"}

(* The server implements module Routing: a lookup is answered by the route *)
(* that is published at one moment of the call, and nothing is published   *)
(* after routing was closed (wmu around the whole of findProxyForURL, the  *)
(* routingClosed fence in reloadProxy and Shutdown).                       *)
ImplementsRouting == R!RoutingSpec

(* A DoH connection attempt holds a lease on the current bootstrap route,  *)
(* whose resolver is open; until Shutdown closes it, that route comes from *)
(* the same reload as the ordinary route (the comments on                  *)
(* dohBootstrapRoute and in reloadProxy).                                  *)
BootstrapLease ==
  HasDoH =>
    /\ sd \notin {"closeRoute", "closed"} => doh = w
    /\ \A l \in Lookups : Leasing(l) => dial[l].lease = doh /\ doh \in openD

(* A resolver that is open is published or in the hands of the reload that *)
(* built it, which is the only one: every other path of reloadProxy and    *)
(* Shutdown has closed it.                                                 *)
NothingLeaks ==
  /\ openR \cup openD \subseteq {w, doh} \cup {rl[r].id : r \in Reloaders}
  /\ \A r \in Reloaders : rl[r].id # None =>
       /\ rl[r].id \notin {w, doh}
       /\ \A q \in Reloaders \ {r} : rl[q].id # rl[r].id

(* While the server runs, the route comes to agree with the environment    *)
(* again after every change, however reloads fail, overlap or publish an   *)
(* older build last; unless it was built in a mode that is not reloaded.   *)
Fresh == w # None /\ (EnvOf(w) = env \/ EnvOf(w) \in Pinned)

RouteFollowsEnvironment == []<>(http # "serving" \/ routingClosed \/ Fresh)

(* A Shutdown that has begun reaches close(s.closed): no order of lookups, *)
(* leases, reloads and owner actions blocks it on a lock.                  *)
ShutdownCompletes == sd # "none" ~> sd = "closed"
=============================================================================
