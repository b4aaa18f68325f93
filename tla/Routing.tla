------------------------------ MODULE Routing ------------------------------
(***************************************************************************)
(* What Server promises its requests about routing: there is one published *)
(* route, every lookup is answered by the route published at one moment of *)
(* the call, a retired route answers nobody, and closing is final.         *)
(* Module RouteLifecycle implements it with locks, reloads and Shutdown.   *)
(***************************************************************************)
CONSTANTS Lookups, Ids, None, Pending

VARIABLES
  current,  \* the published route, None once routing is closed
  ans       \* what each lookup was answered, Pending while it is open

routing == << current, ans >>

RInit ==
  /\ current \in Ids
  /\ ans = [l \in Lookups |-> None]

Ask(l) == ans[l] # Pending /\ ans' = [ans EXCEPT ![l] = Pending] /\ UNCHANGED current

Answer(l) == ans[l] = Pending /\ ans' = [ans EXCEPT ![l] = current] /\ UNCHANGED current

Replace == current # None /\ current' \in Ids \ {current} /\ UNCHANGED ans

CloseRouting == current' = None /\ UNCHANGED ans

RNext ==
  \/ \E l \in Lookups : Ask(l) \/ Answer(l)
  \/ Replace
  \/ CloseRouting

RoutingSpec == RInit /\ [][RNext]_routing
=============================================================================
