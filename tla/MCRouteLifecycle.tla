-------------------------- MODULE MCRouteLifecycle --------------------------
(* One lookup, the maintenance loop and one RefreshRoute; as many          *)
(* ids as can be in use at a time.                                         *)
EXTENDS RouteLifecycle
=============================================================================
