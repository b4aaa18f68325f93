---------------------------- MODULE MCSupervisor ----------------------------
(* Two requests and the maintenance loop, two proxies with room for the    *)
(* health of one: every failure of the other proxy evicts an entry.  With  *)
(* thresholds of two and three, three reports reach a cooldown, a network  *)
(* epoch or a fatal request, and time goes on past each window.            *)
EXTENDS Supervisor
=============================================================================
