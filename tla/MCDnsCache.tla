----------------------------- MODULE MCDnsCache -----------------------------
(* Three callers on two hosts of a cache with room for one entry, across a *)
(* network change and the expiry of what was stored before it.             *)
EXTENDS DnsCache

(* Every caller gets an answer: no waiter is stranded on a call that       *)
(* ClearNetworkState detached or a later call superseded.  The callers are *)
(* interchangeable, so it is enough to follow one of them.                 *)
EveryCallerReturns == CallerReturns(CHOOSE p \in Callers : TRUE)
=============================================================================
