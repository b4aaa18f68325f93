----------------------------- MODULE MCTunnels -----------------------------
(* Three connections, one of them an upgrade, with two admission slots.    *)
EXTENDS Tunnels
=============================================================================
