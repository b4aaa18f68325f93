------------------------------ MODULE MCRelay ------------------------------
(* An idle period of three with a grace of one, and time for two of them.  *)
EXTENDS Relay
=============================================================================
