----------------------------- MODULE MCKerberos -----------------------------
(***************************************************************************)
(* A ticket outlives the margin by several checks; a refresh may take as   *)
(* long as the check interval.                                             *)
(***************************************************************************)
EXTENDS Kerberos
=============================================================================
