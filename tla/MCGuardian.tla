---------------------------- MODULE MCGuardian ----------------------------
(* One worker at a time and one stray, a hang window of two checks, a      *)
(* restart schedule of two delays, and one pause of any length up to just  *)
(* beyond the window.                                                      *)
EXTENDS Guardian

MCSchedule == << 1, 2 >>
=============================================================================
