--------------------------- MODULE MCUpdateApply ---------------------------
(* UpdateApply on both systems, with a package manager and without, for    *)
(* three releases and a crash.                                             *)
EXTENDS UpdateApply
=============================================================================
