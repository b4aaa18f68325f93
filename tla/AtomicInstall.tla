--------------------------- MODULE AtomicInstall ---------------------------
(***************************************************************************)
(* What self-update promises of the installed program: there always is     *)
(* one, it changes in one step, and only to a version that was released.   *)
(* Where updaters are serialised it never becomes older.                   *)
(***************************************************************************)
EXTENDS Naturals

CONSTANT MaxVersion

Versions == 1..MaxVersion

VARIABLES
  installed,  \* the version a user of the machine has, or can restore
  released,   \* the latest release
  serialised  \* the whole of an update is exclusive, not only its steps

AInit == installed \in Versions /\ released \in Versions /\ installed <= released /\ serialised \in BOOLEAN

Publish ==
  /\ released' \in Versions /\ released' > released
  /\ UNCHANGED << installed, serialised >>

Install ==
  /\ installed' \in 1..released
  /\ serialised => installed' >= installed
  /\ UNCHANGED << released, serialised >>

ANext == Publish \/ Install

InstallSpec == AInit /\ [][ANext]_<< installed, released, serialised >>
=============================================================================
