---------------------------- MODULE UpdateApply ----------------------------
(***************************************************************************)
(* internal/update and the update loop of main.go: the guardian process    *)
(* that updates itself (main), a user's `pxgo --update` (manual), and on   *)
(* Windows the helper that each of them leaves behind to replace the       *)
(* executable.  Unix replaces the file while it runs.  Every file          *)
(* operation is a step, may fail, and may be the last one before a crash.  *)
(*                                                                         *)
(* A file is the version in it: staging has checked the archive and run    *)
(* the candidate.  Downloads, checksums and archives are the outcome of    *)
(* Stage.  What guards the worker is module Guardian; here it is up or     *)
(* down.  Starting a second main while one lives has no effect: it cannot  *)
(* bind the listener.                                                      *)
(***************************************************************************)
EXTENDS Naturals

CONSTANTS
  MaxVersion, WindowsMax,  \* bounds: releases, and on Windows
  MaxCrashes,              \* bound: crashes
  None

Versions == 1..MaxVersion
Providers == {"direct", "managed"}
Results == {"current", "available", "prepared", "deferred", "applied", "check_failed", "apply_failed"}

Updaters == {"main", "manual"}
Helpers  == {"mainHelper", "manualHelper"}
Procs    == Updaters \cup Helpers
HelperOf(u) == IF u = "main" THEN "mainHelper" ELSE "manualHelper"
ParentOf(h) == IF h = "mainHelper" THEN "main" ELSE "manual"

ASSUME UpdateAssumption ==
  /\ MaxVersion \in Nat \ {0} /\ WindowsMax \in 1..MaxVersion /\ MaxCrashes \in Nat
  /\ None \notin Versions /\ None \notin Procs

VARIABLES
  plat, provider,   \* "unix" or "windows"; "direct" or "managed"
  feed,             \* the latest release
  target, backup,   \* the executable and target.pxgo-update-backup
  lock,             \* who holds the update lock, or None
  proc,             \* [pc, ver, cand] of each process
  up,               \* the worker of main serves
  record,           \* last_result in update-state.json
  crashes, excused  \* crashes so far; something outside the updater failed

files == << target, backup >>
fixed == << plat, provider >>
vars == << fixed, feed, files, lock, proc, up, record, crashes, excused >>

installed == IF backup # None THEN backup ELSE target
A == INSTANCE AtomicInstall WITH released <- feed, serialised <- (plat = "unix")

(* The last release the bound allows. *)
Newest == IF plat = "unix" THEN MaxVersion ELSE WindowsMax

Gone == [pc |-> "none", ver |-> 0, cand |-> 0]

Init ==
  /\ plat \in {"unix", "windows"} /\ provider \in Providers
  /\ feed \in 1..Newest /\ target \in 1..feed /\ backup = None
  /\ lock = None
  /\ proc = [p \in Procs |-> IF p = "main" THEN [pc |-> "serving", ver |-> target, cand |-> 0]
                                           ELSE Gone]
  /\ up = TRUE /\ record = "current"
  /\ crashes = 0 /\ excused = FALSE

-----------------------------------------------------------------------------
At(p, pc) == proc[p].pc = pc
Go(p, pc) == proc' = [proc EXCEPT ![p].pc = pc]

(* PreparedUpdate.Cleanup and the end of a process give up its lock. *)
Unlock(p) == lock' = IF lock = p THEN None ELSE lock

(* An attempt is over and its process goes on: main keeps or restarts its  *)
(* worker until the next interval, a manual update exits.                  *)
Over(p) == IF p = "main" THEN [proc[p] EXCEPT !.pc = "serving", !.cand = 0] ELSE Gone

(* The state file is replaced by a rename: old or new, never in between.   *)
(* (A failure to write it is ignored by all callers and left out.)         *)
WriteState(result) == record' = result

GiveUp(p, result) ==
  /\ proc' = [proc EXCEPT ![p] = Over(p)]
  /\ Unlock(p)
  /\ WriteState(result)

(* The interval of main has passed, or a user asks. *)
Begin(u) ==
  \/ u = "main" /\ At(u, "serving") /\ proc' = [proc EXCEPT ![u].pc = "lock"]
  \/ u = "manual" /\ At(u, "none") /\ target # None
     /\ proc' = [proc EXCEPT ![u] = [pc |-> "lock", ver |-> target, cand |-> 0]]

Start(u) == Begin(u) /\ UNCHANGED << fixed, feed, files, lock, up, record, crashes, excused >>

(* Mutant of Free: every process finds the lock free. *)
AlwaysFree == TRUE

Free == lock = None

(* How a failed Prepare is recorded. *)
PrepareFailed(u) == IF u = "main" THEN "check_failed" ELSE "apply_failed"

(* Prepare: the lock is tried once. *)
AcquireLock(u) ==
  /\ At(u, "lock")
  /\ IF Free
     THEN lock' = u /\ Go(u, "check") /\ record' = record
     ELSE GiveUp(u, PrepareFailed(u))
  /\ UNCHANGED << fixed, feed, files, up, crashes, excused >>

CheckFails(u) ==
  /\ At(u, "check")
  /\ GiveUp(u, PrepareFailed(u))
  /\ UNCHANGED << fixed, feed, files, up, crashes, excused >>

StageFails(u) ==
  /\ At(u, "stage")
  /\ GiveUp(u, PrepareFailed(u))
  /\ UNCHANGED << fixed, feed, files, up, crashes, excused >>

NotAvailable(u) ==
  /\ At(u, "check") /\ feed <= proc[u].ver
  /\ GiveUp(u, "current")
  /\ UNCHANGED << fixed, feed, files, up, crashes, excused >>

Available(u) ==
  /\ At(u, "check") /\ feed > proc[u].ver
  /\ proc' = [proc EXCEPT ![u].cand = feed, ![u].pc = IF provider = "direct" THEN "stage" ELSE "prepared"]
  /\ UNCHANGED << fixed, feed, files, lock, up, record, crashes, excused >>

Stage(u) ==
  /\ At(u, "stage")
  /\ Go(u, "prepared")
  /\ UNCHANGED << fixed, feed, files, lock, up, record, crashes, excused >>

(* main stops its worker before anything is replaced. *)
Prepared(u) ==
  /\ At(u, "prepared")
  /\ Go(u, "apply")
  /\ record' = IF u = "main" THEN "prepared" ELSE record
  /\ up' = IF u = "main" THEN FALSE ELSE up
  /\ UNCHANGED << fixed, feed, files, lock, crashes, excused >>

StopFails ==
  /\ At("main", "apply") /\ ~up
  /\ proc' = [proc EXCEPT !["main"] = Gone] /\ Unlock("main")
  /\ excused' = TRUE
  /\ UNCHANGED << fixed, feed, files, up, record, crashes >>

-----------------------------------------------------------------------------
(* ApplyPreparedWithRestart. *)
Applied(u) == At(u, "applied")

(* A package manager replaces the executable, or fails; its result may     *)
(* also fail the version check.                                            *)
Upgrade(u) ==
  /\ At(u, "apply") /\ provider = "managed"
  /\ \/ target' = target /\ GiveUp(u, "apply_failed")
     \/ target' = proc[u].cand /\ GiveUp(u, "apply_failed")
     \/ target' = proc[u].cand /\ Go(u, "applied") /\ UNCHANGED << lock, record >>
  /\ UNCHANGED << fixed, feed, backup, up, crashes, excused >>

(* Windows: the candidate is started as a helper; this process records     *)
(* that and exits, which releases the lock.  At most one helper of each    *)
(* kind is kept.                                                           *)
SpawnHelper(u) ==
  /\ At(u, "apply") /\ provider = "direct" /\ plat = "windows"
  /\ At(HelperOf(u), "none")
  /\ proc' = [proc EXCEPT ![u].pc = "deferred",
                          ![HelperOf(u)] = [pc |-> "wait", ver |-> proc[u].cand, cand |-> proc[u].cand]]
  /\ UNCHANGED << fixed, feed, files, lock, up, record, crashes, excused >>

SpawnFails(u) ==
  /\ At(u, "apply") /\ provider = "direct" /\ plat = "windows"
  /\ GiveUp(u, "apply_failed")
  /\ UNCHANGED << fixed, feed, files, up, crashes, excused >>

(* The helper runs, but its handle cannot be released: reported as failed. *)
SpawnedButFails(u) ==
  /\ At(u, "apply") /\ provider = "direct" /\ plat = "windows"
  /\ At(HelperOf(u), "none")
  /\ proc' = [proc EXCEPT ![u] = Over(u),
                          ![HelperOf(u)] = [pc |-> "wait", ver |-> proc[u].cand, cand |-> proc[u].cand]]
  /\ Unlock(u) /\ WriteState("apply_failed")
  /\ excused' = TRUE
  /\ UNCHANGED << fixed, feed, files, up, crashes >>

Deferred(u) ==
  /\ At(u, "deferred")
  /\ proc' = [proc EXCEPT ![u] = Gone] /\ Unlock(u)
  /\ WriteState("deferred")
  /\ UNCHANGED << fixed, feed, files, up, crashes, excused >>

(* Mutant of ParentGone: the helper goes ahead beside its parent. *)
ParentNotAwaited(h) ==
  /\ At(h, "wait")
  /\ Go(h, "acquire")
  /\ UNCHANGED << fixed, feed, files, lock, up, record, crashes, excused >>

ParentGone(h) ==
  /\ At(h, "wait") /\ At(ParentOf(h), "none")
  /\ Go(h, "acquire")
  /\ UNCHANGED << fixed, feed, files, lock, up, record, crashes, excused >>

WaitTimesOut(h) ==
  /\ At(h, "wait") /\ ~At(ParentOf(h), "none")
  /\ Go(h, "failed")
  /\ excused' = TRUE
  /\ UNCHANGED << fixed, feed, files, lock, up, record, crashes >>

HelperLock(h) ==
  /\ At(h, "acquire")
  /\ IF Free THEN lock' = h /\ Go(h, "apply") ELSE lock' = lock /\ Go(h, "failed")
  /\ UNCHANGED << fixed, feed, files, up, record, crashes, excused >>

-----------------------------------------------------------------------------
(* The replacement, the same steps on both systems.  Swapper: whoever is   *)
(* to do it there.                                                         *)
Swapper(p) == provider = "direct" /\ ((p \in Updaters) <=> (plat = "unix"))

(* runApplyHelper returns an error: its lock is closed, the rest is        *)
(* HelperFailed.  On Unix the updater goes on at once.                     *)
ApplyFails(p) ==
  IF p \in Helpers THEN Go(p, "failed") /\ Unlock(p) /\ record' = record
  ELSE GiveUp(p, "apply_failed")

CopyFails(p) ==
  /\ Swapper(p) /\ At(p, "apply")
  /\ ApplyFails(p)
  /\ UNCHANGED << fixed, feed, files, up, crashes, excused >>

ReadyToSwap == target # None /\ backup = None

Copy(p) ==
  /\ Swapper(p) /\ At(p, "apply") /\ ReadyToSwap
  /\ Go(p, "rename")
  /\ UNCHANGED << fixed, feed, files, lock, up, record, crashes, excused >>

RenameAway(p) ==
  /\ At(p, "rename") /\ target # None
  /\ backup' = target /\ target' = None
  /\ Go(p, "activate")
  /\ UNCHANGED << fixed, feed, lock, up, record, crashes, excused >>

RenameFails(p) ==
  /\ At(p, "rename")
  /\ ApplyFails(p)
  /\ UNCHANGED << fixed, feed, files, up, crashes, excused >>

Activate(p) ==
  /\ At(p, "activate")
  /\ target' = proc[p].cand
  /\ Go(p, "verify")
  /\ UNCHANGED << fixed, feed, backup, lock, up, record, crashes, excused >>

ActivateFails(p) ==
  /\ At(p, "activate")
  /\ Go(p, "rollback")
  /\ UNCHANGED << fixed, feed, files, lock, up, record, crashes, excused >>

Verify(p) ==
  /\ At(p, "verify")
  /\ Go(p, "drop")
  /\ UNCHANGED << fixed, feed, files, lock, up, record, crashes, excused >>

(* The version check fails: the new file is removed, or cannot be. *)
VerifyFails(p) ==
  /\ At(p, "verify")
  /\ target' \in {None, target}
  /\ Go(p, "rollback")
  /\ UNCHANGED << fixed, feed, backup, lock, up, record, crashes, excused >>

Rollback(p) ==
  /\ At(p, "rollback")
  /\ \/ backup # None /\ target' = backup /\ backup' = None
     \/ UNCHANGED files
  /\ ApplyFails(p)
  /\ UNCHANGED << fixed, feed, up, crashes, excused >>

DropBackup(p) ==
  /\ At(p, "drop") /\ backup # None
  /\ backup' = None
  /\ IF p \in Helpers THEN Go(p, "restart") /\ lock' = lock ELSE Go(p, "applied") /\ Unlock(p)
  /\ UNCHANGED << fixed, feed, target, up, record, crashes, excused >>

(* The rollback copy stays: a failure of the update on Unix, not on Windows. *)
DropFails(p) ==
  /\ At(p, "drop")
  /\ IF p \in Helpers THEN Go(p, "restart") /\ UNCHANGED << lock, record >> ELSE ApplyFails(p)
  /\ UNCHANGED << fixed, feed, files, up, crashes, excused >>

-----------------------------------------------------------------------------
(* The end: the worker comes back, from the new or the old executable. *)

(* A process is started from target: it becomes main unless main lives. *)
Started(q) == IF q["main"].pc = "none" /\ target # None
              THEN [q EXCEPT !["main"] = [pc |-> "serving", ver |-> target, cand |-> 0]] ELSE q

HelperRestart(h) ==
  /\ At(h, "restart")
  /\ Unlock(h)
  /\ \/ /\ proc' = IF h = "mainHelper" THEN Started([proc EXCEPT ![h].pc = "record"])
                                       ELSE [proc EXCEPT ![h].pc = "record"]
        /\ excused' = excused
     \/ h = "mainHelper" /\ Go(h, "failed") /\ excused' = TRUE
  /\ UNCHANGED << fixed, feed, files, up, record, crashes >>

HelperRecord(h) ==
  /\ At(h, "record")
  /\ proc' = [proc EXCEPT ![h] = Gone]
  /\ WriteState("applied")
  /\ UNCHANGED << fixed, feed, files, lock, up, crashes, excused >>

(* Mutant of SafeToRestart: the old executable is never restarted. *)
NeverSafeToRestart(h) == FALSE

SafeToRestart(h) == h = "mainHelper" /\ target # None /\ backup = None

HelperFailed(h) ==
  /\ At(h, "failed")
  /\ WriteState("apply_failed")
  /\ \/ /\ proc' = LET gone == [proc EXCEPT ![h] = Gone]
                   IN IF SafeToRestart(h) THEN Started(gone) ELSE gone
        /\ excused' = excused
     \/ proc' = [proc EXCEPT ![h] = Gone] /\ excused' = TRUE
  /\ UNCHANGED << fixed, feed, files, lock, up, crashes >>

(* Unix, or a managed install: main runs the new executable in its place,  *)
(* without the lock, and fails if there is none just then.                 *)
Reexec(u) ==
  /\ Applied(u)
  /\ Unlock(u) /\ WriteState("applied")
  /\ proc' = [proc EXCEPT ![u] = IF u = "manual" \/ target = None THEN Gone
                                 ELSE [pc |-> "serving", ver |-> target, cand |-> 0]]
  /\ excused' = (excused \/ (u = "main" /\ target = None))
  /\ UNCHANGED << fixed, feed, files, up, crashes >>

(* The guardian starts a worker from the executable. *)
StartWorker ==
  /\ proc["main"].pc \in {"serving", "lock", "check", "stage", "prepared"}
  /\ ~up /\ target # None
  /\ up' = TRUE
  /\ UNCHANGED << fixed, feed, files, lock, proc, record, crashes, excused >>

(* `pxgo --check-update`, or main in notify mode: neither takes the lock. *)
CheckOnly ==
  /\ \/ WriteState("check_failed")
     \/ \E v \in {target, proc["main"].ver} \cap Versions :
          WriteState(IF feed > v THEN "available" ELSE "current")
  /\ UNCHANGED << fixed, feed, files, lock, proc, up, crashes, excused >>

(* A user starts main again. *)
Launch ==
  /\ At("main", "none") /\ target # None
  /\ proc' = Started(proc)
  /\ UNCHANGED << fixed, feed, files, lock, up, record, crashes, excused >>

Release ==
  /\ feed < Newest
  /\ feed' = feed + 1
  /\ UNCHANGED << fixed, files, lock, proc, up, record, crashes, excused >>

Crash(p) ==
  /\ crashes < MaxCrashes /\ ~At(p, "none")
  /\ crashes' = crashes + 1 /\ excused' = TRUE
  /\ proc' = [proc EXCEPT ![p] = Gone] /\ Unlock(p)
  /\ up' = IF p = "main" THEN FALSE ELSE up
  /\ UNCHANGED << fixed, feed, files, record >>

-----------------------------------------------------------------------------
PrepareStep(u) ==
  AcquireLock(u) \/ CheckFails(u) \/ StageFails(u) \/ NotAvailable(u) \/ Available(u) \/ Stage(u) \/ Prepared(u)
ApplyStep(u) == Upgrade(u) \/ SpawnHelper(u) \/ SpawnFails(u) \/ SpawnedButFails(u) \/ Deferred(u) \/ Reexec(u)
SwapStep(p) ==
  \/ CopyFails(p) \/ Copy(p) \/ RenameAway(p) \/ RenameFails(p) \/ Activate(p) \/ ActivateFails(p)
  \/ Verify(p) \/ VerifyFails(p) \/ Rollback(p) \/ DropBackup(p) \/ DropFails(p)
HelperStep(h) == ParentGone(h) \/ HelperLock(h) \/ HelperRestart(h) \/ HelperRecord(h) \/ HelperFailed(h)

Progress ==
  \/ \E u \in Updaters : PrepareStep(u) \/ ApplyStep(u)
  \/ \E p \in Procs : SwapStep(p)
  \/ \E h \in Helpers : HelperStep(h)

Next ==
  \/ Progress \/ StartWorker \/ StopFails \/ CheckOnly \/ Launch \/ Release
  \/ \E u \in Updaters : Start(u)
  \/ \E h \in Helpers : WaitTimesOut(h)
  \/ \E p \in Procs : Crash(p)

Spec == Init /\ [][Next]_vars

(* main and its helper run, timeouts bound their waiting; between two      *)
(* updates there is ample time for a worker to start.                      *)
Fairness ==
  /\ WF_vars(PrepareStep("main") \/ ApplyStep("main") \/ SwapStep("main"))
  /\ WF_vars(HelperStep("mainHelper") \/ SwapStep("mainHelper"))
  /\ SF_vars(StartWorker)

FairSpec == Spec /\ Fairness

-----------------------------------------------------------------------------
TypeOK ==
  /\ plat \in {"unix", "windows"} /\ provider \in Providers
  /\ feed \in Versions
  /\ target \in Versions \cup {None} /\ backup \in Versions \cup {None}
  /\ lock \in Procs \cup {None}
  /\ proc \in [Procs -> [pc : STRING, ver : 0..MaxVersion, cand : 0..MaxVersion]]
  /\ up \in BOOLEAN /\ record \in Results /\ crashes \in Nat /\ excused \in BOOLEAN

(* Updating implements the atomic installation of releases: whatever fails *)
(* or crashes, and however many processes update, the executable or its    *)
(* rollback copy is a released version, the change happens at the removal  *)
(* of the copy (apply_unix.go, apply_windows.go), and on Unix, where the   *)
(* lock is held from the check on, never to an older version.              *)
ImplementsAtomicInstall == A!InstallSpec

(* An update never takes the service away for good: once main has stopped  *)
(* its worker there is a worker again, from the new or the old executable, *)
(* unless the executable is missing or its rollback copy is outstanding    *)
(* (the cases safeToRestartExistingTarget excludes) or something outside   *)
(* the updater failed.                                                     *)
Interrupted == ~up /\ (~At("main", "none") \/ ~At("mainHelper", "none"))
ServiceResumes == Interrupted ~> (up \/ excused \/ target = None \/ backup # None)

(* When no update is under way and nothing outside failed, the state file  *)
(* tells how the last one ended: a helper's verdict is never overwritten   *)
(* by the "prepared" or "deferred" of the process that started it          *)
(* (writeApplyHelperState, runGuardianAutoUpdateLoopWithOptions).          *)
Quiet == /\ \A p \in Procs \ {"main"} : At(p, "none")
         /\ proc["main"].pc \in {"none", "serving"}
RecordSettles == Quiet /\ ~excused => record \notin {"prepared", "deferred"}
=============================================================================
