-------------------------- MODULE UpdateApplyProofs --------------------------
(***************************************************************************)
(* Updating implements the atomic installation of releases, for any number *)
(* of releases and crashes, and the state file tells how an update ended.  *)
(***************************************************************************)
EXTENDS UpdateApply, TLAPS

(* Where a process holds the lock, and where it has a candidate. *)
Locked == {"check", "stage", "prepared", "apply", "rename", "activate", "verify", "rollback", "drop"}
Helping == {"wait", "acquire"}
Chosen == (Locked \ {"check"}) \cup Helping

Steps == Locked \cup Helping \cup {"none", "serving", "lock", "applied", "deferred", "restart", "record", "failed"}

Process == [pc : Steps, ver : 0..MaxVersion, cand : 0..MaxVersion]

Typed ==
  /\ feed \in Versions
  /\ target \in Versions \cup {None} /\ backup \in Versions \cup {None}
  /\ proc \in [Procs -> Process]

(* What the files are at each step of the replacement, and why the         *)
(* candidate is good enough.                                               *)
SoundAt(p, x) ==
  /\ x \in Locked => lock = p
  /\ x \in Chosen => proc[p].cand \in 1..feed
  /\ x \in Chosen /\ plat = "unix" => installed <= proc[p].cand
  /\ x \in Helping => plat # "unix"
  /\ x = "rename" => target # None /\ backup = None
  /\ x \in {"activate", "verify", "rollback", "drop"} => backup # None
  /\ x \in {"verify", "drop"} => target = proc[p].cand

Sound(p) == SoundAt(p, proc[p].pc)

IInv ==
  /\ Typed
  /\ installed \in 1..feed
  /\ \A p \in Procs : Sound(p)

-----------------------------------------------------------------------------
(* A step that keeps the feed, seen by every process: either it keeps that *)
(* process and does not touch the files under its lock, or it leaves the   *)
(* process sound.                                                          *)
LEMMA Assemble ==
  ASSUME IInv, UNCHANGED << fixed, feed >>, Typed', installed' \in 1..feed,
         \A q \in Procs : \/ Sound(q)'
                          \/ /\ proc'[q] = proc[q]
                             /\ lock # q \/ (lock' = lock /\ UNCHANGED files)
  PROVE  IInv'
<1>1. ASSUME NEW q \in Procs,
             proc'[q] = proc[q], lock # q \/ (lock' = lock /\ UNCHANGED files)
      PROVE  Sound(q)'
  <2>1. Sound(q) /\ feed' = feed /\ plat' = plat
    BY DEF IInv, fixed
  <2>2. CASE lock # q
    BY <1>1, <2>1, <2>2 DEF Sound, SoundAt, Locked, Chosen, Helping
  <2>3. CASE lock' = lock /\ UNCHANGED files
    <3>1. installed' = installed /\ target' = target /\ backup' = backup
      BY <2>3 DEF installed, files
    <3>2. QED
      BY <1>1, <2>1, <2>3, <3>1 DEF Sound, SoundAt
  <2>4. QED
    BY <1>1, <2>2, <2>3
<1>2. QED
  BY <1>1 DEF IInv, fixed

(* Replacing one process keeps the others. *)
LEMMA SetProc ==
  ASSUME proc \in [Procs -> Process], NEW p \in Procs, NEW r \in Process, proc' = [proc EXCEPT ![p] = r]
  PROVE  /\ proc' \in [Procs -> Process]
         /\ proc'[p] = r
         /\ \A q \in Procs : q # p => proc'[q] = proc[q]
OBVIOUS

(* Moving one process keeps its candidate. *)
LEMMA GoProc ==
  ASSUME proc \in [Procs -> Process], NEW p \in Procs, NEW x \in Steps, Go(p, x)
  PROVE  /\ proc' \in [Procs -> Process]
         /\ proc'[p].pc = x /\ proc'[p].cand = proc[p].cand
         /\ \A q \in Procs : q # p => proc'[q] = proc[q]
BY DEF Go, Process

(* The end of an attempt is the end of its candidate. *)
LEMMA OverProc ==
  ASSUME proc \in [Procs -> Process], NEW p \in Procs
  PROVE  /\ Over(p) \in Process /\ Over(p).pc \in {"serving", "none"}
         /\ Gone \in Process /\ Gone.pc = "none"
<1>0. 0 \in 0..MaxVersion
  BY UpdateAssumption
<1>1. Gone \in Process /\ Gone.pc = "none"
  BY <1>0 DEF Gone, Process, Steps
<1>2. proc[p] \in Process
  OBVIOUS
<1>3. CASE p = "main"
  <2>1. Over(p) = [pc |-> "serving", ver |-> proc[p].ver, cand |-> 0]
    BY <1>2, <1>3 DEF Over, Process
  <2>2. QED
    BY <1>0, <1>1, <1>2, <2>1 DEF Process, Steps
<1>4. CASE p # "main"
  BY <1>1, <1>4 DEF Over
<1>5. QED
  BY <1>3, <1>4

(* A process that stops without touching the files. *)
LEMMA Stops ==
  ASSUME IInv, NEW p \in Procs, NEW r \in Process, proc' = [proc EXCEPT ![p] = r],
         r.pc \notin Locked, r.pc \notin Helping,
         Unlock(p) \/ lock' = lock, UNCHANGED << fixed, feed, files >>
  PROVE  IInv'
<1>1. /\ proc' \in [Procs -> Process]
      /\ proc'[p] = r
      /\ \A q \in Procs : q # p => proc'[q] = proc[q]
  BY SetProc DEF IInv, Typed
<1>2. Typed' /\ installed' \in 1..feed
  BY <1>1 DEF IInv, Typed, installed, files
<1>3. Sound(p)'
  BY <1>1 DEF Sound, SoundAt, Locked, Helping, Chosen
<1>4. \A q \in Procs : q # p => lock # q \/ lock' = lock
  BY DEF Unlock
<1>5. QED
  BY <1>1, <1>2, <1>3, <1>4, Assemble

(* ... and in particular one that gives up. *)
LEMMA GivesUp ==
  ASSUME IInv, NEW p \in Procs, NEW result, GiveUp(p, result), UNCHANGED << fixed, feed, files >>
  PROVE  IInv'
<1>1. Over(p) \in Process /\ Over(p).pc \notin Locked /\ Over(p).pc \notin Helping
  BY OverProc DEF IInv, Typed, Locked, Helping
<1>2. QED
  BY <1>1, Stops DEF GiveUp

(* A process that goes on, with its lock or with one that was free. *)
LEMMA Advances ==
  ASSUME IInv, NEW p \in Procs,
         proc' \in [Procs -> Process], \A q \in Procs : q # p => proc'[q] = proc[q],
         Sound(p)', lock' = lock \/ lock = None, UNCHANGED << fixed, feed, files >>
  PROVE  IInv'
<1>1. Typed' /\ installed' \in 1..feed
  BY DEF IInv, Typed, installed, files
<1>2. \A q \in Procs : lock # q \/ lock' = lock
  BY UpdateAssumption
<1>3. QED
  BY <1>1, <1>2, Assemble

(* ... and in particular one that only goes from step to step. *)
LEMMA GoesOn ==
  ASSUME IInv, NEW p \in Procs, NEW x \in Steps, Go(p, x), SoundAt(p, x),
         lock' = lock, UNCHANGED << fixed, feed, files >>
  PROVE  IInv'
<1>1. /\ proc' \in [Procs -> Process]
      /\ proc'[p].pc = x /\ proc'[p].cand = proc[p].cand
      /\ \A q \in Procs : q # p => proc'[q] = proc[q]
  BY GoProc DEF IInv, Typed
<1>2. installed' = installed /\ target' = target /\ backup' = backup /\ plat' = plat
  BY DEF installed, files, fixed
<1>3. Sound(p)'
  BY <1>1, <1>2 DEF Sound, SoundAt
<1>4. QED
  BY <1>1, <1>3, Advances

(* The holder of the lock changes the files. *)
LEMMA Changes ==
  ASSUME IInv, NEW p \in Procs, lock = p, UNCHANGED << fixed, feed >>,
         proc' \in [Procs -> Process], \A q \in Procs : q # p => proc'[q] = proc[q],
         target' \in Versions \cup {None}, backup' \in Versions \cup {None},
         installed' \in 1..feed, Sound(p)'
  PROVE  IInv'
<1>1. Typed'
  BY DEF IInv, Typed
<1>2. QED
  BY <1>1, Assemble

-----------------------------------------------------------------------------
(* Prepare: the candidate is the feed of an instant under the lock. *)
LEMMA PrepareInv ==
  ASSUME IInv, NEW u \in Updaters, PrepareStep(u)
  PROVE  IInv'
<1> u \in Procs /\ Sound(u) /\ proc \in [Procs -> Process] /\ proc[u] \in Process
  BY DEF Updaters, Procs, IInv, Typed
<1> USE DEF At
<1>1. CASE AcquireLock(u)
  <2>1. CASE Free
    <3>1. "check" \in Steps /\ Go(u, "check") /\ lock = None /\ lock' = u /\ UNCHANGED << fixed, feed, files >>
      BY <1>1, <2>1 DEF AcquireLock, Free, Steps, Locked
    <3>2. proc' \in [Procs -> Process] /\ proc'[u].pc = "check" /\ \A q \in Procs : q # u => proc'[q] = proc[q]
      BY <3>1, GoProc
    <3>3. Sound(u)'
      BY <3>1, <3>2 DEF Sound, SoundAt, Chosen, Locked, Helping
    <3>4. QED
      BY <3>1, <3>2, <3>3, Advances
  <2>2. CASE ~Free
    BY <1>1, <2>2, GivesUp DEF AcquireLock
  <2>3. QED
    BY <2>1, <2>2
<1>2. CASE CheckFails(u)
  BY <1>2, GivesUp DEF CheckFails
<1>3. CASE StageFails(u)
  BY <1>3, GivesUp DEF StageFails
<1>4. CASE NotAvailable(u)
  BY <1>4, GivesUp DEF NotAvailable
<1>5. CASE Available(u)
  <2> DEFINE x == IF provider = "direct" THEN "stage" ELSE "prepared"
  <2> DEFINE r == [pc |-> x, ver |-> proc[u].ver, cand |-> feed]
  <2>1. x \in Steps /\ x \in {"stage", "prepared"}
    BY DEF Steps, Locked
  <2>2. feed \in 1..feed /\ feed \in 0..MaxVersion /\ installed <= feed
    BY UpdateAssumption DEF IInv, Typed, Versions
  <2>3. r \in Process
    BY <2>1, <2>2 DEF Process
  <2>4. proc' = [proc EXCEPT ![u] = r]
    BY <1>5 DEF Available, Process
  <2>5. proc' \in [Procs -> Process] /\ proc'[u] = r /\ \A q \in Procs : q # u => proc'[q] = proc[q]
    BY <2>3, <2>4, SetProc
  <2>6. lock = u /\ lock' = lock /\ UNCHANGED << fixed, feed, files >>
    BY <1>5 DEF Available, Sound, SoundAt, Locked
  <2>7. proc'[u].pc = x /\ proc'[u].cand = feed
    BY <2>5
  <2> HIDE DEF x, r
  <2>8. Sound(u)'
    BY <2>1, <2>2, <2>6, <2>7 DEF Sound, SoundAt, Helping, installed, files
  <2>9. QED
    BY <2>5, <2>6, <2>8, Advances
<1>6. CASE Stage(u)
  <2>1. "prepared" \in Steps /\ SoundAt(u, "prepared")
    BY <1>6 DEF Stage, Sound, SoundAt, Locked, Chosen, Helping, Steps
  <2>2. QED
    BY <1>6, <2>1, GoesOn DEF Stage
<1>7. CASE Prepared(u)
  <2>1. "apply" \in Steps /\ SoundAt(u, "apply")
    BY <1>7 DEF Prepared, Sound, SoundAt, Locked, Chosen, Helping, Steps
  <2>2. QED
    BY <1>7, <2>1, GoesOn DEF Prepared
<1>8. QED
  BY <1>1, <1>2, <1>3, <1>4, <1>5, <1>6, <1>7 DEF PrepareStep

-----------------------------------------------------------------------------
(* A replacement that fails leaves a process without lock and candidate. *)
LEMMA FailsProc ==
  ASSUME IInv, NEW p \in Procs, ApplyFails(p)
  PROVE  /\ proc' \in [Procs -> Process]
         /\ proc'[p].pc \notin Locked /\ proc'[p].pc \notin Helping
         /\ \A q \in Procs : q # p => proc'[q] = proc[q]
         /\ Unlock(p)
<1>1. CASE p \in Helpers
  <2>1. "failed" \in Steps /\ Go(p, "failed") /\ Unlock(p)
    BY <1>1 DEF ApplyFails, Steps
  <2>2. /\ proc' \in [Procs -> Process] /\ proc'[p].pc = "failed"
        /\ \A q \in Procs : q # p => proc'[q] = proc[q]
    BY <2>1, GoProc DEF IInv, Typed
  <2>3. QED
    BY <2>1, <2>2 DEF Locked, Helping
<1>2. CASE p \notin Helpers
  <2>1. proc' = [proc EXCEPT ![p] = Over(p)] /\ Unlock(p)
    BY <1>2 DEF ApplyFails, GiveUp
  <2>2. Over(p) \in Process /\ Over(p).pc \in {"serving", "none"}
    BY OverProc DEF IInv, Typed
  <2>3. proc' \in [Procs -> Process] /\ proc'[p] = Over(p) /\ \A q \in Procs : q # p => proc'[q] = proc[q]
    BY <2>1, <2>2, SetProc DEF IInv, Typed
  <2>4. QED
    BY <2>1, <2>2, <2>3 DEF Locked, Helping
<1>3. QED
  BY <1>1, <1>2

(* The holder of the lock ends, whatever became of the files. *)
LEMMA Ends ==
  ASSUME IInv, NEW p \in Procs, lock = p, UNCHANGED << fixed, feed >>,
         proc' \in [Procs -> Process], proc'[p].pc \notin Locked, proc'[p].pc \notin Helping,
         \A q \in Procs : q # p => proc'[q] = proc[q],
         target' \in Versions \cup {None}, backup' \in Versions \cup {None}, installed' \in 1..feed
  PROVE  IInv'
<1>1. Sound(p)'
  BY DEF Sound, SoundAt, Locked, Helping, Chosen
<1>2. QED
  BY <1>1, Changes

(* The replacement: the old version is the target or its backup until the  *)
(* backup of a verified target is removed.                                 *)
LEMMA SwapInv ==
  ASSUME IInv, NEW p \in Procs, SwapStep(p)
  PROVE  IInv'
<1> /\ Sound(p) /\ proc \in [Procs -> Process] /\ proc[p] \in Process
    /\ feed \in Versions /\ installed \in 1..feed
    /\ target \in Versions \cup {None} /\ backup \in Versions \cup {None}
  BY DEF IInv, Typed
<1> USE DEF At
<1>0. ASSUME NEW x \in Locked, At(p, x), ApplyFails(p), UNCHANGED << fixed, feed, files >>
      PROVE  IInv'
  <2>1. lock = p
    BY <1>0 DEF Sound, SoundAt
  <2>2. QED
    BY <1>0, <2>1, FailsProc, Ends DEF files, installed
<1>1. CASE CopyFails(p)
  BY <1>1, <1>0 DEF CopyFails, Locked
<1>2. CASE Copy(p)
  <2>1. "rename" \in Steps /\ SoundAt(p, "rename")
    BY <1>2 DEF Copy, ReadyToSwap, Sound, SoundAt, Locked, Chosen, Helping, Steps
  <2>2. QED
    BY <1>2, <2>1, GoesOn DEF Copy
<1>3. CASE RenameAway(p)
  <2>1. lock = p /\ target # None /\ backup = None /\ backup' = target /\ target' = None
    BY <1>3 DEF RenameAway, Sound, SoundAt, Locked
  <2>2. installed' = installed /\ plat' = plat /\ feed' = feed /\ lock' = lock
    BY <1>3, <2>1 DEF RenameAway, installed, fixed
  <2>3. "activate" \in Steps
    BY DEF Steps, Locked
  <2>4. /\ proc' \in [Procs -> Process] /\ proc'[p].pc = "activate" /\ proc'[p].cand = proc[p].cand
        /\ \A q \in Procs : q # p => proc'[q] = proc[q]
    BY <1>3, <2>3, GoProc DEF RenameAway
  <2>5. Sound(p)'
    BY <1>3, <2>1, <2>2, <2>4 DEF RenameAway, Sound, SoundAt, Locked, Chosen, Helping
  <2>6. UNCHANGED << fixed, feed >>
    BY <1>3 DEF RenameAway
  <2>7. QED
    BY <2>1, <2>2, <2>4, <2>5, <2>6, Changes
<1>4. CASE RenameFails(p)
  BY <1>4, <1>0 DEF RenameFails, Locked
<1>5. CASE Activate(p)
  <2>1. lock = p /\ backup # None /\ backup' = backup /\ target' = proc[p].cand
    BY <1>5 DEF Activate, Sound, SoundAt, Locked
  <2>2. installed' = installed /\ plat' = plat /\ feed' = feed /\ lock' = lock
    BY <1>5, <2>1 DEF Activate, installed, fixed
  <2>3. "verify" \in Steps
    BY DEF Steps, Locked
  <2>4. /\ proc' \in [Procs -> Process] /\ proc'[p].pc = "verify" /\ proc'[p].cand = proc[p].cand
        /\ \A q \in Procs : q # p => proc'[q] = proc[q]
    BY <1>5, <2>3, GoProc DEF Activate
  <2>5. proc[p].cand \in 1..feed
    BY <1>5 DEF Activate, Sound, SoundAt, Locked, Chosen
  <2>6. Sound(p)'
    BY <1>5, <2>1, <2>2, <2>4, <2>5 DEF Activate, Sound, SoundAt, Locked, Chosen, Helping
  <2>7. target' \in Versions \cup {None}
    BY <2>1, <2>5, UpdateAssumption DEF Versions
  <2>8. UNCHANGED << fixed, feed >>
    BY <1>5 DEF Activate
  <2>9. QED
    BY <2>1, <2>2, <2>4, <2>6, <2>7, <2>8, Changes
<1>6. CASE ActivateFails(p)
  <2>1. "rollback" \in Steps /\ SoundAt(p, "rollback")
    BY <1>6 DEF ActivateFails, Sound, SoundAt, Locked, Chosen, Helping, Steps
  <2>2. QED
    BY <1>6, <2>1, GoesOn DEF ActivateFails
<1>7. CASE Verify(p)
  <2>1. "drop" \in Steps /\ SoundAt(p, "drop")
    BY <1>7 DEF Verify, Sound, SoundAt, Locked, Chosen, Helping, Steps
  <2>2. QED
    BY <1>7, <2>1, GoesOn DEF Verify
<1>8. CASE VerifyFails(p)
  <2>1. lock = p /\ backup # None /\ backup' = backup /\ target' \in {None, target}
    BY <1>8 DEF VerifyFails, Sound, SoundAt, Locked
  <2>2. installed' = installed /\ plat' = plat /\ feed' = feed /\ lock' = lock
    BY <1>8, <2>1 DEF VerifyFails, installed, fixed
  <2>3. "rollback" \in Steps
    BY DEF Steps, Locked
  <2>4. /\ proc' \in [Procs -> Process] /\ proc'[p].pc = "rollback" /\ proc'[p].cand = proc[p].cand
        /\ \A q \in Procs : q # p => proc'[q] = proc[q]
    BY <1>8, <2>3, GoProc DEF VerifyFails
  <2>5. Sound(p)'
    BY <1>8, <2>1, <2>2, <2>4 DEF VerifyFails, Sound, SoundAt, Locked, Chosen, Helping
  <2>6. UNCHANGED << fixed, feed >>
    BY <1>8 DEF VerifyFails
  <2>7. QED
    BY <2>1, <2>2, <2>4, <2>5, <2>6, Changes
<1>9. CASE Rollback(p)
  <2>1. lock = p /\ ApplyFails(p) /\ UNCHANGED << fixed, feed >>
    BY <1>9 DEF Rollback, Sound, SoundAt, Locked
  <2>2. /\ target' \in Versions \cup {None} /\ backup' \in Versions \cup {None}
        /\ installed' = installed
    BY <1>9, UpdateAssumption DEF Rollback, installed, files
  <2>3. QED
    BY <2>1, <2>2, FailsProc, Ends
<1>10. CASE DropBackup(p)
  <2>1. lock = p /\ backup' = None /\ target' = target /\ target = proc[p].cand /\ proc[p].cand \in 1..feed
    BY <1>10 DEF DropBackup, Sound, SoundAt, Locked, Chosen
  <2>2. installed' \in 1..feed
    BY <2>1 DEF installed
  <2>3. \E x \in {"restart", "applied"} : Go(p, x)
    BY <1>10 DEF DropBackup
  <2>4. PICK x \in {"restart", "applied"} : Go(p, x)
    BY <2>3
  <2>5. x \in Steps /\ x \notin Locked /\ x \notin Helping
    BY <2>4 DEF Steps, Locked, Helping
  <2>6. /\ proc' \in [Procs -> Process] /\ proc'[p].pc = x
        /\ \A q \in Procs : q # p => proc'[q] = proc[q]
    BY <2>4, <2>5, GoProc
  <2>7. UNCHANGED << fixed, feed >>
    BY <1>10 DEF DropBackup
  <2>8. QED
    BY <2>1, <2>2, <2>5, <2>6, <2>7, Ends
<1>11. CASE DropFails(p)
  <2>1. CASE p \in Helpers
    <3>1. "restart" \in Steps /\ SoundAt(p, "restart")
      BY DEF SoundAt, Locked, Chosen, Helping, Steps
    <3>2. QED
      BY <1>11, <2>1, <3>1, GoesOn DEF DropFails
  <2>2. CASE p \notin Helpers
    BY <1>11, <2>2, <1>0 DEF DropFails, Locked
  <2>3. QED
    BY <2>1, <2>2
<1>12. QED
  BY <1>1, <1>2, <1>3, <1>4, <1>5, <1>6, <1>7, <1>8, <1>9, <1>10, <1>11 DEF SwapStep

-----------------------------------------------------------------------------
(* A helper starts with the candidate of its parent. *)
LEMMA SpawnInv ==
  ASSUME IInv, NEW u \in Updaters, NEW r \in Process, r.pc \notin Locked, r.pc \notin Helping,
         At(u, "apply"), plat = "windows",
         proc' = [proc EXCEPT ![u] = r,
                              ![HelperOf(u)] = [pc |-> "wait", ver |-> proc[u].cand, cand |-> proc[u].cand]],
         Unlock(u) \/ lock' = lock, UNCHANGED << fixed, feed, files >>
  PROVE  IInv'
<1> DEFINE h == HelperOf(u)
           w == [pc |-> "wait", ver |-> proc[u].cand, cand |-> proc[u].cand]
<1>1. u \in Procs /\ h \in Procs /\ u # h
  BY DEF Updaters, Helpers, Procs, HelperOf
<1>2. Sound(u) /\ proc \in [Procs -> Process] /\ proc[u] \in Process
  BY <1>1 DEF IInv, Typed
<1>3. proc[u].cand \in 1..feed
  BY <1>2 DEF At, Sound, SoundAt, Locked, Chosen
<1>4. w \in Process /\ w.pc = "wait" /\ w.cand = proc[u].cand
  BY <1>2 DEF Process, Steps, Helping
<1> HIDE DEF h, w
<1>5. proc' = [proc EXCEPT ![u] = r, ![h] = w]
  BY DEF h, w
<1>6. /\ proc' \in [Procs -> Process] /\ proc'[u] = r /\ proc'[h] = w
      /\ \A q \in Procs : q # u /\ q # h => proc'[q] = proc[q]
  BY <1>1, <1>2, <1>4, <1>5
<1>7. Typed' /\ installed' \in 1..feed
  BY <1>6 DEF IInv, Typed, installed, files
<1>8. Sound(u)'
  BY <1>6 DEF Sound, SoundAt, Locked, Helping, Chosen
<1>9. feed' = feed /\ plat' = "windows" /\ proc'[h].pc = "wait" /\ proc'[h].cand \in 1..feed
  BY <1>3, <1>4, <1>6 DEF fixed
<1>10. Sound(h)'
  BY <1>9 DEF Sound, SoundAt, Locked, Helping, Chosen
<1>11. \A q \in Procs : q # u => lock # q \/ lock' = lock
  BY DEF Unlock
<1>12. QED
  BY <1>6, <1>7, <1>8, <1>10, <1>11, Assemble

(* ApplyPreparedWithRestart without the replacement itself. *)
LEMMA ApplyInv ==
  ASSUME IInv, NEW u \in Updaters, ApplyStep(u)
  PROVE  IInv'
<1> /\ u \in Procs /\ Sound(u) /\ proc \in [Procs -> Process] /\ proc[u] \in Process
    /\ feed \in Versions /\ installed \in 1..feed
    /\ target \in Versions \cup {None} /\ backup \in Versions \cup {None}
  BY DEF Updaters, Procs, IInv, Typed
<1>0. Over(u) \in Process /\ Over(u).pc \notin Locked /\ Over(u).pc \notin Helping
  BY OverProc DEF Locked, Helping
<1>a. Gone \in Process /\ Gone.pc \notin Locked /\ Gone.pc \notin Helping
  BY OverProc DEF Locked, Helping
<1>1. CASE Upgrade(u)
  <2>1. lock = u /\ proc[u].cand \in 1..feed /\ backup' = backup /\ UNCHANGED << fixed, feed >>
    BY <1>1 DEF Upgrade, At, Sound, SoundAt, Locked, Chosen
  <2>2. target' \in {target, proc[u].cand}
    BY <1>1 DEF Upgrade
  <2>3. proc[u].cand \in Versions
    BY <2>1, UpdateAssumption DEF Versions
  <2>4. target' \in Versions \cup {None} /\ installed' \in 1..feed
    BY <2>1, <2>2, <2>3 DEF installed
  <2>5. CASE proc' = [proc EXCEPT ![u] = Over(u)]
    <3>1. proc' \in [Procs -> Process] /\ proc'[u] = Over(u) /\ \A q \in Procs : q # u => proc'[q] = proc[q]
      BY <1>0, <2>5, SetProc
    <3>2. QED
      BY <1>0, <2>1, <2>4, <3>1, Ends
  <2>6. CASE Go(u, "applied")
    <3>1. "applied" \in Steps /\ "applied" \notin Locked /\ "applied" \notin Helping
      BY DEF Steps, Locked, Helping
    <3>2. /\ proc' \in [Procs -> Process] /\ proc'[u].pc = "applied"
          /\ \A q \in Procs : q # u => proc'[q] = proc[q]
      BY <2>6, <3>1, GoProc
    <3>3. QED
      BY <2>1, <2>4, <3>1, <3>2, Ends
  <2>7. QED
    BY <1>1, <2>5, <2>6 DEF Upgrade, GiveUp
<1>2. CASE SpawnHelper(u)
  <2> DEFINE r == [pc |-> "deferred", ver |-> proc[u].ver, cand |-> proc[u].cand]
  <2>1. r \in Process /\ r.pc \notin Locked /\ r.pc \notin Helping
    BY DEF Process, Steps, Locked, Helping
  <2>2. HelperOf(u) # u /\ HelperOf(u) \in Procs
    BY DEF HelperOf, Updaters, Helpers, Procs
  <2>3. proc' = [proc EXCEPT ![u] = r,
                             ![HelperOf(u)] = [pc |-> "wait", ver |-> proc[u].cand, cand |-> proc[u].cand]]
    <3>1. [proc[u] EXCEPT !.pc = "deferred"] = r
      BY DEF Process
    <3>2. proc' = [proc EXCEPT ![u] = [proc[u] EXCEPT !.pc = "deferred"],
                               ![HelperOf(u)] = [pc |-> "wait", ver |-> proc[u].cand, cand |-> proc[u].cand]]
      BY <1>2 DEF SpawnHelper
    <3> HIDE DEF r
    <3>3. QED
      BY <3>1, <3>2
  <2> HIDE DEF r
  <2>4. QED
    BY <1>2, <2>1, <2>3, SpawnInv DEF SpawnHelper
<1>3. CASE SpawnFails(u)
  BY <1>3, GivesUp DEF SpawnFails
<1>4. CASE SpawnedButFails(u)
  BY <1>0, <1>4, SpawnInv DEF SpawnedButFails
<1>5. CASE Deferred(u)
  BY <1>a, <1>5, Stops DEF Deferred
<1>6. CASE Reexec(u)
  <2> DEFINE r == IF u = "manual" \/ target = None THEN Gone ELSE [pc |-> "serving", ver |-> target, cand |-> 0]
  <2>1. 0 \in 0..MaxVersion /\ (target # None => target \in 0..MaxVersion)
    BY UpdateAssumption DEF Versions
  <2>2. r \in Process /\ r.pc \notin Locked /\ r.pc \notin Helping
    BY <1>a, <2>1 DEF Process, Steps, Locked, Helping
  <2>3. proc' = [proc EXCEPT ![u] = r] /\ Unlock(u) /\ UNCHANGED << fixed, feed, files >>
    BY <1>6 DEF Reexec
  <2> HIDE DEF r
  <2>4. QED
    BY <2>2, <2>3, Stops
<1>7. QED
  BY <1>1, <1>2, <1>3, <1>4, <1>5, <1>6 DEF ApplyStep

-----------------------------------------------------------------------------
(* Starting main from the executable touches main alone. *)
LEMMA StartedProc ==
  ASSUME IInv, NEW f \in [Procs -> Process]
  PROVE  /\ Started(f) \in [Procs -> Process]
         /\ \A q \in Procs : Started(f)[q] = f[q] \/ Started(f)[q].pc = "serving"
<1>1. CASE f["main"].pc = "none" /\ target # None
  <2> DEFINE r == [pc |-> "serving", ver |-> target, cand |-> 0]
  <2>1. target \in 0..MaxVersion /\ 0 \in 0..MaxVersion
    BY <1>1, UpdateAssumption DEF IInv, Typed, Versions
  <2>2. r \in Process /\ r.pc = "serving"
    BY <2>1 DEF Process, Steps
  <2>3. Started(f) = [f EXCEPT !["main"] = r]
    BY <1>1 DEF Started
  <2> HIDE DEF r
  <2>4. QED
    BY <2>2, <2>3
<1>2. CASE ~(f["main"].pc = "none" /\ target # None)
  BY <1>2 DEF Started
<1>3. QED
  BY <1>1, <1>2

(* A helper's step that ends its part and may start main. *)
LEMMA HelperEnds ==
  ASSUME IInv, NEW h \in Procs, NEW f \in [Procs -> Process],
         f[h].pc \notin Locked, f[h].pc \notin Helping,
         \A q \in Procs : q # h => f[q] = proc[q],
         proc' = f \/ proc' = Started(f),
         Unlock(h) \/ lock' = lock, UNCHANGED << fixed, feed, files >>
  PROVE  IInv'
<1>1. /\ proc' \in [Procs -> Process]
      /\ \A q \in Procs : proc'[q] = f[q] \/ proc'[q].pc = "serving"
  BY StartedProc
<1>2. Typed' /\ installed' \in 1..feed
  BY <1>1 DEF IInv, Typed, installed, files
<1>3. \A q \in Procs : q # h => lock # q \/ lock' = lock
  BY DEF Unlock
<1>4. ASSUME NEW q \in Procs, proc'[q].pc \notin Locked, proc'[q].pc \notin Helping
      PROVE  Sound(q)'
  BY <1>4 DEF Sound, SoundAt, Locked, Helping, Chosen
<1>5. "serving" \notin Locked /\ "serving" \notin Helping
  BY DEF Locked, Helping
<1>6. \A q \in Procs : Sound(q)' \/ (q # h /\ proc'[q] = proc[q])
  BY <1>1, <1>4, <1>5
<1>7. QED
  BY <1>2, <1>3, <1>6, Assemble

(* The helper: it has the lock before it touches anything. *)
LEMMA HelperInv ==
  ASSUME IInv, NEW h \in Helpers, HelperStep(h) \/ WaitTimesOut(h)
  PROVE  IInv'
<1> h \in Procs /\ Sound(h) /\ proc \in [Procs -> Process] /\ proc[h] \in Process
  BY DEF Helpers, Procs, IInv, Typed
<1>0. Gone \in Process /\ Gone.pc \notin Locked /\ Gone.pc \notin Helping
  BY OverProc DEF Locked, Helping
<1>1. CASE ParentGone(h)
  <2>1. "acquire" \in Steps /\ SoundAt(h, "acquire")
    BY <1>1 DEF ParentGone, At, Sound, SoundAt, Locked, Chosen, Helping, Steps
  <2>2. QED
    BY <1>1, <2>1, GoesOn DEF ParentGone
<1>2. ASSUME Go(h, "failed"), UNCHANGED << fixed, feed, files, lock >>
      PROVE  IInv'
  <2>1. "failed" \in Steps /\ SoundAt(h, "failed")
    BY DEF SoundAt, Locked, Chosen, Helping, Steps
  <2>2. QED
    BY <1>2, <2>1, GoesOn
<1>3. CASE HelperLock(h)
  <2>1. CASE Free
    <3>1. "apply" \in Steps /\ Go(h, "apply") /\ lock = None /\ lock' = h /\ UNCHANGED << fixed, feed, files >>
      BY <1>3, <2>1 DEF HelperLock, Free, Steps, Locked
    <3>2. /\ proc' \in [Procs -> Process] /\ proc'[h].pc = "apply" /\ proc'[h].cand = proc[h].cand
          /\ \A q \in Procs : q # h => proc'[q] = proc[q]
      BY <3>1, GoProc
    <3>3. proc[h].cand \in 1..feed /\ plat # "unix" /\ plat' = plat /\ feed' = feed
      BY <1>3, <3>1 DEF HelperLock, At, Sound, SoundAt, Chosen, Helping, fixed
    <3>4. Sound(h)'
      BY <3>1, <3>2, <3>3 DEF Sound, SoundAt, Helping
    <3>5. QED
      BY <3>1, <3>2, <3>4, Advances
  <2>2. CASE ~Free
    BY <1>2, <1>3, <2>2 DEF HelperLock
  <2>3. QED
    BY <2>1, <2>2
<1>4. CASE HelperRestart(h)
  <2>1. Unlock(h) /\ UNCHANGED << fixed, feed, files >>
    BY <1>4 DEF HelperRestart
  <2>2. ASSUME NEW x \in {"record", "failed"}
        PROVE  LET f == [proc EXCEPT ![h].pc = x]
               IN /\ f \in [Procs -> Process] /\ f[h].pc \notin Locked /\ f[h].pc \notin Helping
                  /\ \A q \in Procs : q # h => f[q] = proc[q]
    BY DEF Process, Steps, Locked, Helping
  <2>3. \E x \in {"record", "failed"} : \/ proc' = [proc EXCEPT ![h].pc = x]
                                        \/ proc' = Started([proc EXCEPT ![h].pc = x])
    BY <1>4 DEF HelperRestart, Go
  <2>4. QED
    BY <2>1, <2>2, <2>3, HelperEnds
<1>5. CASE HelperRecord(h)
  BY <1>0, <1>5, Stops DEF HelperRecord
<1>6. CASE HelperFailed(h)
  <2> DEFINE f == [proc EXCEPT ![h] = Gone]
  <2>1. f \in [Procs -> Process] /\ f[h] = Gone /\ \A q \in Procs : q # h => f[q] = proc[q]
    BY <1>0
  <2>2. (proc' = f \/ proc' = Started(f)) /\ lock' = lock /\ UNCHANGED << fixed, feed, files >>
    BY <1>6 DEF HelperFailed
  <2> HIDE DEF f
  <2>3. QED
    BY <1>0, <2>1, <2>2, HelperEnds
<1>7. CASE WaitTimesOut(h)
  BY <1>2, <1>7 DEF WaitTimesOut
<1>8. QED
  BY <1>1, <1>3, <1>4, <1>5, <1>6, <1>7 DEF HelperStep

(* The rest: beginnings, ends, releases. *)
LEMMA NextInv == IInv /\ [Next]_vars => IInv'
<1> SUFFICES ASSUME IInv, [Next]_vars PROVE IInv'
  OBVIOUS
<1> proc \in [Procs -> Process] /\ feed \in Versions
  BY DEF IInv, Typed
<1>0. Gone \in Process /\ Gone.pc \notin Locked /\ Gone.pc \notin Helping /\ "main" \in Procs
  BY OverProc DEF Locked, Helping, Procs, Updaters
<1>1. CASE UNCHANGED << fixed, feed, files, lock, proc >>
  <2>1. Typed' /\ installed' \in 1..feed
    BY <1>1 DEF IInv, Typed, installed, files
  <2>2. QED
    BY <1>1, <2>1, Assemble
<1>2. CASE StopFails
  BY <1>0, <1>2, Stops DEF StopFails
<1>3. CASE Launch
  <2>1. Unlock("main") \/ lock' = lock
    BY <1>3 DEF Launch
  <2>2. proc["main"].pc \notin Locked /\ proc["main"].pc \notin Helping
    BY <1>3 DEF Launch, At, Locked, Helping
  <2>3. QED
    BY <1>0, <1>3, <2>1, <2>2, HelperEnds DEF Launch
<1>4. CASE Release
  <2>1. feed' \in Versions /\ feed' = feed + 1 /\ feed \in Nat
    BY <1>4, UpdateAssumption DEF Release, Newest, Versions
  <2>2. /\ installed' = installed /\ plat' = plat /\ target' = target /\ backup' = backup
        /\ lock' = lock /\ proc' = proc
    BY <1>4 DEF Release, installed, files, fixed
  <2>3. Typed' /\ installed' \in 1..feed'
    BY <2>1, <2>2 DEF IInv, Typed
  <2>4. ASSUME NEW q \in Procs PROVE Sound(q)'
    <3>1. Sound(q) /\ 1..feed \subseteq 1..feed'
      BY <2>1 DEF IInv
    <3>2. QED
      BY <2>2, <3>1 DEF Sound, SoundAt
  <2>5. QED
    BY <2>3, <2>4 DEF IInv
<1>5. ASSUME NEW u \in Updaters, Start(u) PROVE IInv'
  <2>1. u \in Procs /\ proc[u] \in Process /\ lock' = lock /\ UNCHANGED << fixed, feed, files >>
    BY <1>5 DEF Updaters, Procs, Start
  <2>2. CASE proc' = [proc EXCEPT ![u].pc = "lock"]
    <3>1. "lock" \in Steps /\ SoundAt(u, "lock") /\ Go(u, "lock")
      BY <2>2 DEF SoundAt, Locked, Chosen, Helping, Steps, Go
    <3>2. QED
      BY <2>1, <3>1, GoesOn
  <2>3. CASE target # None /\ proc' = [proc EXCEPT ![u] = [pc |-> "lock", ver |-> target, cand |-> 0]]
    <3> DEFINE r == [pc |-> "lock", ver |-> target, cand |-> 0]
    <3>1. target \in 0..MaxVersion /\ 0 \in 0..MaxVersion
      BY <2>3, UpdateAssumption DEF IInv, Typed, Versions
    <3>2. r \in Process /\ r.pc \notin Locked /\ r.pc \notin Helping
      BY <3>1 DEF Process, Steps, Locked, Helping
    <3> HIDE DEF r
    <3>3. proc' = [proc EXCEPT ![u] = r]
      BY <2>3 DEF r
    <3>4. QED
      BY <2>1, <3>2, <3>3, Stops
  <2>4. QED
    BY <1>5, <2>2, <2>3 DEF Start, Begin
<1>6. ASSUME NEW p \in Procs, Crash(p) PROVE IInv'
  BY <1>0, <1>6, Stops DEF Crash
<1>7. CASE Progress
  BY <1>7, PrepareInv, ApplyInv, SwapInv, HelperInv DEF Progress
<1>8. ASSUME NEW h \in Helpers, WaitTimesOut(h) PROVE IInv'
  BY <1>8, HelperInv
<1>9. CASE StartWorker \/ CheckOnly \/ UNCHANGED vars
  BY <1>1, <1>9 DEF StartWorker, CheckOnly, vars
<1>10. QED
  BY <1>2, <1>3, <1>4, <1>5, <1>6, <1>7, <1>8, <1>9 DEF Next

-----------------------------------------------------------------------------
(* The initial state: a released version, no update. *)
LEMMA InitInv == Init => IInv
<1> SUFFICES ASSUME Init PROVE IInv
  OBVIOUS
<1>1. Newest \in Versions
  BY UpdateAssumption DEF Newest, Versions
<1>2. feed \in Versions /\ target \in Versions /\ target \in 1..feed /\ backup = None
  BY <1>1, UpdateAssumption DEF Init, Versions
<1>3. installed \in 1..feed
  BY <1>2 DEF installed
<1>4. 0 \in 0..MaxVersion /\ target \in 0..MaxVersion
  BY <1>2, UpdateAssumption DEF Versions
<1>5. Gone \in Process /\ Gone.pc = "none"
  BY <1>4 DEF Gone, Process, Steps
<1>6. /\ [pc |-> "serving", ver |-> target, cand |-> 0] \in Process
      /\ [pc |-> "serving", ver |-> target, cand |-> 0].pc = "serving"
  BY <1>4 DEF Process, Steps
<1>7. proc \in [Procs -> Process] /\ \A p \in Procs : proc[p].pc \in {"serving", "none"}
  BY <1>5, <1>6 DEF Init
<1>8. \A p \in Procs : Sound(p)
  BY <1>7 DEF Sound, SoundAt, Locked, Helping, Chosen
<1>9. QED
  BY <1>2, <1>3, <1>7, <1>8 DEF IInv, Typed

(* The files and what is installed: on Unix nothing installs an older      *)
(* version, because the lock is held since the candidate was chosen.       *)
LEMMA NeverOlder ==
  ASSUME IInv, NEW p \in Procs, SwapStep(p) \/ (p \in Updaters /\ Upgrade(p))
  PROVE  installed' = installed \/ (plat = "unix" => installed' >= installed)
<1> /\ Sound(p) /\ feed \in Nat /\ installed \in Nat
    /\ target \in Versions \cup {None} /\ backup \in Versions \cup {None}
  BY UpdateAssumption DEF IInv, Typed, Versions
<1> USE DEF At
<1>1. ASSUME UNCHANGED files PROVE installed' = installed
  BY <1>1 DEF installed, files
<1>2. CASE RenameAway(p)
  <2>1. target # None /\ backup = None /\ backup' = target
    BY <1>2 DEF RenameAway, Sound, SoundAt
  <2>2. QED
    BY <2>1 DEF installed
<1>3. CASE Activate(p)
  <2>1. backup # None /\ backup' = backup
    BY <1>3 DEF Activate, Sound, SoundAt
  <2>2. QED
    BY <2>1 DEF installed
<1>4. CASE VerifyFails(p)
  <2>1. backup # None /\ backup' = backup
    BY <1>4 DEF VerifyFails, Sound, SoundAt
  <2>2. QED
    BY <2>1 DEF installed
<1>5. CASE Rollback(p)
  BY <1>5 DEF Rollback, installed, files
<1>6. CASE DropBackup(p)
  <2>1. backup' = None /\ target' = target /\ target = proc[p].cand
    BY <1>6 DEF DropBackup, Sound, SoundAt
  <2>2. proc[p].cand \in 1..feed /\ (plat = "unix" => installed <= proc[p].cand)
    BY <1>6 DEF DropBackup, Sound, SoundAt, Chosen, Locked
  <2>3. installed' = proc[p].cand
    BY <2>1 DEF installed
  <2>4. QED
    BY <2>2, <2>3
<1>7. CASE Upgrade(p)
  <2>1. backup' = backup /\ target' \in {target, proc[p].cand}
    BY <1>7 DEF Upgrade
  <2>2. proc[p].cand \in 1..feed /\ (plat = "unix" => installed <= proc[p].cand)
    BY <1>7 DEF Upgrade, Sound, SoundAt, Chosen, Locked
  <2>3. installed' = installed \/ installed' = proc[p].cand
    BY <2>1 DEF installed
  <2>4. QED
    BY <2>2, <2>3
<1>8. CASE \/ CopyFails(p) \/ Copy(p) \/ RenameFails(p) \/ ActivateFails(p)
           \/ Verify(p) \/ DropFails(p)
  BY <1>1, <1>8 DEF CopyFails, Copy, RenameFails, ActivateFails, Verify, DropFails
<1>9. QED
  BY <1>2, <1>3, <1>4, <1>5, <1>6, <1>7, <1>8 DEF SwapStep

(* Every step but a release keeps the feed and the system, and no other    *)
(* step than those of NeverOlder touches the files.                        *)
LEMMA FilesKept ==
  ASSUME [Next]_vars
  PROVE  \/ Release
         \/ /\ UNCHANGED << fixed, feed >>
            /\ \/ UNCHANGED files
               \/ \E p \in Procs : SwapStep(p) \/ (p \in Updaters /\ Upgrade(p))
<1>1. ASSUME NEW u \in Updaters, PrepareStep(u) PROVE UNCHANGED << fixed, feed, files >>
  BY <1>1 DEF PrepareStep, AcquireLock, CheckFails, StageFails, NotAvailable, Available, Stage, Prepared
<1>2. ASSUME NEW u \in Updaters, ApplyStep(u)
      PROVE  UNCHANGED << fixed, feed >> /\ (UNCHANGED files \/ Upgrade(u))
  BY <1>2 DEF ApplyStep, Upgrade, SpawnHelper, SpawnFails, SpawnedButFails, Deferred, Reexec
<1>3. ASSUME NEW p \in Procs, SwapStep(p) PROVE UNCHANGED << fixed, feed >>
  BY <1>3 DEF SwapStep, CopyFails, Copy, RenameAway, RenameFails, Activate, ActivateFails, Verify,
              VerifyFails, Rollback, DropBackup, DropFails
<1>4. ASSUME NEW h \in Helpers, HelperStep(h) \/ WaitTimesOut(h) PROVE UNCHANGED << fixed, feed, files >>
  BY <1>4 DEF HelperStep, ParentGone, HelperLock, HelperRestart, HelperRecord, HelperFailed, WaitTimesOut
<1>5. ASSUME \/ StartWorker \/ StopFails \/ CheckOnly \/ Launch \/ UNCHANGED vars
             \/ \E u \in Updaters : Start(u)
             \/ \E p \in Procs : Crash(p)
      PROVE  UNCHANGED << fixed, feed, files >>
  BY <1>5 DEF StartWorker, StopFails, CheckOnly, Launch, Start, Crash, vars
<1>6. Updaters \subseteq Procs
  BY DEF Procs
<1>7. QED
  BY <1>1, <1>2, <1>3, <1>4, <1>5, <1>6 DEF Next, Progress

(* Updating implements the atomic installation of releases: the executable *)
(* or its rollback copy is always a released version, and on Unix it never *)
(* becomes older, however updaters, helpers, failures and crashes meet.    *)
THEOREM InstallIsAtomic == Spec => ImplementsAtomicInstall
<1>1. Init => A!AInit
  <2> SUFFICES ASSUME Init PROVE A!AInit
    OBVIOUS
  <2>1. IInv
    BY InitInv
  <2>2. feed \in Versions /\ installed \in 1..feed
    BY <2>1 DEF IInv, Typed
  <2>3. QED
    BY <2>2, UpdateAssumption DEF A!AInit, A!Versions, Versions
<1>2. IInv /\ IInv' /\ [Next]_vars => [A!ANext]_<< installed, feed, plat = "unix" >>
  <2> SUFFICES ASSUME IInv, IInv', [Next]_vars
               PROVE  A!ANext \/ UNCHANGED << installed, feed, plat = "unix" >>
    OBVIOUS
  <2>1. CASE Release
    <3>1. installed' = installed /\ plat' = plat /\ feed' = feed + 1
      BY <2>1 DEF Release, installed, files, fixed
    <3>2. feed \in Nat /\ feed' \in A!Versions
      BY UpdateAssumption DEF IInv, Typed, Versions, A!Versions
    <3>3. QED
      BY <3>1, <3>2 DEF A!ANext, A!Publish
  <2>2. CASE UNCHANGED << fixed, feed, files >>
    BY <2>2 DEF fixed, files, installed
  <2>3. ASSUME UNCHANGED << fixed, feed >>,
               NEW p \in Procs, SwapStep(p) \/ (p \in Updaters /\ Upgrade(p))
        PROVE  A!ANext \/ UNCHANGED << installed, feed, plat = "unix" >>
    <3>1. installed' = installed \/ (plat = "unix" => installed' >= installed)
      BY <2>3, NeverOlder
    <3>2. plat' = plat /\ feed' = feed /\ installed' \in 1..feed
      BY <2>3 DEF fixed, IInv
    <3>3. QED
      BY <3>1, <3>2 DEF A!ANext, A!Install
  <2>4. QED
    BY <2>1, <2>2, <2>3, FilesKept
<1>3. QED
  BY <1>1, <1>2, InitInv, NextInv, PTL DEF Spec, ImplementsAtomicInstall, A!InstallSpec

-----------------------------------------------------------------------------
(* What the state file says of an update that is not over.                 *)

(* main from the moment it records "prepared" to the moment it records how *)
(* that ended.                                                             *)
Applying == {"apply", "rename", "activate", "verify", "rollback", "drop", "applied", "deferred"}

Unsettled == {"prepared", "deferred"}

Underway == proc["main"].pc \in Applying \/ \E h \in Helpers : proc[h].pc # "none"

(* An unsettled record is that of somebody who will settle it: the process *)
(* that leaves it to a helper is outlived by one that waits for its exit.  *)
Pending ==
  ~excused =>
    /\ \A u \in Updaters : proc[u].pc = "deferred" => proc[HelperOf(u)].pc = "wait"
    /\ record \in Unsettled => Underway

LEMMA PendingStep ==
  ASSUME Pending, excused => excused',
         \A u \in Updaters : proc'[u].pc = "deferred" =>
           \/ excused' \/ proc'[HelperOf(u)].pc = "wait"
           \/ proc[u].pc = "deferred" /\ proc'[HelperOf(u)] = proc[HelperOf(u)],
         \/ record' \notin Unsettled \/ excused' \/ Underway'
         \/ /\ record' = record
            /\ proc["main"].pc \in Applying => proc'["main"].pc \in Applying
            /\ \A h \in Helpers : proc[h].pc # "none" => proc'[h].pc # "none"
  PROVE  Pending'
<1> SUFFICES ASSUME ~excused' PROVE Pending'
  BY DEF Pending
<1>1. ~excused
  OBVIOUS
<1>2. \A u \in Updaters : proc'[u].pc = "deferred" => proc'[HelperOf(u)].pc = "wait"
  BY <1>1 DEF Pending
<1>3. record' \in Unsettled => Underway'
  BY <1>1 DEF Pending, Underway
<1>4. QED
  BY <1>2, <1>3 DEF Pending

(* A process moves alone. *)
LEMMA PendingMove ==
  ASSUME Pending, NEW p \in Procs, \A q \in Procs : q # p => proc'[q] = proc[q],
         excused => excused',
         p \in Updaters => proc'[p].pc # "deferred",
         p \in Helpers => proc[p].pc # "wait" \/ proc[ParentOf(p)].pc # "deferred" \/ excused',
         \/ record' \notin Unsettled \/ excused'
         \/ p = "main" /\ proc'[p].pc \in Applying
         \/ /\ record' = record
            /\ p = "main" => proc[p].pc \notin Applying
            /\ p \in Helpers => proc'[p].pc # "none"
  PROVE  Pending'
<1>1. ASSUME NEW u \in Updaters, proc'[u].pc = "deferred"
      PROVE  \/ excused' \/ proc'[HelperOf(u)].pc = "wait"
             \/ proc[u].pc = "deferred" /\ proc'[HelperOf(u)] = proc[HelperOf(u)]
  <2>1. u \in Procs /\ u # p /\ HelperOf(u) \in Helpers /\ HelperOf(u) \in Procs /\ ParentOf(HelperOf(u)) = u
    BY <1>1 DEF Updaters, Helpers, Procs, HelperOf, ParentOf
  <2>2. proc[u].pc = "deferred"
    BY <1>1, <2>1
  <2>3. CASE p = HelperOf(u)
    BY <2>1, <2>2, <2>3 DEF Pending
  <2>4. CASE p # HelperOf(u)
    BY <2>1, <2>2, <2>4
  <2>5. QED
    BY <2>3, <2>4
<1>2. "main" \in Procs /\ "main" \notin Helpers /\ Helpers \subseteq Procs
  BY DEF Procs, Updaters, Helpers
<1>3. \/ record' \notin Unsettled \/ excused' \/ Underway'
      \/ /\ record' = record
         /\ proc["main"].pc \in Applying => proc'["main"].pc \in Applying
         /\ \A h \in Helpers : proc[h].pc # "none" => proc'[h].pc # "none"
  BY <1>2 DEF Underway
<1>4. QED
  BY <1>1, <1>3, PendingStep

(* An attempt that is given up says so. *)
LEMMA PendingGiveUp ==
  ASSUME IInv, Pending, NEW u \in Updaters, NEW result, result \notin Unsettled, GiveUp(u, result),
         excused' = excused
  PROVE  Pending'
<1>1. u \in Procs /\ u \notin Helpers /\ proc \in [Procs -> Process]
  BY DEF Updaters, Helpers, Procs, IInv, Typed
<1>2. Over(u) \in Process /\ Over(u).pc \in {"serving", "none"}
  BY <1>1, OverProc
<1>3. proc'[u] = Over(u) /\ \A q \in Procs : q # u => proc'[q] = proc[q]
  BY <1>1, <1>2, SetProc DEF GiveUp
<1>4. record' \notin Unsettled
  BY DEF GiveUp, WriteState
<1>5. QED
  BY <1>1, <1>2, <1>3, <1>4, PendingMove

(* The state file while a process goes on. *)
LEMMA PendingGo ==
  ASSUME IInv, Pending, NEW p \in Procs, NEW x \in Steps, Go(p, x), x \notin {"deferred", "none"},
         excused' = excused, record' = record \/ (p = "main" /\ x \in Applying),
         p = "main" => proc[p].pc \notin Applying \/ x \in Applying,
         p \in Helpers => proc[p].pc # "wait" \/ proc[ParentOf(p)].pc # "deferred"
  PROVE  Pending'
<1>1. proc'[p].pc = x /\ \A q \in Procs : q # p => proc'[q] = proc[q]
  BY GoProc DEF IInv, Typed
<1>2. QED
  BY <1>1, PendingMove

LEMMA PendingPrepare ==
  ASSUME IInv, Pending, NEW u \in Updaters, PrepareStep(u)
  PROVE  Pending'
<1> /\ u \in Procs /\ u \notin Helpers
    /\ proc \in [Procs -> Process] /\ proc[u] \in Process /\ feed \in Versions
  BY DEF Updaters, Helpers, Procs, IInv, Typed
<1>0. PrepareFailed(u) \notin Unsettled /\ "current" \notin Unsettled
  BY DEF PrepareFailed, Unsettled
<1>1. CASE AcquireLock(u)
  <2>1. CASE Free
    <3>1. /\ Go(u, "check") /\ proc[u].pc = "lock" /\ record' = record /\ excused' = excused
          /\ "check" \in Steps /\ "lock" \notin Applying
      BY <1>1, <2>1 DEF AcquireLock, At, Steps, Locked, Applying
    <3>2. QED
      BY <3>1, PendingGo
  <2>2. CASE ~Free
    BY <1>0, <1>1, <2>2, PendingGiveUp DEF AcquireLock
  <2>3. QED
    BY <2>1, <2>2
<1>2. CASE CheckFails(u)
  BY <1>0, <1>2, PendingGiveUp DEF CheckFails
<1>3. CASE StageFails(u)
  BY <1>0, <1>3, PendingGiveUp DEF StageFails
<1>4. CASE NotAvailable(u)
  BY <1>0, <1>4, PendingGiveUp DEF NotAvailable
<1>5. CASE Available(u)
  <2> DEFINE x == IF provider = "direct" THEN "stage" ELSE "prepared"
  <2>1. x # "deferred" /\ proc[u].pc = "check" /\ "check" \notin Applying
    BY <1>5 DEF Available, At, Applying
  <2>2. record' = record /\ excused' = excused /\ proc' = [proc EXCEPT ![u].cand = feed, ![u].pc = x]
    BY <1>5 DEF Available
  <2> HIDE DEF x
  <2>3. proc'[u].pc = x /\ \A q \in Procs : q # u => proc'[q] = proc[q]
    BY <2>2 DEF Process
  <2>4. QED
    BY <2>1, <2>2, <2>3, PendingMove
<1>6. CASE Stage(u)
  <2>1. /\ Go(u, "prepared") /\ proc[u].pc = "stage" /\ record' = record /\ excused' = excused
        /\ "prepared" \in Steps /\ "stage" \notin Applying
    BY <1>6 DEF Stage, At, Steps, Locked, Applying
  <2>2. QED
    BY <2>1, PendingGo
<1>7. CASE Prepared(u)
  <2>1. /\ Go(u, "apply") /\ excused' = excused /\ (record' = record \/ u = "main")
        /\ "apply" \in Steps /\ "apply" \in Applying
    BY <1>7 DEF Prepared, Steps, Locked, Applying
  <2>2. QED
    BY <2>1, PendingGo
<1>8. QED
  BY <1>1, <1>2, <1>3, <1>4, <1>5, <1>6, <1>7 DEF PrepareStep

(* A helper that starts answers for its parent, which is then gone. *)
LEMMA PendingApply ==
  ASSUME IInv, Pending, NEW u \in Updaters, ApplyStep(u)
  PROVE  Pending'
<1> /\ u \in Procs /\ u \notin Helpers /\ Helpers \subseteq Procs /\ Updaters \subseteq Procs
    /\ proc \in [Procs -> Process] /\ proc[u] \in Process
  BY DEF Updaters, Helpers, Procs, IInv, Typed
<1>0. "apply_failed" \notin Unsettled /\ "applied" \notin Unsettled
  BY DEF Unsettled
<1>1. CASE Upgrade(u)
  <2>1. CASE Go(u, "applied") /\ record' = record
    <3>1. excused' = excused /\ "applied" \in Steps /\ "applied" \in Applying
      BY <1>1 DEF Upgrade, Steps, Applying
    <3>2. QED
      BY <2>1, <3>1, PendingGo
  <2>2. CASE GiveUp(u, "apply_failed")
    BY <1>0, <1>1, <2>2, PendingGiveUp DEF Upgrade
  <2>3. QED
    BY <1>1, <2>1, <2>2 DEF Upgrade
<1>2. CASE SpawnHelper(u)
  <2>1. /\ HelperOf(u) \in Helpers /\ HelperOf(u) # u
        /\ \A v \in Updaters : v # u => HelperOf(v) \notin {u, HelperOf(u)} /\ HelperOf(v) \in Procs
                                        /\ v # HelperOf(u)
    BY DEF HelperOf, Updaters, Helpers, Procs
  <2> DEFINE r == [pc |-> "wait", ver |-> proc[u].cand, cand |-> proc[u].cand]
  <2>2. proc' = [proc EXCEPT ![u].pc = "deferred", ![HelperOf(u)] = r] /\ r.pc = "wait"
    BY <1>2 DEF SpawnHelper
  <2> HIDE DEF r
  <2>3. /\ proc'[HelperOf(u)].pc = "wait"
        /\ \A q \in Procs : q # u /\ q # HelperOf(u) => proc'[q] = proc[q]
    BY <2>1, <2>2
  <2>4. excused' = excused /\ Underway'
    BY <1>2, <2>1, <2>3 DEF SpawnHelper, Underway
  <2>5. QED
    BY <2>1, <2>3, <2>4, PendingStep
<1>3. CASE SpawnFails(u)
  BY <1>0, <1>3, PendingGiveUp DEF SpawnFails
<1>4. CASE SpawnedButFails(u)
  BY <1>4 DEF SpawnedButFails, Pending
<1>5. CASE Deferred(u)
  <2>1. /\ proc[u].pc = "deferred" /\ proc' = [proc EXCEPT ![u] = Gone]
        /\ record' = "deferred" /\ excused' = excused
    BY <1>5 DEF Deferred, At, WriteState
  <2>2. Gone \in Process /\ Gone.pc = "none"
    BY OverProc
  <2>3. proc'[u].pc = "none" /\ \A q \in Procs : q # u => proc'[q] = proc[q]
    BY <2>1, <2>2, SetProc
  <2>4. /\ HelperOf(u) \in Helpers
        /\ \A v \in Updaters : HelperOf(v) # u /\ HelperOf(v) \in Procs
    BY DEF HelperOf, Updaters, Helpers, Procs
  <2>5. excused \/ Underway'
    BY <2>1, <2>3, <2>4 DEF Pending, Underway
  <2>6. QED
    BY <2>1, <2>3, <2>4, <2>5, PendingStep
<1>6. CASE Reexec(u)
  <2> DEFINE r == IF u = "manual" \/ target = None THEN Gone ELSE [pc |-> "serving", ver |-> target, cand |-> 0]
  <2>1. r.pc # "deferred"
    BY DEF Gone
  <2>2. proc' = [proc EXCEPT ![u] = r] /\ record' = "applied"
    BY <1>6 DEF Reexec, WriteState
  <2> HIDE DEF r
  <2>3. proc'[u] = r /\ \A q \in Procs : q # u => proc'[q] = proc[q]
    BY <2>2
  <2>4. excused => excused'
    BY <1>6, Zenon DEF Reexec
  <2>5. QED
    BY <1>0, <2>1, <2>2, <2>3, <2>4, PendingMove
<1>7. QED
  BY <1>1, <1>2, <1>3, <1>4, <1>5, <1>6 DEF ApplyStep

(* The replacement goes on, or fails and is recorded, or leaves that to    *)
(* the helper's end.                                                       *)
LEMMA SwapMoves ==
  ASSUME NEW p \in Procs, SwapStep(p)
  PROVE  /\ excused' = excused /\ proc[p].pc # "wait"
         /\ \/ p \in Updaters /\ GiveUp(p, "apply_failed")
            \/ /\ record' = record
               /\ \E x \in (Applying \ {"deferred"}) \cup (IF p \in Helpers THEN {"restart", "failed"} ELSE {}) :
                    Go(p, x)
<1> USE DEF At, ApplyFails, Applying, Procs
<1>1. CASE CopyFails(p)
  BY <1>1 DEF CopyFails
<1>2. CASE Copy(p)
  BY <1>2 DEF Copy
<1>3. CASE RenameAway(p)
  BY <1>3 DEF RenameAway
<1>4. CASE RenameFails(p)
  BY <1>4 DEF RenameFails
<1>5. CASE Activate(p)
  BY <1>5 DEF Activate
<1>6. CASE ActivateFails(p)
  BY <1>6 DEF ActivateFails
<1>7. CASE Verify(p)
  BY <1>7 DEF Verify
<1>8. CASE VerifyFails(p)
  BY <1>8 DEF VerifyFails
<1>9. CASE Rollback(p)
  BY <1>9 DEF Rollback
<1>10. CASE DropBackup(p)
  BY <1>10 DEF DropBackup
<1>11. CASE DropFails(p)
  BY <1>11 DEF DropFails
<1>12. QED
  BY <1>1, <1>2, <1>3, <1>4, <1>5, <1>6, <1>7, <1>8, <1>9, <1>10, <1>11 DEF SwapStep

LEMMA PendingSwap ==
  ASSUME IInv, Pending, NEW p \in Procs, SwapStep(p)
  PROVE  Pending'
<1>1. excused' = excused /\ proc[p].pc # "wait"
  BY SwapMoves
<1>2. CASE p \in Updaters /\ GiveUp(p, "apply_failed")
  <2>1. "apply_failed" \notin Unsettled
    BY DEF Unsettled
  <2>2. QED
    BY <1>1, <1>2, <2>1, PendingGiveUp
<1>3. ASSUME record' = record,
             NEW x \in (Applying \ {"deferred"}) \cup (IF p \in Helpers THEN {"restart", "failed"} ELSE {}),
             Go(p, x)
      PROVE  Pending'
  <2>1. x \in Steps /\ x \notin {"deferred", "none"} /\ (p = "main" => x \in Applying)
    BY <1>3 DEF Applying, Steps, Locked, Helpers
  <2>2. QED
    BY <1>1, <1>3, <2>1, PendingGo
<1>4. QED
  BY <1>2, <1>3, SwapMoves

(* A helper settles the record when it ends. *)
LEMMA PendingHelper ==
  ASSUME IInv, Pending, NEW h \in Helpers, HelperStep(h) \/ WaitTimesOut(h)
  PROVE  Pending'
<1> /\ h \in Procs /\ h # "main" /\ h \notin Updaters /\ "main" \in Procs
    /\ proc \in [Procs -> Process] /\ proc[h] \in Process
  BY DEF Helpers, Updaters, Procs, IInv, Typed
<1>0. {"acquire", "apply", "failed", "record"} \subseteq Steps
  BY DEF Steps, Locked, Helping
<1>1. CASE ParentGone(h)
  <2>1. Go(h, "acquire") /\ proc[ParentOf(h)].pc = "none" /\ record' = record /\ excused' = excused
    BY <1>1 DEF ParentGone, At
  <2>2. QED
    BY <1>0, <2>1, PendingGo
<1>2. CASE HelperLock(h)
  <2>1. PICK x \in {"apply", "failed"} : Go(h, x)
    BY <1>2 DEF HelperLock
  <2>2. proc[h].pc # "wait" /\ record' = record /\ excused' = excused
    BY <1>2 DEF HelperLock, At
  <2>3. x \in Steps /\ x \notin {"deferred", "none"}
    BY <1>0, <2>1
  <2>4. QED
    BY <2>1, <2>2, <2>3, PendingGo
<1>3. CASE HelperRestart(h)
  <2>1. CASE excused'
    BY <2>1 DEF Pending
  <2>2. CASE ~excused'
    <3> DEFINE f == [proc EXCEPT ![h].pc = "record"]
    <3>1. (proc' = f \/ proc' = Started(f)) /\ excused' = excused
      BY <1>3, <2>2 DEF HelperRestart
    <3>2. proc[h].pc = "restart" /\ record' = record
      BY <1>3 DEF HelperRestart, At
    <3>3. f \in [Procs -> Process] /\ f[h].pc = "record" /\ \A q \in Procs : q # h => f[q] = proc[q]
      BY <1>0 DEF Process
    <3> HIDE DEF f
    <3>4. /\ proc'[h].pc = "record"
          /\ \A q \in Procs : q # h /\ q # "main" => proc'[q] = proc[q]
          /\ proc'["main"] = proc["main"] \/ proc'["main"].pc = "serving"
      BY <3>1, <3>3 DEF Started
    <3>5. /\ \A u \in Updaters : u \in Procs /\ u # h /\ HelperOf(u) \in Procs /\ HelperOf(u) # "main"
          /\ \A v \in Updaters : HelperOf(v) \in Helpers
      BY DEF Updaters, Helpers, Procs, HelperOf
    <3>6. Underway'
      BY <3>4 DEF Underway
    <3>7. ASSUME NEW u \in Updaters, proc'[u].pc = "deferred"
          PROVE  \/ excused' \/ proc'[HelperOf(u)].pc = "wait"
                 \/ proc[u].pc = "deferred" /\ proc'[HelperOf(u)] = proc[HelperOf(u)]
      <4>1. proc[u].pc = "deferred"
        BY <3>4, <3>5, <3>7
      <4>2. excused \/ proc[HelperOf(u)].pc = "wait"
        BY <4>1 DEF Pending
      <4>3. QED
        BY <3>1, <3>2, <3>4, <3>5, <4>1, <4>2
    <3>8. QED
      BY <3>1, <3>6, <3>7, PendingStep
  <2>3. QED
    BY <2>1, <2>2
<1>4. CASE HelperRecord(h)
  <2>1. /\ proc[h].pc = "record" /\ record' = "applied" /\ "applied" \notin Unsettled
        /\ excused' = excused /\ proc' = [proc EXCEPT ![h] = Gone]
    BY <1>4 DEF HelperRecord, At, WriteState, Unsettled
  <2>2. \A q \in Procs : q # h => proc'[q] = proc[q]
    BY <2>1
  <2>3. QED
    BY <2>1, <2>2, PendingMove
<1>5. CASE HelperFailed(h)
  <2>1. CASE excused'
    BY <2>1 DEF Pending
  <2>2. CASE ~excused'
    <3> DEFINE f == [proc EXCEPT ![h] = Gone]
    <3>1. (proc' = f \/ proc' = Started(f)) /\ excused' = excused
      BY <1>5, <2>2 DEF HelperFailed
    <3>2. proc[h].pc = "failed" /\ record' = "apply_failed" /\ "apply_failed" \notin Unsettled
      BY <1>5 DEF HelperFailed, At, WriteState, Unsettled
    <3>3. Gone \in Process
      BY OverProc
    <3>4. f \in [Procs -> Process] /\ \A q \in Procs : q # h => f[q] = proc[q]
      BY <3>3
    <3> HIDE DEF f
    <3>5. /\ \A q \in Procs : q # h /\ q # "main" => proc'[q] = proc[q]
          /\ proc'["main"] = proc["main"] \/ proc'["main"].pc = "serving"
      BY <3>1, <3>4 DEF Started
    <3>6. \A u \in Updaters : u \in Procs /\ u # h /\ HelperOf(u) \in Procs /\ HelperOf(u) # "main"
      BY DEF Updaters, Helpers, Procs, HelperOf
    <3>7. ASSUME NEW u \in Updaters, proc'[u].pc = "deferred"
          PROVE  \/ excused' \/ proc'[HelperOf(u)].pc = "wait"
                 \/ proc[u].pc = "deferred" /\ proc'[HelperOf(u)] = proc[HelperOf(u)]
      <4>1. proc[u].pc = "deferred"
        BY <3>5, <3>6, <3>7
      <4>2. excused \/ proc[HelperOf(u)].pc = "wait"
        BY <4>1 DEF Pending
      <4>3. QED
        BY <3>1, <3>2, <3>5, <3>6, <4>1, <4>2
    <3>8. QED
      BY <3>1, <3>2, <3>7, PendingStep
  <2>3. QED
    BY <2>1, <2>2
<1>6. CASE WaitTimesOut(h)
  BY <1>6 DEF WaitTimesOut, Pending
<1>7. QED
  BY <1>1, <1>2, <1>3, <1>4, <1>5, <1>6 DEF HelperStep

LEMMA PendingNext == IInv /\ Pending /\ [Next]_vars => Pending'
<1> SUFFICES ASSUME IInv, Pending, [Next]_vars PROVE Pending'
  OBVIOUS
<1> proc \in [Procs -> Process] /\ "main" \in Procs /\ "main" \notin Helpers
  BY DEF IInv, Typed, Procs, Updaters, Helpers
<1>1. CASE UNCHANGED << proc, record, excused >>
  BY <1>1 DEF Pending, Underway
<1>2. CASE CheckOnly
  <2>1. record' \notin Unsettled /\ excused' = excused /\ proc' = proc
    BY <1>2 DEF CheckOnly, WriteState, Unsettled
  <2>2. QED
    BY <2>1 DEF Pending
<1>3. CASE Launch
  <2> DEFINE r == [pc |-> "serving", ver |-> target, cand |-> 0]
  <2>1. /\ proc["main"].pc = "none" /\ proc' = [proc EXCEPT !["main"] = r]
        /\ record' = record /\ excused' = excused /\ r.pc = "serving" /\ "none" \notin Applying
    BY <1>3 DEF Launch, At, Started, Applying
  <2> HIDE DEF r
  <2>2. proc'["main"].pc = "serving" /\ \A q \in Procs : q # "main" => proc'[q] = proc[q]
    BY <2>1
  <2>3. QED
    BY <2>1, <2>2, PendingMove
<1>4. ASSUME NEW u \in Updaters, Start(u) PROVE Pending'
  <2>1. u \in Procs /\ u \notin Helpers /\ proc[u] \in Process
    BY DEF Updaters, Helpers, Procs
  <2>2. record' = record /\ excused' = excused
    BY <1>4 DEF Start
  <2>3. /\ proc'[u].pc = "lock" /\ \A q \in Procs : q # u => proc'[q] = proc[q]
    BY <1>4, <2>1 DEF Start, Begin, Process
  <2>4. u = "main" => proc[u].pc \notin Applying
    BY <1>4 DEF Start, Begin, At, Applying
  <2>5. QED
    BY <2>1, <2>2, <2>3, <2>4, PendingMove
<1>5. CASE StopFails \/ \E p \in Procs : Crash(p)
  BY <1>5 DEF StopFails, Crash, Pending
<1>6. CASE Progress
  BY <1>6, PendingPrepare, PendingApply, PendingSwap, PendingHelper DEF Progress
<1>7. ASSUME NEW h \in Helpers, WaitTimesOut(h) PROVE Pending'
  BY <1>7, PendingHelper
<1>8. CASE StartWorker \/ Release \/ UNCHANGED vars
  BY <1>1, <1>8 DEF StartWorker, Release, vars
<1>9. QED
  BY <1>2, <1>3, <1>4, <1>5, <1>6, <1>7, <1>8 DEF Next

LEMMA PendingInit == Init => Pending
<1> SUFFICES ASSUME Init PROVE Pending
  OBVIOUS
<1>1. \A u \in Updaters : proc[u].pc \in {"serving", "none"}
  BY DEF Init, Procs, Gone
<1>2. record \notin Unsettled
  BY DEF Init, Unsettled
<1>3. QED
  BY <1>1, <1>2 DEF Pending

(* When no update is under way and nothing outside failed, the state file  *)
(* tells how the last one ended: whoever records "prepared" or "deferred"  *)
(* (runGuardianAutoUpdateLoopWithOptions, runUpdateAction) is followed by  *)
(* somebody who records the verdict (writeApplyHelperState).               *)
THEOREM RecordsSettle == Spec => []RecordSettles
<1>1. Pending => RecordSettles
  BY DEF Pending, RecordSettles, Underway, Quiet, At, Unsettled, Applying, Procs, Helpers, Updaters
<1>2. QED
  BY <1>1, InitInv, NextInv, PendingInit, PendingNext, PTL DEF Spec
-----------------------------------------------------------------------------
(* The service is in somebody's hands.                                     *)

(* While a process keeps the lock and stands still, nobody touches the     *)
(* lock or the files.                                                      *)
LEMMA HolderRules ==
  ASSUME IInv, [Next]_vars, NEW h \in Procs, lock = h, proc'[h].pc = proc[h].pc
  PROVE  lock' = lock /\ UNCHANGED files
<1> /\ proc \in [Procs -> Process] /\ lock # None
    /\ Updaters \subseteq Procs /\ Helpers \subseteq Procs /\ Updaters \cap Helpers = {}
  BY UpdateAssumption DEF IInv, Typed, Procs, Updaters, Helpers
<1>0. \A p \in Procs : proc[p].pc \in Locked => p = h
  BY DEF IInv, Sound, SoundAt
<1> USE DEF At
<1>1. ASSUME NEW p \in Procs, Unlock(p), p # h PROVE lock' = lock
  BY <1>1 DEF Unlock
<1>2. ASSUME NEW p \in Procs, NEW x, Go(p, x), x # proc[p].pc PROVE p # h
  <2>1. proc'[p].pc = x
    BY <1>2 DEF Go, Process
  <2>2. QED
    BY <1>2, <2>1
<1>3. ASSUME NEW p \in Procs, NEW result,
             GiveUp(p, result), proc[p].pc \notin {"serving", "none"}
      PROVE  p # h /\ lock' = lock
  <2>1. Over(p) \in Process /\ Over(p).pc \in {"serving", "none"}
    BY OverProc
  <2>2. proc'[p] = Over(p)
    BY <1>3, <2>1, SetProc DEF GiveUp
  <2>3. p # h
    BY <1>3, <2>1, <2>2
  <2>4. QED
    BY <1>1, <1>3, <2>3 DEF GiveUp
<1>4. ASSUME NEW u \in Updaters, PrepareStep(u) PROVE lock' = lock /\ UNCHANGED files
  <2>1. CASE AcquireLock(u)
    BY <1>3, <1>4, <2>1 DEF AcquireLock, Free
  <2>2. CASE CheckFails(u) \/ StageFails(u) \/ NotAvailable(u)
    BY <1>3, <2>2 DEF CheckFails, StageFails, NotAvailable
  <2>3. CASE Available(u) \/ Stage(u) \/ Prepared(u)
    BY <2>3 DEF Available, Stage, Prepared
  <2>4. QED
    BY <1>4, <2>1, <2>2, <2>3 DEF PrepareStep
<1>5. ASSUME NEW u \in Updaters, ApplyStep(u) PROVE lock' = lock /\ UNCHANGED files
  <2>1. CASE Upgrade(u)
    <3>1. u = h /\ proc[u].pc = "apply"
      BY <1>0, <2>1 DEF Upgrade, Locked
    <3>2. QED
      BY <1>2, <1>3, <2>1, <3>1 DEF Upgrade
  <2>2. CASE SpawnHelper(u)
    BY <2>2 DEF SpawnHelper
  <2>3. CASE SpawnFails(u)
    BY <1>3, <2>3 DEF SpawnFails
  <2>4. CASE SpawnedButFails(u)
    <3>1. proc[u].pc = "apply" /\ HelperOf(u) # u /\ Over(u).pc \in {"serving", "none"}
      BY <2>4, OverProc DEF SpawnedButFails, HelperOf, Updaters
    <3>2. proc'[u] = Over(u)
      BY <2>4, <3>1 DEF SpawnedButFails
    <3>3. u # h
      BY <3>1, <3>2
    <3>4. QED
      BY <1>1, <2>4, <3>3 DEF SpawnedButFails
  <2>5. CASE Deferred(u)
    <3>1. proc'[u].pc = "none" /\ proc[u].pc = "deferred"
      BY <2>5 DEF Deferred, Gone
    <3>2. QED
      BY <1>1, <2>5, <3>1 DEF Deferred
  <2>6. CASE Reexec(u)
    <3>1. proc'[u].pc \in {"none", "serving"} /\ proc[u].pc = "applied"
      BY <2>6 DEF Reexec, Applied, Gone
    <3>2. QED
      BY <1>1, <2>6, <3>1 DEF Reexec
  <2>7. QED
    BY <1>5, <2>1, <2>2, <2>3, <2>4, <2>5, <2>6 DEF ApplyStep
<1>6. ASSUME NEW p \in Procs, SwapStep(p) PROVE FALSE
  <2>1. p = h /\ proc[p].pc \in Locked
    BY <1>0, <1>6 DEF SwapStep, CopyFails, Copy, RenameAway, RenameFails, Activate, ActivateFails,
                      Verify, VerifyFails, Rollback, DropBackup, DropFails, Locked
  <2>2. ~GiveUp(p, "apply_failed") /\ ~Go(p, "failed") /\ ~Go(p, "restart") /\ ~Go(p, "applied")
    BY <1>2, <1>3, <2>1 DEF Locked
  <2>3. \A x : Go(p, x) => x = proc[p].pc
    BY <1>2, <2>1
  <2>4. QED
    BY <1>6, <2>2, <2>3 DEF SwapStep, CopyFails, Copy, RenameAway, RenameFails, Activate, ActivateFails,
                      Verify, VerifyFails, Rollback, DropBackup, DropFails, ApplyFails
<1>7. ASSUME NEW g \in Helpers, HelperStep(g) \/ WaitTimesOut(g) PROVE lock' = lock /\ UNCHANGED files
  <2>1. CASE ParentGone(g) \/ WaitTimesOut(g) \/ HelperRecord(g) \/ HelperFailed(g)
    BY <2>1 DEF ParentGone, WaitTimesOut, HelperRecord, HelperFailed
  <2>2. CASE HelperLock(g)
    BY <2>2 DEF HelperLock, Free
  <2>3. CASE HelperRestart(g)
    <3>1. g # "main" /\ proc[g].pc = "restart"
      BY <2>3 DEF HelperRestart, Helpers
    <3> DEFINE f == [proc EXCEPT ![g].pc = "record"]
    <3>2. f[g].pc = "record"
      BY DEF Process
    <3>3. proc' = f \/ proc' = Started(f) \/ Go(g, "failed")
      BY <2>3 DEF HelperRestart
    <3>4. f \in [Procs -> [pc : Steps, ver : 0..MaxVersion, cand : 0..MaxVersion]]
      BY DEF Process, Steps
    <3> HIDE DEF f
    <3>5. proc'[g].pc \in {"record", "failed"}
      BY <3>1, <3>2, <3>3, <3>4 DEF Started, Go, Process
    <3>6. g # h
      BY <3>1, <3>5
    <3>7. QED
      BY <1>1, <2>3, <3>6 DEF HelperRestart
  <2>4. QED
    BY <1>7, <2>1, <2>2, <2>3 DEF HelperStep
<1>8. ASSUME NEW p \in Procs, Crash(p) PROVE lock' = lock /\ UNCHANGED files
  <2>1. proc'[p].pc = "none" /\ proc[p].pc # "none"
    BY <1>8 DEF Crash, Gone
  <2>2. QED
    BY <1>1, <1>8, <2>1 DEF Crash
<1>9. CASE StopFails
  <2>1. proc'["main"].pc = "none" /\ proc["main"].pc = "apply" /\ "main" \in Procs
    BY <1>9 DEF StopFails, Gone, Procs, Updaters
  <2>2. QED
    BY <1>1, <1>9, <2>1 DEF StopFails
<1>10. CASE StartWorker \/ CheckOnly \/ Launch \/ Release \/ (\E u \in Updaters : Start(u)) \/ UNCHANGED vars
  BY <1>10 DEF StartWorker, CheckOnly, Launch, Release, Start, vars
<1>11. QED
  BY <1>4, <1>5, <1>6, <1>7, <1>8, <1>9, <1>10 DEF Next, Progress

(* How a helper comes to the end, to the restart and to the last record. *)
LEMMA HelperMoves ==
  ASSUME IInv, [Next]_vars, NEW h \in Helpers, proc'[h].pc # proc[h].pc, ~excused'
  PROVE  \/ proc'[h].pc \notin {"none", "restart", "record"}
         \/ HelperRestart(h) \/ HelperRecord(h) \/ HelperFailed(h)
         \/ DropBackup(h) \/ DropFails(h)
<1> /\ proc \in [Procs -> Process] /\ h \in Procs /\ h # "main" /\ "main" \in Procs
    /\ Updaters \subseteq Procs /\ Helpers \subseteq Procs /\ h \notin Updaters
  BY DEF IInv, Typed, Procs, Updaters, Helpers
<1>1. ASSUME NEW u \in Updaters, PrepareStep(u) \/ Start(u) PROVE FALSE
  <2>1. u # h /\ u \in Procs
    OBVIOUS
  <2>2. \E r : proc' = [proc EXCEPT ![u] = r]
    BY <1>1, Zenon DEF PrepareStep, Start, Begin, AcquireLock, CheckFails, StageFails, NotAvailable, Available,
                Stage, Prepared, GiveUp, Go
  <2>3. proc'[h] = proc[h]
    BY <2>1, <2>2
  <2>4. QED
    BY <2>3
<1>2. ASSUME NEW u \in Updaters, ApplyStep(u) PROVE proc'[h].pc = "wait"
  <2>1. u # h /\ u \in Procs /\ HelperOf(u) # u
    BY DEF HelperOf, Updaters
  <2>2. CASE SpawnHelper(u) \/ SpawnedButFails(u)
    <3> DEFINE r == [pc |-> "wait", ver |-> proc[u].cand, cand |-> proc[u].cand]
    <3>1. (\E s : proc' = [proc EXCEPT ![u] = s, ![HelperOf(u)] = r]) /\ r.pc = "wait"
      BY <2>2 DEF SpawnHelper, SpawnedButFails
    <3> HIDE DEF r
    <3>2. proc'[h] = proc[h] \/ proc'[h] = r
      BY <2>1, <3>1
    <3>3. QED
      BY <3>1, <3>2
  <2>3. CASE Upgrade(u) \/ SpawnFails(u) \/ Deferred(u) \/ Reexec(u)
    <3>1. \E r : proc' = [proc EXCEPT ![u] = r]
      BY <2>3 DEF Upgrade, SpawnFails, Deferred, Reexec, GiveUp, Go
    <3>2. proc'[h] = proc[h]
      BY <2>1, <3>1
    <3>3. QED
      BY <3>2
  <2>4. QED
    BY <1>2, <2>2, <2>3 DEF ApplyStep
<1>3. ASSUME NEW p \in Procs, SwapStep(p)
      PROVE  \/ proc'[h].pc \notin {"none", "restart", "record"}
             \/ DropBackup(h) \/ DropFails(h)
  <2>1. CASE p = h
    <3>1. ASSUME NEW x, Go(h, x) PROVE proc'[h].pc = x
      BY <3>1 DEF Go, Process
    <3>2. CASE CopyFails(h) \/ RenameFails(h) \/ Rollback(h)
      BY <3>1, <3>2 DEF CopyFails, RenameFails, Rollback, ApplyFails
    <3>3. CASE Copy(h) \/ RenameAway(h) \/ Activate(h) \/ ActivateFails(h) \/ Verify(h) \/ VerifyFails(h)
      BY <3>1, <3>3 DEF Copy, RenameAway, Activate, ActivateFails, Verify, VerifyFails
    <3>4. QED
      BY <1>3, <2>1, <3>2, <3>3 DEF SwapStep
  <2>2. CASE p # h
    <3>1. \E r : proc' = [proc EXCEPT ![p] = r]
      <4>1. GiveUp(p, "apply_failed") \/ \E x : Go(p, x)
        BY <1>3, SwapMoves
      <4>2. QED
        BY <4>1 DEF GiveUp, Go
    <3>2. proc'[h] = proc[h]
      BY <2>2, <3>1
    <3>3. QED
      BY <3>2
  <2>3. QED
    BY <2>1, <2>2
<1>4. ASSUME NEW g \in Helpers, HelperStep(g)
      PROVE  \/ proc'[h].pc \notin {"none", "restart", "record"}
             \/ HelperRestart(h) \/ HelperRecord(h) \/ HelperFailed(h)
  <2>1. CASE g = h
    <3>1. ASSUME NEW x, Go(h, x) PROVE proc'[h].pc = x
      BY <3>1 DEF Go, Process
    <3>2. CASE ParentGone(h) \/ HelperLock(h)
      BY <3>1, <3>2 DEF ParentGone, HelperLock
    <3>3. QED
      BY <1>4, <2>1, <3>2 DEF HelperStep
  <2>2. CASE g # h
    <3>1. \E r : proc' = [proc EXCEPT ![g] = r] \/ proc' = Started([proc EXCEPT ![g] = r])
      BY <1>4 DEF HelperStep, ParentGone, HelperLock, HelperRestart, HelperRecord, HelperFailed, Go
    <3>2. PICK r : proc' = [proc EXCEPT ![g] = r] \/ proc' = Started([proc EXCEPT ![g] = r])
      BY <3>1
    <3> DEFINE f == [proc EXCEPT ![g] = r]
    <3>3. f[h] = proc[h] /\ DOMAIN f = Procs
      BY <2>2
    <3>4. f = [q \in Procs |-> f[q]]
      OBVIOUS
    <3>5. proc' = f \/ proc' = Started(f)
      BY <3>2
    <3> HIDE DEF f
    <3>6. proc'[h] = proc[h]
      BY <3>3, <3>4, <3>5 DEF Started
    <3>7. QED
      BY <3>6
  <2>3. QED
    BY <2>1, <2>2
<1>5. CASE Launch
  BY <1>5 DEF Launch, Started
<1>6. CASE StartWorker \/ CheckOnly \/ Release \/ UNCHANGED vars
  BY <1>6 DEF StartWorker, CheckOnly, Release, vars
<1>7. CASE StopFails \/ (\E g \in Helpers : WaitTimesOut(g)) \/ (\E p \in Procs : Crash(p))
  BY <1>7 DEF StopFails, WaitTimesOut, Crash
<1>8. QED
  BY <1>1, <1>2, <1>3, <1>4, <1>5, <1>6, <1>7 DEF Next, Progress

(* main goes only when something fails, or when it has left the rest to a  *)
(* helper.                                                                 *)
LEMMA MainLeaves ==
  ASSUME IInv, [Next]_vars, ~At("main", "none"), At("main", "none")', ~excused'
  PROVE  Deferred("main")
<1> /\ proc \in [Procs -> Process] /\ "main" \in Procs /\ "main" \notin Helpers
    /\ Updaters \subseteq Procs /\ Helpers \subseteq Procs /\ "main" \in Updaters
    /\ proc["main"].pc # "none" /\ proc'["main"].pc = "none"
  BY DEF IInv, Typed, Procs, Updaters, Helpers, At
<1>1. ASSUME NEW p \in Procs, NEW r, proc' = [proc EXCEPT ![p] = r] PROVE p = "main" /\ r.pc = "none"
  BY <1>1
<1>2. ASSUME NEW p \in Procs, NEW x, Go(p, x) PROVE x = "none"
  BY <1>2 DEF Go, Process
<1>3. ASSUME NEW p \in Procs, NEW result, GiveUp(p, result) PROVE FALSE
  <2>1. p = "main" /\ Over(p).pc = "none"
    BY <1>1, <1>3 DEF GiveUp
  <2>2. QED
    BY <2>1 DEF Over, Process
<1>4. ASSUME NEW u \in Updaters, PrepareStep(u) PROVE FALSE
  <2>1. CASE Available(u)
    <3>1. proc' = [proc EXCEPT ![u].cand = feed, ![u].pc = IF provider = "direct" THEN "stage" ELSE "prepared"]
      BY <2>1 DEF Available
    <3>2. QED
      BY <3>1 DEF Process
  <2>2. CASE ~Available(u)
    BY <1>2, <1>3, <1>4, <2>2 DEF PrepareStep, AcquireLock, CheckFails, StageFails, NotAvailable, Stage, Prepared
  <2>3. QED
    BY <2>1, <2>2
<1>5. ASSUME NEW u \in Updaters, ApplyStep(u) PROVE Deferred("main")
  <2>1. CASE Upgrade(u)
    BY <1>2, <1>3, <2>1 DEF Upgrade
  <2>2. CASE SpawnHelper(u)
    <3> DEFINE r == [pc |-> "wait", ver |-> proc[u].cand, cand |-> proc[u].cand]
    <3>1. proc' = [proc EXCEPT ![u].pc = "deferred", ![HelperOf(u)] = r] /\ HelperOf(u) # "main"
      BY <2>2 DEF SpawnHelper, HelperOf
    <3> HIDE DEF r
    <3>2. proc'["main"] = proc["main"] \/ proc'["main"].pc = "deferred"
      BY <3>1 DEF Process
    <3>3. QED
      BY <3>2
  <2>3. CASE SpawnFails(u)
    BY <1>3, <2>3 DEF SpawnFails
  <2>4. CASE SpawnedButFails(u)
    BY <2>4 DEF SpawnedButFails
  <2>5. CASE Deferred(u)
    BY <1>1, <2>5 DEF Deferred
  <2>6. CASE Reexec(u)
    <3> DEFINE r == IF u = "manual" \/ target = None THEN Gone ELSE [pc |-> "serving", ver |-> target, cand |-> 0]
    <3>1. proc' = [proc EXCEPT ![u] = r] /\ ~(u = "main" /\ target = None)
      BY <2>6 DEF Reexec
    <3>2. u = "main" /\ r.pc = "none"
      BY <1>1, <3>1
    <3>3. QED
      BY <3>1, <3>2
  <2>7. QED
    BY <1>5, <2>1, <2>2, <2>3, <2>4, <2>5, <2>6 DEF ApplyStep
<1>6. ASSUME NEW p \in Procs, SwapStep(p) PROVE FALSE
  <2>1. GiveUp(p, "apply_failed")
        \/ \E x \in (Applying \ {"deferred"}) \cup (IF p \in Helpers THEN {"restart", "failed"} ELSE {}) : Go(p, x)
    BY <1>6, SwapMoves
  <2>2. QED
    BY <1>2, <1>3, <2>1 DEF Applying
<1>7. ASSUME NEW h \in Helpers, HelperStep(h) PROVE FALSE
  <2>1. \E r : proc' = [proc EXCEPT ![h] = r] \/ proc' = Started([proc EXCEPT ![h] = r])
    BY <1>7 DEF HelperStep, ParentGone, HelperLock, HelperRestart, HelperRecord, HelperFailed, Go
  <2>2. PICK r : proc' = [proc EXCEPT ![h] = r] \/ proc' = Started([proc EXCEPT ![h] = r])
    BY <2>1
  <2> DEFINE f == [proc EXCEPT ![h] = r]
  <2>3. f["main"] = proc["main"] /\ (proc' = f \/ proc' = Started(f))
    BY <2>2
  <2> HIDE DEF f
  <2>4. proc'["main"] = proc["main"]
    BY <2>3 DEF Started
  <2>5. QED
    BY <2>4
<1>8. ASSUME NEW u \in Updaters, Start(u) PROVE FALSE
  <2>1. proc'[u].pc = "lock" /\ \A q \in Procs : q # u => proc'[q] = proc[q]
    BY <1>8 DEF Start, Begin, Process
  <2>2. QED
    BY <2>1
<1>9. CASE StartWorker \/ CheckOnly \/ Release \/ Launch \/ UNCHANGED vars
  BY <1>9 DEF StartWorker, CheckOnly, Release, Launch, At, vars
<1>10. CASE StopFails \/ (\E g \in Helpers : WaitTimesOut(g)) \/ (\E p \in Procs : Crash(p))
  BY <1>10 DEF StopFails, WaitTimesOut, Crash
<1>11. QED
  BY <1>4, <1>5, <1>6, <1>7, <1>8, <1>9, <1>10 DEF Next, Progress

(* A helper about to start main has an executable to start it from, and    *)
(* has started it when it records that.                                    *)
Kept ==
  ~excused =>
    /\ \A h \in Helpers : At(h, "restart") => lock = h /\ target # None
    /\ At("mainHelper", "record") => ~At("main", "none")

LEMMA KeptStep == IInv /\ Pending /\ Kept /\ [Next]_vars => Kept'
<1> SUFFICES ASSUME IInv, Pending, Kept, [Next]_vars, ~excused' PROVE Kept'
  BY DEF Kept
<1> /\ proc \in [Procs -> Process] /\ Helpers \subseteq Procs /\ "main" \in Updaters
    /\ "mainHelper" \in Helpers /\ "mainHelper" # "main" /\ HelperOf("main") = "mainHelper"
  BY DEF IInv, Typed, Procs, Updaters, Helpers, HelperOf
<1>0. ~excused
  BY DEF Next, Progress, PrepareStep, AcquireLock, CheckFails, StageFails, NotAvailable, Available, Stage, Prepared,
         ApplyStep, Upgrade, SpawnHelper, SpawnFails, SpawnedButFails, Deferred, Reexec, SwapStep, CopyFails, Copy,
         RenameAway, RenameFails, Activate, ActivateFails, Verify, VerifyFails, Rollback, DropBackup, DropFails,
         HelperStep, ParentGone, HelperLock, HelperRestart, HelperRecord, HelperFailed, StartWorker, StopFails,
         CheckOnly, Launch, Release, Start, WaitTimesOut, Crash, vars
<1>1. ASSUME NEW h \in Helpers, At(h, "restart")' PROVE (lock = h /\ target # None)'
  <2>1. CASE At(h, "restart")
    <3>1. lock = h /\ target # None /\ proc'[h].pc = proc[h].pc
      BY <1>0, <1>1, <2>1 DEF Kept, At
    <3>2. QED
      BY <3>1, HolderRules DEF files
  <2>2. CASE ~At(h, "restart")
    <3>1. proc'[h].pc = "restart" /\ proc'[h].pc # proc[h].pc
      BY <1>1, <2>2 DEF At
    <3>2. ~HelperRecord(h) /\ ~HelperRestart(h) /\ ~HelperFailed(h)
      <4>1. ASSUME HelperRecord(h) \/ HelperRestart(h) \/ HelperFailed(h)
            PROVE  \E r : /\ r.pc # "restart"
                          /\ proc' = [proc EXCEPT ![h] = r] \/ proc' = Started([proc EXCEPT ![h] = r])
        <5>1. Gone.pc # "restart"
          BY DEF Gone
        <5>2. CASE HelperRestart(h)
          <6>1. PICK x \in {"record", "failed"} :
                  proc' = [proc EXCEPT ![h].pc = x] \/ proc' = Started([proc EXCEPT ![h].pc = x])
            BY <5>2 DEF HelperRestart, Go
          <6>2. [proc[h] EXCEPT !.pc = x].pc # "restart"
            BY <6>1 DEF Process
          <6>3. QED
            BY <6>1, <6>2
        <5>3. QED
          BY <4>1, <5>1, <5>2 DEF HelperRecord, HelperFailed
      <4>2. SUFFICES ASSUME NEW r, r.pc # "restart",
                            proc' = [proc EXCEPT ![h] = r] \/ proc' = Started([proc EXCEPT ![h] = r])
                     PROVE  FALSE
        BY <4>1
      <4> DEFINE f == [proc EXCEPT ![h] = r]
      <4>3. f[h] = r /\ (proc' = f \/ proc' = Started(f)) /\ DOMAIN f = Procs /\ h \in Procs /\ h # "main"
        BY <4>2 DEF Helpers
      <4>4. f = [q \in Procs |-> f[q]]
        OBVIOUS
      <4> HIDE DEF f
      <4>5. proc'[h] = r
        BY <4>3, <4>4 DEF Started
      <4>6. QED
        BY <3>1, <4>2, <4>5
    <3>3. DropBackup(h) \/ DropFails(h)
      BY <3>1, <3>2, HelperMoves
    <3>4. lock = h /\ target = proc[h].cand /\ proc[h].cand \in 1..feed /\ feed \in Versions
      BY <3>3 DEF IInv, Typed, Sound, SoundAt, Locked, Chosen, DropBackup, DropFails, At
    <3>5. target # None
      BY <3>4, UpdateAssumption DEF Versions
    <3>6. QED
      BY <3>3, <3>4, <3>5 DEF DropBackup, DropFails, files
  <2>3. QED
    BY <2>1, <2>2
<1>2. ASSUME At("mainHelper", "record")', At("main", "none")' PROVE FALSE
  <2>1. CASE At("mainHelper", "record")
    <3>1. ~At("main", "none")
      BY <1>0, <2>1 DEF Kept
    <3>2. Deferred("main")
      BY <1>2, <3>1, MainLeaves
    <3>3. QED
      BY <1>0, <2>1, <3>2 DEF Pending, Deferred, At
  <2>2. CASE ~At("mainHelper", "record")
    <3>1. HelperRestart("mainHelper") /\ proc'["mainHelper"].pc = "record"
      <4>1. proc'["mainHelper"].pc = "record" /\ proc'["mainHelper"].pc # proc["mainHelper"].pc
        BY <1>2, <2>2 DEF At
      <4>2. ~DropBackup("mainHelper") /\ ~DropFails("mainHelper")
        BY <4>1 DEF DropBackup, DropFails, Go, Process
      <4>3. ~HelperRecord("mainHelper")
        BY <4>1 DEF HelperRecord, Gone
      <4>4. ~HelperFailed("mainHelper")
        <5> DEFINE f == [proc EXCEPT !["mainHelper"] = Gone]
        <5>1. f["mainHelper"].pc = "none" /\ f = [q \in Procs |-> f[q]]
          BY DEF Gone
        <5>2. HelperFailed("mainHelper") => proc' = f \/ proc' = Started(f)
          BY DEF HelperFailed
        <5> HIDE DEF f
        <5>3. QED
          BY <4>1, <5>1, <5>2 DEF Started
      <4>5. QED
        BY <4>1, <4>2, <4>3, <4>4, HelperMoves
    <3>2. target # None
      BY <1>0, <3>1 DEF Kept, HelperRestart
    <3> DEFINE f == [proc EXCEPT !["mainHelper"].pc = "record"]
    <3>3. proc' = Started(f)
      BY <3>1 DEF HelperRestart
    <3>4. f = [q \in Procs |-> f[q]] /\ "main" \in Procs
      BY DEF Procs
    <3> HIDE DEF f
    <3>5. proc'["main"].pc # "none"
      BY <3>2, <3>3, <3>4 DEF Started
    <3>6. QED
      BY <1>2, <3>5 DEF At
  <2>3. QED
    BY <2>1, <2>2
<1>3. QED
  BY <1>1, <1>2 DEF Kept

(* main, or the helper to which it has left the update. *)
Responsible == ~At("main", "none") \/ ~At("mainHelper", "none")

(* The last of the two leaves only for a failure outside the updater, or   *)
(* when there is nothing it may start.                                     *)
HandedOver == Responsible /\ ~Responsible' => excused' \/ target' = None \/ backup' # None

(* The service is never left to nobody: main exits only after a helper     *)
(* waits for it (startApplyHelper), and the helper only after main runs    *)
(* again or safeToRestartExistingTarget forbids to start it.               *)
THEOREM ServiceIsHandedOver == Spec => [][HandedOver]_vars
<1>1. Init => Kept
  BY DEF Init, Kept, At, Gone, Helpers, Procs
<1>2. IInv /\ Pending /\ Kept /\ [Next]_vars => [HandedOver]_vars
  <2> SUFFICES ASSUME IInv, Pending, Kept, [Next]_vars, Responsible, ~Responsible', ~excused'
               PROVE  target' = None \/ backup' # None
    BY DEF HandedOver
  <2> /\ proc \in [Procs -> Process] /\ "main" \in Procs /\ "mainHelper" \in Procs /\ "mainHelper" \in Helpers
      /\ "main" \in Updaters /\ HelperOf("main") = "mainHelper"
      /\ At("main", "none")' /\ At("mainHelper", "none")'
    BY DEF IInv, Typed, Procs, Updaters, Helpers, HelperOf, Responsible
  <2>0. Kept' /\ Pending'
    BY KeptStep, PendingNext
  <2>1. CASE At("mainHelper", "none")
    <3>1. Deferred("main")
      BY <2>1, MainLeaves DEF Responsible
    <3>2. ~excused /\ proc["mainHelper"].pc = "wait"
      BY <3>1 DEF Pending, Deferred, At
    <3>3. QED
      BY <2>1, <3>2 DEF At
  <2>2. CASE ~At("mainHelper", "none")
    <3>1. proc'["mainHelper"].pc = "none" /\ proc'["mainHelper"].pc # proc["mainHelper"].pc
      BY <2>2 DEF At
    <3>2. ~DropBackup("mainHelper") /\ ~DropFails("mainHelper")
      BY <3>1 DEF DropBackup, DropFails, Go, Process
    <3>3. ~HelperRestart("mainHelper")
      <4> DEFINE f == [proc EXCEPT !["mainHelper"].pc = "record"]
      <4>1. f["mainHelper"].pc = "record" /\ f = [q \in Procs |-> f[q]]
        BY DEF Process
      <4>2. HelperRestart("mainHelper") => proc' = Started(f)
        BY DEF HelperRestart
      <4> HIDE DEF f
      <4>3. QED
        BY <3>1, <4>1, <4>2 DEF Started
    <3>4. CASE HelperRecord("mainHelper")
      <4>1. At("mainHelper", "record") /\ ~excused /\ proc'["main"] = proc["main"]
        BY <3>4 DEF HelperRecord
      <4>2. QED
        BY <4>1 DEF Kept, At
    <3>5. CASE HelperFailed("mainHelper")
      <4> DEFINE f == [proc EXCEPT !["mainHelper"] = Gone]
      <4>1. target' = target /\ backup' = backup
        BY <3>5 DEF HelperFailed, files
      <4>2. CASE SafeToRestart("mainHelper")
        <5>1. proc' = Started(f) /\ target # None
          BY <3>5, <4>2 DEF HelperFailed, SafeToRestart
        <5>2. f = [q \in Procs |-> f[q]]
          OBVIOUS
        <5> HIDE DEF f
        <5>3. proc'["main"].pc # "none"
          BY <5>1, <5>2 DEF Started
        <5>4. QED
          BY <5>3 DEF At
      <4>3. CASE ~SafeToRestart("mainHelper")
        BY <4>1, <4>3 DEF SafeToRestart
      <4>4. QED
        BY <4>2, <4>3
    <3>6. QED
      BY <3>1, <3>2, <3>3, <3>4, <3>5, HelperMoves
  <2>3. QED
    BY <2>1, <2>2
<1>3. QED
  BY <1>1, <1>2, InitInv, NextInv, PendingInit, PendingNext, KeptStep, PTL DEF Spec
=============================================================================
