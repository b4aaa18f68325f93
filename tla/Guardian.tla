------------------------------ MODULE Guardian ------------------------------
(***************************************************************************)
(* internal/guardian: the parent process (RunParent), its current worker   *)
(* process (runGuardianWorker and RunWorker), and the control connection   *)
(* between them.  A worker the parent gave up reaping becomes a stray.     *)
(*                                                                         *)
(* Time advances in units of the watch interval and only when nothing is   *)
(* due; a Pause (suspend, starved scheduler) lets it jump.  Clocks are     *)
(* kept as ages, capped where the code stops telling larger ones apart.    *)
(* The heartbeat and the watch interval are equal, as their defaults are.  *)
(* A BEAT carries whether its sequence is above every earlier one.         *)
(***************************************************************************)
EXTENDS Naturals, Sequences

CONSTANTS
  HangWindow,      \* ParentOptions.HangWindow, in watch intervals
  StableRunReset,  \* ParentOptions.StableRunReset
  Schedule,        \* ParentOptions.RestartSchedule
  FreshEvery,      \* a healthy worker sends a fresh BEAT at least this often
  MaxQueue,        \* bound on the messages in flight to the parent
  MaxStrays,       \* bound on the killed workers that are not yet reaped
  MaxPauses        \* bound on the pauses of one behaviour

ASSUME GuardianAssumption ==
  /\ HangWindow \in Nat \ {0} /\ FreshEvery \in 1..HangWindow
  /\ StableRunReset \in Nat \ {0}
  /\ Schedule \in Seq(Nat \ {0}) /\ Schedule # << >>
  /\ MaxQueue \in Nat \ {0} /\ MaxStrays \in Nat /\ MaxPauses \in Nat

VARIABLES
  pc,         \* where RunParent is
  cancelled,  \* the parent's ctx is done
  ready,      \* monitorReadyWorker's ready
  dog,        \* the ages of the watchdog's lastProgress and lastObserver
  readyFor,   \* the age of readyAt
  result,     \* the generation's disposition, decided before stopChild
  cause,      \* history: what made the parent end the generation
  level,      \* restartLevel
  delay,      \* what is left of the restart timer
  returned,   \* what RunParent returned
  listening,  \* the control listener is open
  link,       \* the control connection
  toParent,   \* the messages of the worker the parent has not handled
  told,       \* a STOP of the parent waits for the worker
  w,          \* the worker process
  strays,     \* killed workers left behind unreaped
  pauses,     \* pauses so far
  napped      \* history: a pause within the window since the last fresh BEAT

parentVars == << pc, ready, dog, readyFor, result, cause, level, delay, returned, napped >>
vars == << pc, cancelled, ready, dog, readyFor, result, cause, level, delay, returned,
           listening, link, toParent, told, w, strays, pauses, napped >>

PcStates == {"launch", "accept", "monitor", "stop", "kill", "backoff", "returned", "crashed"}
Dispositions == {"none", "StartupFailure", "Restart", "NormalStop", "ByExit"}
Returns  == {"none", "nil", "StartupExitError", "DeadlineExceeded"}
Causes   == {"none", "ctx", "exit", "accept", "stop", "lost", "hang", "protocol"}
Messages == {"READY", "FRESH", "STALE", "STOP"}
WorkerStates == {"none", "boot", "linked", "serving", "stopping", "leaving", "exited"}
Exits    == {"none", "zero", "startup", "restart", "crash", "killed"}
Workers  == [st : WorkerStates, exit : Exits, asked : BOOLEAN, hung : BOOLEAN,
             doomed : BOOLEAN, due : BOOLEAN, quiet : 0..FreshEvery]

Alive == w.st \notin {"none", "exited"}
Gone  == pc \in {"returned", "crashed"}
Dog(progress, observer) == [progress |-> progress, observer |-> observer]
NoWorker == [st |-> "none", exit |-> "none", asked |-> FALSE, hung |-> FALSE,
             doomed |-> FALSE, due |-> FALSE, quiet |-> 0]

Init ==
  /\ pc = "launch" /\ cancelled = FALSE /\ ready = FALSE /\ dog = Dog(0, 0)
  /\ readyFor = 0 /\ result = "none" /\ cause = "none" /\ level = 1 /\ delay = 0
  /\ returned = "none" /\ listening = FALSE /\ link = "none" /\ toParent = << >>
  /\ told = FALSE /\ w = NoWorker /\ strays = 0 /\ pauses = 0 /\ napped = FALSE

-----------------------------------------------------------------------------
(* The end of a generation.                                                *)

(* The level of this restart: a stable run starts over. *)
RestartLevel == IF readyFor >= StableRunReset THEN 1 ELSE level

NextLevel == IF RestartLevel < Len(Schedule) THEN RestartLevel + 1 ELSE RestartLevel

(* Nobody looks at the messages and the watchdog of the generation again.  *)
NoLongerRead == toParent' = << >> /\ dog' = Dog(0, 0)

(* A STOP of the parent; a worker that is stopping does not read it. *)
SendStop == told' = (w.st \in {"linked", "serving"})

(* RunParent's switch on the disposition, given the error of the stop      *)
(* ("nil", "exit" or "deadline"); the deferred session.Close and           *)
(* listener.Close of the generation.                                       *)
EndGeneration(disposition, err) ==
  /\ link' = "closed" /\ listening' = FALSE /\ told' = FALSE /\ readyFor' = 0
  /\ NoLongerRead
  /\ IF disposition = "Restart"
       THEN /\ pc' = "backoff"
            /\ delay' = Schedule[RestartLevel]
            /\ level' = NextLevel
            /\ UNCHANGED returned
       ELSE /\ pc' = "returned"
            /\ returned' = IF disposition = "StartupFailure" THEN "StartupExitError"
                           ELSE IF err = "deadline" THEN "DeadlineExceeded" ELSE "nil"
            /\ UNCHANGED << delay, level >>

(* The disposition of a lost control connection depends on the exit. *)
Disposition(err) ==
  IF result # "ByExit" THEN result ELSE IF err = "nil" THEN "NormalStop" ELSE "Restart"

ExitError == IF w.exit = "zero" THEN "nil" ELSE "exit"

(* stopChild: the STOP, if there is a session, and the wait it begins. *)
StopChild(disposition, why, session) ==
  /\ pc' = "stop" /\ result' = disposition /\ cause' = why
  /\ IF session THEN SendStop ELSE UNCHANGED told
  /\ w' = [w EXCEPT !.quiet = 0] /\ NoLongerRead
  /\ UNCHANGED << cancelled, ready, readyFor, level, delay, returned, strays, pauses,
                  napped >>

Reap ==
  /\ pc \in {"stop", "kill"} /\ w.st = "exited"
  /\ EndGeneration(Disposition(ExitError), ExitError)
  /\ result' = Disposition(ExitError)
  /\ UNCHANGED << cancelled, ready, cause, w, strays, pauses, napped >>

(* Mutant of KillChild: the second wait begins without a kill. *)
StopWithoutKill == UNCHANGED w

KillChild == w' = [w EXCEPT !.doomed = Alive]

(* The first wait is over: Process.Kill. *)
StopTimeout ==
  /\ pc = "stop" /\ pc' = "kill" /\ KillChild
  /\ UNCHANGED << cancelled, ready, dog, readyFor, result, cause, level, delay, returned,
                  listening, link, toParent, told, strays, pauses, napped >>

(* The second wait is over too: context.DeadlineExceeded. *)
ReapTimeout ==
  /\ pc = "kill" /\ Alive /\ strays < MaxStrays
  /\ EndGeneration(Disposition("deadline"), "deadline")
  /\ result' = Disposition("deadline")
  /\ UNCHANGED << cancelled, ready, cause, w, strays, pauses, napped >>

-----------------------------------------------------------------------------
(* runGeneration                                                           *)

Launch ==
  /\ pc = "launch" /\ pc' = "accept"
  /\ w' = [NoWorker EXCEPT !.st = "boot"]
  /\ strays' = IF Alive THEN strays + 1 ELSE strays
  /\ listening' = TRUE /\ link' = "none" /\ toParent' = << >> /\ told' = FALSE
  /\ ready' = FALSE /\ dog' = Dog(0, 0) /\ readyFor' = 0
  /\ result' = "none" /\ cause' = "none" /\ napped' = FALSE
  /\ UNCHANGED << cancelled, level, delay, returned, pauses >>

(* Listen or cmd.Start fails. *)
LaunchFails ==
  /\ pc = "launch" /\ pc' = "returned" /\ returned' = "StartupExitError"
  /\ ready' = FALSE
  /\ UNCHANGED << cancelled, dog, readyFor, result, cause, level, delay, listening, link,
                  toParent, told, w, strays, pauses, napped >>

(* The accept goroutine authenticates the worker and closes the listener;  *)
(* the session waits in acceptc until the select takes it.                 *)
AcceptSession ==
  /\ pc = "accept" /\ link = "queued" /\ link' = "accepted" /\ listening' = FALSE
  /\ UNCHANGED << parentVars, cancelled, toParent, told, w, strays, pauses >>

TakeSession ==
  /\ pc = "accept" /\ link = "accepted" /\ pc' = "monitor"
  /\ UNCHANGED << cancelled, ready, dog, readyFor, result, cause, level, delay, returned,
                  listening, link, toParent, told, w, strays, pauses, napped >>

(* ctx.Done before a session: the listener is closed, which resets a       *)
(* connection in its queue; one in acceptc stays open.                     *)
AcceptCancelled ==
  /\ pc = "accept" /\ cancelled
  /\ StopChild("NormalStop", "ctx", FALSE)
  /\ listening' = FALSE /\ link' = IF link = "queued" THEN "closed" ELSE link

(* Accept returns an error. *)
AcceptFails ==
  /\ pc = "accept" /\ link # "accepted"
  /\ StopChild(IF cancelled THEN "NormalStop" ELSE "StartupFailure", "accept", FALSE)
  /\ UNCHANGED << listening, link >>

ExitInAccept ==
  /\ pc = "accept" /\ w.st = "exited"
  /\ EndGeneration("StartupFailure", ExitError)
  /\ result' = "StartupFailure" /\ cause' = "exit"
  /\ UNCHANGED << cancelled, ready, w, strays, pauses, napped >>

-----------------------------------------------------------------------------
(* monitorReadyWorker                                                      *)

(* Mutant of MonitorCancelled: the select has no ctx.Done case. *)
MonitorUncancelled == FALSE

MonitorCancelled ==
  /\ pc = "monitor" /\ cancelled
  /\ StopChild("NormalStop", "ctx", TRUE)
  /\ UNCHANGED << listening, link >>

(* Mutant of ExitDisposition: an exit status is not looked at. *)
RestartOnAnyExit == IF ~ready THEN "StartupFailure" ELSE "Restart"

(* waitc of a worker that is ready, or not yet. *)
ExitDisposition ==
  IF ~ready THEN "StartupFailure" ELSE IF ExitError = "nil" THEN "NormalStop" ELSE "Restart"

ExitInMonitor ==
  /\ pc = "monitor" /\ w.st = "exited"
  /\ EndGeneration(ExitDisposition, ExitError)
  /\ result' = ExitDisposition /\ cause' = "exit"
  /\ UNCHANGED << cancelled, ready, w, strays, pauses, napped >>

(* Watchdog.Ready *)
DogReady == Dog(0, 0)

(* Mutant of DogBeat: any heartbeat counts as progress. *)
AnyBeat(m) == Dog(0, dog.observer)

(* Watchdog.Beat: only a sequence above the last one is progress. *)
DogBeat(m) == IF m = "FRESH" THEN Dog(0, dog.observer) ELSE dog

(* A message the protocol does not allow here. *)
Unexpected(m) == IF m = "READY" THEN ready ELSE ~ready

HandleReady ==
  /\ ready' = TRUE /\ readyFor' = 0 /\ dog' = DogReady /\ napped' = FALSE
  /\ toParent' = Tail(toParent)
  /\ UNCHANGED << pc, result, cause, told, w >>

HandleBeat(m) ==
  /\ dog' = DogBeat(m) /\ napped' = (napped /\ m # "FRESH")
  /\ toParent' = Tail(toParent)
  /\ UNCHANGED << pc, ready, readyFor, result, cause, told, w >>

(* STOP is answered by waiting only; any violation also sends a STOP,      *)
(* except for a STOP before READY.                                         *)
HandleStop(m) ==
  StopChild(IF ~ready THEN "StartupFailure"
            ELSE IF m = "STOP" THEN "NormalStop" ELSE "Restart",
            IF Unexpected(m) THEN "protocol" ELSE "stop", m # "STOP")

Receive ==
  /\ pc = "monitor" /\ toParent # << >>
  /\ LET m == Head(toParent) IN
       IF Unexpected(m) \/ m = "STOP" THEN HandleStop(m)
       ELSE IF m = "READY" THEN HandleReady ELSE HandleBeat(m)
  /\ UNCHANGED << cancelled, level, delay, returned, listening, link, strays, pauses >>

(* The reader saw the end of the stream; one message may still wait.       *)
ControlLost ==
  /\ pc = "monitor" /\ w.st \in {"leaving", "exited"} /\ Len(toParent) <= 1
  /\ StopChild(IF ready THEN "ByExit" ELSE "StartupFailure", "lost", TRUE)
  /\ UNCHANGED << listening, link >>

(* Mutant of Suspended: the gap is not looked for. *)
NoGap == FALSE

(* Watchdog.Check: a gap in the parent's own checks is a suspend. *)
Suspended == dog.observer > HangWindow

Expired == dog.progress > HangWindow

(* The ticker of a ready worker: a check is due. *)
Check ==
  /\ pc = "monitor" /\ ready /\ dog.observer > 0
  /\ IF ~Suspended /\ Expired
       THEN StopChild("Restart", "hang", TRUE)
       ELSE /\ dog' = IF Suspended THEN Dog(0, 0) ELSE Dog(dog.progress, 0)
            /\ UNCHANGED << pc, result, cause, told, toParent, w >>
  /\ UNCHANGED << cancelled, ready, readyFor, level, delay, returned, listening, link,
                  strays, pauses, napped >>

-----------------------------------------------------------------------------
(* The restart timer of RunParent, the parent's signals and its death.     *)

RestartTimer ==
  /\ pc = "backoff" /\ delay = 0 /\ pc' = "launch"
  /\ UNCHANGED << cancelled, ready, dog, readyFor, result, cause, level, delay, returned,
                  listening, link, toParent, told, w, strays, pauses, napped >>

BackoffCancelled ==
  /\ pc = "backoff" /\ cancelled
  /\ pc' = "returned" /\ returned' = "nil" /\ delay' = 0
  /\ UNCHANGED << cancelled, ready, dog, readyFor, result, cause, level, listening, link,
                  toParent, told, w, strays, pauses, napped >>

Cancel ==
  /\ ~cancelled /\ ~Gone /\ cancelled' = TRUE
  /\ UNCHANGED << parentVars, listening, link, toParent, told, w, strays, pauses >>

(* The parent process dies; the kernel closes its sockets. *)
ParentCrash ==
  /\ ~Gone /\ pc' = "crashed"
  /\ listening' = FALSE /\ link' = "closed"
  /\ UNCHANGED << cancelled, ready, dog, readyFor, result, cause, level, delay, returned,
                  toParent, told, w, strays, pauses, napped >>

-----------------------------------------------------------------------------
(* The worker process: runGuardianWorker and RunWorker                     *)

WorkerStep == UNCHANGED << parentVars, cancelled, listening, strays, pauses >>

(* guardian.Connect: the connection waits in the listener's queue. *)
Connect ==
  /\ w.st = "boot" /\ listening
  /\ w' = [w EXCEPT !.st = "linked"] /\ link' = "queued"
  /\ WorkerStep /\ UNCHANGED << toParent, told >>

Leave(exit) == w' = [w EXCEPT !.st = "leaving", !.exit = exit, !.due = FALSE]

ConnectFails ==
  /\ w.st = "boot" /\ ~listening /\ Leave("startup")
  /\ WorkerStep /\ UNCHANGED << link, toParent, told >>

(* proxy.New fails, or Start returns before READY. *)
StartFails ==
  /\ w.st = "linked" /\ Leave("startup")
  /\ WorkerStep /\ UNCHANGED << link, toParent, told >>

StopWorker(exit) == w' = [w EXCEPT !.st = "stopping", !.exit = exit, !.due = FALSE]

(* Session.Send: fails once the parent's end is closed. *)
CanSend == link # "closed" /\ Len(toParent) < MaxQueue
SendTo(m) == toParent' = IF pc \in {"accept", "monitor"} THEN Append(toParent, m) ELSE << >>

(* Mutant of ReadyUnsent: every poll of Ready sends a READY. *)
ReadyAtEveryPoll == w.st \in {"linked", "serving"}

ReadyUnsent == w.st = "linked"

SendReady ==
  /\ ReadyUnsent /\ CanSend /\ SendTo("READY")
  /\ w' = [w EXCEPT !.st = "serving", !.quiet = 0]
  /\ WorkerStep /\ UNCHANGED << link, told >>

(* The heartbeat: FRESH if Progress grew since the last one. *)
Beat ==
  /\ w.st = "serving" /\ w.due /\ CanSend
  /\ \E m \in {"FRESH", "STALE"} :
       /\ w.hung => m = "STALE"
       /\ SendTo(m)
       /\ w' = [w EXCEPT !.due = FALSE, !.quiet = IF m = "FRESH" THEN 0 ELSE w.quiet]
  /\ WorkerStep /\ UNCHANGED << link, told >>

(* The heartbeat finds FatalRequested. *)
FatalStop ==
  /\ w.st = "serving" /\ w.due /\ StopWorker("restart")
  /\ WorkerStep /\ UNCHANGED << link, toParent, told >>

(* Start returned nil after READY: STOP, then a normal exit. *)
Quit ==
  /\ w.st = "serving"
  /\ IF link = "closed" THEN UNCHANGED toParent ELSE CanSend /\ SendTo("STOP")
  /\ w' = [w EXCEPT !.st = "leaving", !.exit = "zero", !.asked = TRUE, !.due = FALSE]
  /\ WorkerStep /\ UNCHANGED << link, told >>

(* Start returned an error after READY. *)
ServeFails ==
  /\ w.st = "serving" /\ Leave("restart")
  /\ WorkerStep /\ UNCHANGED << link, toParent, told >>

(* A STOP of the parent. *)
StopReceived ==
  /\ told /\ w.st \in {"linked", "serving"} /\ StopWorker("zero") /\ told' = FALSE
  /\ WorkerStep /\ UNCHANGED << link, toParent >>

(* The worker's own context ends by a signal. *)
WorkerSignal ==
  /\ w.st \in {"linked", "serving"} /\ StopWorker("zero") /\ told' = FALSE
  /\ WorkerStep /\ UNCHANGED << link, toParent >>

(* Mutant of SeesParentLost: the loss is only looked for after READY. *)
SeesParentLostOnceReady == w.st = "serving" /\ link = "closed"

SeesParentLost == w.st \in {"linked", "serving"} /\ link = "closed"

(* The control connection is gone: readWorkerControl or a failed Send. *)
ParentLost ==
  /\ SeesParentLost /\ StopWorker("zero")
  /\ WorkerStep /\ UNCHANGED << link, toParent, told >>

(* stopWorker: Shutdown and the wait for Start are bounded. *)
ShutdownDone ==
  /\ w.st = "stopping" /\ Leave(w.exit)
  /\ WorkerStep /\ UNCHANGED << link, toParent, told >>

Exit ==
  /\ w.st = "leaving" /\ w' = [w EXCEPT !.st = "exited"]
  /\ WorkerStep /\ UNCHANGED << link, toParent, told >>

Crash ==
  /\ Alive /\ w' = [w EXCEPT !.st = "exited", !.exit = "crash", !.due = FALSE]
  /\ WorkerStep /\ UNCHANGED << link, toParent, told >>

(* The maintenance loop stops advancing the progress sequence. *)
Hang ==
  /\ w.st = "serving" /\ ~w.hung /\ w' = [w EXCEPT !.hung = TRUE]
  /\ WorkerStep /\ UNCHANGED << link, toParent, told >>

(* The kernel gets round to a killed process. *)
Die ==
  /\ Alive /\ w.doomed /\ w' = [w EXCEPT !.st = "exited", !.exit = "killed", !.due = FALSE]
  /\ WorkerStep /\ UNCHANGED << link, toParent, told >>

StrayDies ==
  /\ strays > 0 /\ strays' = strays - 1
  /\ UNCHANGED << parentVars, cancelled, listening, link, toParent, told, w, pauses >>

-----------------------------------------------------------------------------
(* Time                                                                    *)

Capped(n, cap) == IF n > cap THEN cap ELSE n

Advance(d) ==
  /\ IF pc = "monitor" /\ ready
       THEN dog' = Dog(Capped(dog.progress + d, HangWindow + 1),
                       Capped(dog.observer + d, HangWindow + 1))
       ELSE UNCHANGED dog
  /\ w' = [w EXCEPT !.due = (w.st = "serving"),
                    !.quiet = IF pc = "monitor" /\ ready THEN Capped(w.quiet + d, FreshEvery)
                                                         ELSE 0]
  /\ readyFor' = IF ready /\ pc \in {"monitor", "stop", "kill"}
                   THEN Capped(readyFor + d, StableRunReset) ELSE readyFor
  /\ delay' = IF delay > d THEN delay - d ELSE 0

(* Time waits for what is due: a select on a cancelled context, a queued   *)
(* message, the parent's check, the fresh BEAT (or the exit, or its        *)
(* notice) of a worker that is not hung.                                   *)
Due ==
  \/ cancelled /\ pc \in {"accept", "monitor", "backoff"}
  \/ /\ pc = "monitor" /\ ready
     /\ \/ toParent # << >> \/ dog.observer > 0
        \/ ~w.hung /\ w.quiet >= FreshEvery

Tick ==
  /\ ~Gone /\ ~Due /\ Advance(1)
  /\ UNCHANGED << pc, cancelled, ready, result, cause, level, returned, listening, link,
                  toParent, told, strays, pauses, napped >>

Pause ==
  /\ pc = "monitor" /\ ready /\ pauses < MaxPauses
  /\ \E d \in 1..(HangWindow + 1) :
       Advance(d) /\ napped' = (napped \/ d <= HangWindow)
  /\ pauses' = pauses + 1
  /\ UNCHANGED << pc, cancelled, ready, result, cause, level, returned, listening, link,
                  toParent, told, strays >>

ParentNext ==
  \/ Launch \/ LaunchFails \/ AcceptSession \/ TakeSession \/ AcceptCancelled
  \/ AcceptFails \/ ExitInAccept \/ MonitorCancelled \/ ExitInMonitor \/ Receive
  \/ ControlLost \/ Check \/ Reap \/ StopTimeout \/ ReapTimeout \/ RestartTimer
  \/ BackoffCancelled

WorkerNext ==
  \/ Connect \/ ConnectFails \/ StartFails \/ SendReady \/ Beat \/ FatalStop \/ Quit
  \/ ServeFails \/ StopReceived \/ WorkerSignal \/ ParentLost \/ ShutdownDone \/ Exit \/ Crash \/ Hang
  \/ Die \/ StrayDies

Next == ParentNext \/ WorkerNext \/ Cancel \/ ParentCrash \/ Tick \/ Pause

Spec == Init /\ [][Next]_vars

(* A select takes every case that stays ready; timers fire; the kernel     *)
(* reaps what was killed; a worker's RunWorker loop and its bounded        *)
(* shutdown run; time passes.  Nothing makes a worker connect, get ready   *)
(* or answer a STOP.                                                       *)
Fairness ==
  /\ WF_vars(Launch \/ RestartTimer) /\ WF_vars(TakeSession) /\ WF_vars(AcceptCancelled)
  /\ WF_vars(MonitorCancelled) /\ WF_vars(BackoffCancelled) /\ WF_vars(Check)
  /\ WF_vars(Receive) /\ WF_vars(Reap \/ StopTimeout \/ ReapTimeout)
  /\ WF_vars(ConnectFails) /\ WF_vars(ParentLost) /\ WF_vars(ShutdownDone)
  /\ WF_vars(Exit) /\ WF_vars(Die) /\ WF_vars(StrayDies) /\ WF_vars(Tick)

FairSpec == Spec /\ Fairness

-----------------------------------------------------------------------------
(* Properties                                                              *)

(* Every variable holds a value of its type; the backoff level stays      *)
(* within the schedule.                                                    *)
TypeOK ==
  /\ pc \in PcStates /\ cancelled \in BOOLEAN /\ ready \in BOOLEAN
  /\ dog \in [progress : 0..(HangWindow + 1), observer : 0..(HangWindow + 1)]
  /\ readyFor \in 0..StableRunReset /\ result \in Dispositions /\ cause \in Causes
  /\ level \in 1..Len(Schedule) /\ delay \in Nat /\ returned \in Returns
  /\ listening \in BOOLEAN /\ link \in {"none", "queued", "accepted", "closed"}
  /\ toParent \in Seq(Messages) /\ Len(toParent) <= MaxQueue /\ told \in BOOLEAN
  /\ w \in Workers
  /\ strays \in 0..MaxStrays /\ pauses \in 0..MaxPauses /\ napped \in BOOLEAN

(* The worker of this repository never makes the parent see a protocol     *)
(* violation, whatever the interleaving of its READY, heartbeat, quit and  *)
(* stop cases: monitorReadyWorker's ErrProtocol branches are dead.         *)
ProtocolRespected == cause # "protocol"

(* runGeneration starts a process only when the previous one was reaped or *)
(* has at least been killed: two workers never serve side by side by       *)
(* design, only as long as the kernel takes to carry out a kill.           *)
NoLiveHandover == [][pc = "launch" /\ pc' = "accept" => ~Alive \/ w.doomed]_vars

(* The watchdog gives up only on a worker whose progress really stopped,   *)
(* or after a pause of the parent no longer than the window: a pause that  *)
(* exceeds it is recognised in Check and never costs a healthy worker.     *)
NoFalseHang == cause = "hang" => w.hung \/ napped

(* RunParent's reading of the end of a generation.  A restart follows only *)
(* a ready worker, and one that exited cleanly without being killed only   *)
(* if it was found hung, so a quit is not undone; a fatal recycle or a     *)
(* crash is never taken for a normal stop; and a worker that was ready     *)
(* once is never reported as a startup failure.                            *)
DispositionSound ==
  /\ pc = "backoff" /\ ~w.doomed /\ w.exit = "zero" => cause = "hang"
  /\ pc = "backoff" => ready
  /\ returned = "nil" /\ ~cancelled => w.asked \/ w.exit = "zero"
  /\ returned = "StartupExitError" => ~ready

(* A ready worker that hangs is given up: stale heartbeats do not keep it. *)
HungIsReplaced == (pc = "monitor" /\ ready /\ w.hung) ~> pc # "monitor"

(* A cancelled parent returns, also when the worker ignores the STOP, hangs *)
(* or outlives its kill.                                                    *)
StopTerminates == cancelled ~> Gone

(* No worker outlives a parent that returned or died: every one of them    *)
(* notices the lost control connection, or never gets one.                 *)
OrphansExit == Gone ~> (~Alive /\ strays = 0)

(* normalizeParentStopError: "A child that cannot be reaped even after     *)
(* Kill must not be reported as a clean shutdown".  RunParent does report  *)
(* it so when the context ends in the backoff of a restart.                *)
CleanStopIsReaped == returned = "nil" => ~Alive /\ strays = 0
=============================================================================
