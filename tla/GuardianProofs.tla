--------------------------- MODULE GuardianProofs ---------------------------
(***************************************************************************)
(* The safety properties of Guardian for every hang window, restart        *)
(* schedule, number of pauses and messages in flight.                      *)
(***************************************************************************)
EXTENDS Guardian, TLAPS

(* The parent still reads what its worker sends. *)
Reading == pc \in {"accept", "monitor"}

(* A worker that still runs when its generation is over has been killed,   *)
(* and there is room for it among the strays.                              *)
Reaping ==
  /\ pc = "kill" => ~Alive \/ w.doomed
  /\ pc \in {"backoff", "launch"} => ~Alive \/ (w.doomed /\ strays < MaxStrays)

(* What is on its way to the parent: READY comes first and only once, and  *)
(* a STOP comes from a worker that was asked to quit.                      *)
Queue ==
  Reading =>
    /\ \A i \in DOMAIN toParent : /\ toParent[i] = "READY" <=> ~ready /\ i = 1
                                  /\ toParent[i] = "STOP" => w.asked
    /\ w.st \in {"boot", "linked"} => toParent = << >> /\ ~ready
    /\ w.st = "serving" /\ ~ready => toParent # << >>

(* The age of the last progress the watchdog knows of is at most that of   *)
(* the last fresh BEAT, unless one is on its way, or the parent has slept  *)
(* and its next check will notice.                                         *)
Cadence ==
  pc = "monitor" /\ ready /\ ~w.hung /\ ~napped =>
    \/ Suspended
    \/ dog.progress <= w.quiet
    \/ dog.progress <= HangWindow /\ \E i \in DOMAIN toParent : toParent[i] = "FRESH"

(* What the parent has made of the generation so far. *)
Verdict ==
  /\ Reading => cause = "none"
  /\ pc = "accept" => ~ready
  /\ pc \in {"stop", "kill"} =>
       /\ result # "none"
       /\ result = "Restart" => cause = "hang" /\ ready
       /\ result = "ByExit" => ready
       /\ result = "StartupFailure" => ~ready
       /\ result = "NormalStop" => cancelled \/ w.asked
  /\ returned # "none" <=> pc = "returned"

(* A clean exit that was taken for a normal stop is final. *)
Settled == returned = "nil" /\ ~cancelled => w.asked \/ (w.exit = "zero" /\ w.st = "exited")

IInv ==
  /\ TypeOK /\ Reaping /\ Queue /\ Cadence /\ Verdict /\ Settled
  /\ ProtocolRespected /\ NoFalseHang /\ DispositionSound

(* TypeOK, what counts and what does not apart. *)
Counts ==
  /\ dog \in [progress : 0..(HangWindow + 1), observer : 0..(HangWindow + 1)]
  /\ readyFor \in 0..StableRunReset /\ level \in 1..Len(Schedule) /\ delay \in Nat
  /\ toParent \in Seq(Messages) /\ Len(toParent) <= MaxQueue
  /\ strays \in 0..MaxStrays /\ pauses \in 0..MaxPauses

States ==
  /\ pc \in PcStates /\ cancelled \in BOOLEAN /\ ready \in BOOLEAN
  /\ result \in Dispositions /\ cause \in Causes /\ returned \in Returns
  /\ listening \in BOOLEAN /\ link \in {"none", "queued", "accepted", "closed"}
  /\ told \in BOOLEAN /\ napped \in BOOLEAN

LEMMA TypeParts ==
  /\ TypeOK <=> Counts /\ States /\ w \in Workers
  /\ TypeOK' <=> Counts' /\ States' /\ w' \in Workers
BY DEF TypeOK, Counts, States

-----------------------------------------------------------------------------
(* There is a delay for the first restart. *)
LEMMA ScheduleType ==
  Len(Schedule) \in Nat \ {0} /\ \A i \in 1..Len(Schedule) : Schedule[i] \in Nat
BY GuardianAssumption

LEMMA ZeroQuiet == 0 \in 0..FreshEvery
BY GuardianAssumption

(* The initial state. *)
LEMMA InitInv == Init => IInv
<1> SUFFICES ASSUME Init PROVE IInv
  OBVIOUS
<1> USE DEF Init
<1>1. w \in Workers /\ w.st = "none" /\ w.exit = "none" /\ ~w.asked
  BY ZeroQuiet DEF NoWorker, Workers, WorkerStates, Exits
<1>2. dog \in [progress : 0..(HangWindow + 1), observer : 0..(HangWindow + 1)]
  BY GuardianAssumption DEF Dog
<1>3. toParent \in Seq(Messages) /\ Len(toParent) <= MaxQueue
  BY GuardianAssumption
<1>4. /\ level \in 1..Len(Schedule) /\ readyFor \in 0..StableRunReset
      /\ strays \in 0..MaxStrays /\ pauses \in 0..MaxPauses /\ delay \in Nat
  BY ScheduleType, GuardianAssumption
<1>5. TypeOK
  BY <1>1, <1>2, <1>3, <1>4 DEF TypeOK, PcStates, Dispositions, Causes, Returns
<1>6. QED
  BY <1>1, <1>5 DEF IInv, Reaping, Queue, Cadence, Verdict, Settled, Reading, Alive,
                    ProtocolRespected, NoFalseHang, DispositionSound

-----------------------------------------------------------------------------
(* The worker.                                                             *)

(* What no step of the worker takes back. *)
Lasting ==
  /\ w' \in Workers
  /\ Alive' => Alive
  /\ ~Alive => w' = w
  /\ w'.doomed = w.doomed
  /\ w.hung => w'.hung
  /\ w.asked => w'.asked

(* A step that sends nothing and after which the worker is no further. *)
Silent ==
  /\ Lasting
  /\ toParent' = toParent
  /\ w'.quiet = w.quiet
  /\ w'.st = "serving" => w.st = "serving"
  /\ w'.st \in {"boot", "linked"} => w.st \in {"boot", "linked"}

(* Every step of the worker but READY, a BEAT and the STOP of a quit. *)
LEMMA SilentSteps ==
  ASSUME w \in Workers,
         \/ Connect \/ ConnectFails \/ StartFails \/ FatalStop \/ ServeFails \/ StopReceived
         \/ WorkerSignal \/ ParentLost \/ ShutdownDone \/ Exit \/ Crash \/ Hang \/ Die
  PROVE  Silent
<1> USE DEF Silent, Lasting, Alive, Workers, WorkerStates, Exits, Leave, StopWorker
<1>1. CASE Connect
  BY <1>1 DEF Connect
<1>2. CASE ConnectFails \/ StartFails \/ ServeFails
  BY <1>2 DEF ConnectFails, StartFails, ServeFails
<1>3. CASE FatalStop
  BY <1>3 DEF FatalStop
<1>4. CASE StopReceived \/ WorkerSignal
  BY <1>4 DEF StopReceived, WorkerSignal
<1>5. CASE ParentLost
  BY <1>5 DEF ParentLost, SeesParentLost
<1>6. CASE ShutdownDone
  BY <1>6 DEF ShutdownDone
<1>7. CASE Exit
  BY <1>7 DEF Exit
<1>8. CASE Crash
  BY <1>8 DEF Crash
<1>9. CASE Hang
  BY <1>9 DEF Hang
<1>10. CASE Die
  BY <1>10 DEF Die
<1>11. QED
  BY <1>1, <1>2, <1>3, <1>4, <1>5, <1>6, <1>7, <1>8, <1>9, <1>10

(* What the invariant says of the parent outlasts a step of the worker. *)
LEMMA WorkerKeeps ==
  ASSUME IInv, WorkerStep, Lasting
  PROVE  Reaping' /\ Verdict' /\ Settled' /\ ProtocolRespected' /\ NoFalseHang' /\ DispositionSound'
<1> USE DEF IInv, WorkerStep, parentVars, Lasting
<1>1. Reaping'
  BY DEF Reaping
<1>2. Verdict'
  BY DEF Verdict, Reading
<1>3. Settled'
  BY DEF Settled, Alive
<1>4. ProtocolRespected' /\ NoFalseHang'
  BY DEF ProtocolRespected, NoFalseHang
<1>5. DispositionSound'
  BY DEF DispositionSound, Settled, Reaping, Alive
<1>6. QED
  BY <1>1, <1>2, <1>3, <1>4, <1>5

LEMMA SilentInv ==
  ASSUME IInv, WorkerStep, Silent, told' \in BOOLEAN,
         link' \in {"none", "queued", "accepted", "closed"}
  PROVE  IInv'
<1>1. TypeOK'
  BY DEF IInv, WorkerStep, parentVars, Silent, Lasting, TypeOK
<1>2. Queue'
  BY DEF IInv, Queue, Reading, WorkerStep, parentVars, Silent, Lasting
<1>3. Cadence'
  BY DEF IInv, Cadence, Suspended, WorkerStep, parentVars, Silent, Lasting
<1>4. QED
  BY <1>1, <1>2, <1>3, WorkerKeeps DEF IInv, Silent

(* A message goes to a parent that reads it, or nowhere. *)
LEMMA SendsTo ==
  ASSUME TypeOK, CanSend, NEW m \in Messages, SendTo(m)
  PROVE  /\ toParent' \in Seq(Messages) /\ Len(toParent') <= MaxQueue
         /\ Reading => /\ DOMAIN toParent' = 1..(Len(toParent) + 1)
                       /\ \A i \in DOMAIN toParent : toParent'[i] = toParent[i]
                       /\ toParent'[Len(toParent) + 1] = m
BY GuardianAssumption DEF TypeOK, CanSend, SendTo, Reading

(* READY is the first message of a worker. *)
LEMMA SendReadyInv == IInv /\ SendReady => IInv'
<1> SUFFICES ASSUME IInv, SendReady PROVE IInv'
  OBVIOUS
<1> w \in Workers
  BY DEF IInv, TypeOK
<1>1. Lasting /\ w'.st = "serving" /\ w.st = "linked" /\ w'.asked = w.asked
  <2>1. w' \in Workers
    BY ZeroQuiet DEF SendReady, Workers, WorkerStates
  <2>2. QED
    BY <2>1 DEF SendReady, ReadyUnsent, Lasting, Alive, Workers
<1>2. WorkerStep /\ told' = told /\ link' = link
  BY DEF SendReady
<1>3. /\ toParent' \in Seq(Messages) /\ Len(toParent') <= MaxQueue
      /\ Reading => /\ DOMAIN toParent' = 1..(Len(toParent) + 1)
                    /\ \A i \in DOMAIN toParent : toParent'[i] = toParent[i]
                    /\ toParent'[Len(toParent) + 1] = "READY"
  BY SendsTo DEF IInv, SendReady, Messages
<1>4. TypeOK'
  BY <1>1, <1>2, <1>3 DEF IInv, WorkerStep, parentVars, Lasting, TypeOK
<1>5. Reading => toParent = << >> /\ ~ready
  BY <1>1 DEF IInv, Queue
<1>6. Queue'
  BY <1>1, <1>2, <1>3, <1>5 DEF Queue, Reading, WorkerStep, parentVars
<1>7. Cadence'
  BY <1>2, <1>5 DEF Cadence, Reading, WorkerStep, parentVars
<1>8. QED
  BY <1>1, <1>2, <1>4, <1>6, <1>7, WorkerKeeps DEF IInv

(* A fresh BEAT is on its way when its age starts over. *)
LEMMA BeatInv == IInv /\ Beat => IInv'
<1> SUFFICES ASSUME IInv, Beat PROVE IInv'
  OBVIOUS
<1> w \in Workers
  BY DEF IInv, TypeOK
<1>1. PICK m \in {"FRESH", "STALE"} :
        SendTo(m) /\ w' = [w EXCEPT !.due = FALSE, !.quiet = IF m = "FRESH" THEN 0 ELSE w.quiet]
  BY DEF Beat
<1>2. /\ Lasting /\ w'.st = "serving" /\ w.st = "serving" /\ w'.asked = w.asked
      /\ w'.hung = w.hung
      /\ m = "STALE" => w'.quiet = w.quiet
  <2>1. w' \in Workers
    <3>1. (IF m = "FRESH" THEN 0 ELSE w.quiet) \in 0..FreshEvery
      BY ZeroQuiet DEF Workers
    <3>2. QED
      BY <1>1, <3>1 DEF Workers
  <2>2. w.st = "serving"
    BY DEF Beat
  <2>3. QED
    BY <1>1, <2>1, <2>2 DEF Lasting, Alive, Workers
<1>3. WorkerStep /\ told' = told /\ link' = link
  BY DEF Beat
<1>4. /\ toParent' \in Seq(Messages) /\ Len(toParent') <= MaxQueue
      /\ Reading => /\ DOMAIN toParent' = 1..(Len(toParent) + 1)
                    /\ \A i \in DOMAIN toParent : toParent'[i] = toParent[i]
                    /\ toParent'[Len(toParent) + 1] = m
  BY <1>1, SendsTo DEF IInv, Beat, Messages
<1>5. TypeOK'
  BY <1>2, <1>3, <1>4 DEF IInv, WorkerStep, parentVars, Lasting, TypeOK
<1>6. Queue'
  BY <1>2, <1>3, <1>4 DEF IInv, TypeOK, Queue, Reading, WorkerStep, parentVars
<1>7. Cadence'
  <2> SUFFICES ASSUME pc = "monitor", ready, ~w.hung, ~napped, ~Suspended
               PROVE  \/ dog.progress <= w'.quiet
                      \/ dog.progress <= HangWindow
                         /\ \E i \in DOMAIN toParent' : toParent'[i] = "FRESH"
    BY <1>2, <1>3 DEF Cadence, Suspended, WorkerStep, parentVars
  <2>1. toParent \in Seq(Messages) /\ Reading
    BY DEF IInv, TypeOK, Reading
  <2>2. \/ dog.progress <= w.quiet
        \/ dog.progress <= HangWindow /\ \E i \in DOMAIN toParent : toParent[i] = "FRESH"
    BY DEF IInv, Cadence
  <2>3. CASE m = "STALE"
    BY <1>2, <1>4, <2>1, <2>2, <2>3
  <2>4. CASE m = "FRESH"
    <3>1. dog.progress <= HangWindow
      <4>1. w.quiet \in 0..FreshEvery /\ dog.progress \in Nat
        BY DEF IInv, TypeOK, Workers
      <4>2. QED
        BY <2>2, <4>1, GuardianAssumption
    <3>2. QED
      BY <1>4, <2>1, <2>4, <3>1
  <2>5. QED
    BY <2>3, <2>4
<1>8. QED
  BY <1>2, <1>3, <1>5, <1>6, <1>7, WorkerKeeps DEF IInv

(* The STOP of a quit. *)
LEMMA QuitInv == IInv /\ Quit => IInv'
<1> SUFFICES ASSUME IInv, Quit PROVE IInv'
  OBVIOUS
<1> w \in Workers
  BY DEF IInv, TypeOK
<1>1. /\ Lasting /\ w'.st = "leaving" /\ w.st = "serving" /\ w'.asked
      /\ w'.hung = w.hung /\ w'.quiet = w.quiet
  BY GuardianAssumption DEF Quit, Lasting, Alive, Workers, WorkerStates, Exits
<1>2. WorkerStep /\ told' = told /\ link' = link
  BY DEF Quit
<1>3. CASE link = "closed"
  <2>1. Silent
    BY <1>1, <1>3 DEF Quit, Silent
  <2>2. QED
    BY <1>2, <2>1, SilentInv DEF IInv, TypeOK
<1>4. CASE link # "closed"
  <2>1. CanSend /\ SendTo("STOP")
    BY <1>4 DEF Quit
  <2>2. /\ toParent' \in Seq(Messages) /\ Len(toParent') <= MaxQueue
        /\ Reading => /\ DOMAIN toParent' = 1..(Len(toParent) + 1)
                      /\ \A i \in DOMAIN toParent : toParent'[i] = toParent[i]
                      /\ toParent'[Len(toParent) + 1] = "STOP"
    BY <2>1, SendsTo DEF IInv, Messages
  <2>3. TypeOK'
    BY <1>1, <1>2, <2>2 DEF IInv, WorkerStep, parentVars, Lasting, TypeOK
  <2>4. Queue'
    <3>1. toParent \in Seq(Messages)
      BY DEF IInv, TypeOK
    <3>2. QED
      BY <1>1, <1>2, <2>2, <3>1 DEF IInv, Queue, Reading, WorkerStep, parentVars
  <2>5. Cadence'
    <3>1. toParent \in Seq(Messages)
      BY DEF IInv, TypeOK
    <3>2. QED
      BY <1>1, <1>2, <2>2, <3>1
         DEF IInv, Cadence, Suspended, Reading, WorkerStep, parentVars
  <2>6. QED
    BY <1>1, <1>2, <2>3, <2>4, <2>5, WorkerKeeps DEF IInv
<1>5. QED
  BY <1>3, <1>4

LEMMA WorkerInv == IInv /\ WorkerNext => IInv'
<1> SUFFICES ASSUME IInv, WorkerNext PROVE IInv'
  OBVIOUS
<1>1. CASE \/ Connect \/ ConnectFails \/ StartFails \/ FatalStop \/ ServeFails \/ StopReceived
           \/ WorkerSignal \/ ParentLost \/ ShutdownDone \/ Exit \/ Crash \/ Hang \/ Die
  <2>1. Silent
    BY <1>1, SilentSteps DEF IInv, TypeOK
  <2>2. /\ WorkerStep /\ told' \in BOOLEAN
        /\ link' \in {"none", "queued", "accepted", "closed"}
    BY <1>1 DEF IInv, TypeOK, Connect, ConnectFails, StartFails, FatalStop, ServeFails,
                StopReceived, WorkerSignal, ParentLost, ShutdownDone, Exit, Crash, Hang, Die
  <2>3. QED
    BY <2>1, <2>2, SilentInv
<1>2. CASE StrayDies
  BY <1>2, GuardianAssumption, SMTT(30)
     DEF StrayDies, parentVars, IInv, TypeOK, Reaping, Alive, Queue, Reading, Cadence, Suspended,
         Verdict, Settled, ProtocolRespected, NoFalseHang, DispositionSound
<1>3. QED
  BY <1>1, <1>2, SendReadyInv, BeatInv, QuitInv DEF WorkerNext

-----------------------------------------------------------------------------
(* The parent.                                                             *)

(* stopChild: the generation is given up for a reason that bears it out. *)
LEMMA StopChildInv ==
  ASSUME IInv, Reading, NEW d \in Dispositions \ {"none"}, NEW why \in Causes \ {"protocol"},
         NEW session \in BOOLEAN, StopChild(d, why, session),
         listening' \in BOOLEAN, link' \in {"none", "queued", "accepted", "closed"},
         why = "hang" => w.hung \/ napped,
         d = "Restart" => why = "hang" /\ ready,
         d = "ByExit" => ready,
         d = "StartupFailure" => ~ready,
         d = "NormalStop" => cancelled \/ w.asked
  PROVE  IInv'
<1> w \in Workers
  BY DEF IInv, TypeOK
<1>1. /\ w' \in Workers /\ w'.st = w.st /\ w'.exit = w.exit /\ w'.asked = w.asked
      /\ w'.hung = w.hung /\ w'.doomed = w.doomed
  BY ZeroQuiet DEF StopChild, Workers
<1>2. /\ pc' = "stop" /\ result' = d /\ cause' = why
      /\ UNCHANGED << cancelled, ready, readyFor, level, delay, returned, strays, pauses, napped >>
  BY DEF StopChild
<1>3. TypeOK'
  <2>1. toParent' \in Seq(Messages) /\ Len(toParent') <= MaxQueue
    BY GuardianAssumption DEF StopChild, NoLongerRead
  <2>2. dog' \in [progress : 0..(HangWindow + 1), observer : 0..(HangWindow + 1)]
    BY GuardianAssumption DEF StopChild, NoLongerRead, Dog
  <2>3. told' \in BOOLEAN
    <3>1. CASE session
      <4>1. told' = (w.st \in {"linked", "serving"})
        BY <3>1 DEF StopChild, SendStop
      <4>2. (w.st \in {"linked", "serving"}) \in BOOLEAN
        OBVIOUS
      <4>3. QED
        BY <4>1, <4>2, Zenon
    <3>2. CASE ~session
      BY <3>2 DEF StopChild, IInv, TypeOK
    <3>3. QED
      BY <3>1, <3>2
  <2>4. /\ readyFor' \in 0..StableRunReset /\ level' \in 1..Len(Schedule) /\ delay' \in Nat
        /\ strays' \in 0..MaxStrays /\ pauses' \in 0..MaxPauses
    BY <1>2 DEF IInv, TypeOK
  <2>5. /\ pc' \in PcStates /\ result' \in Dispositions /\ cause' \in Causes
        /\ returned' \in Returns /\ cancelled' \in BOOLEAN /\ ready' \in BOOLEAN
        /\ napped' \in BOOLEAN
    BY <1>2 DEF IInv, TypeOK, PcStates
  <2>6. QED
    BY <1>1, <2>1, <2>2, <2>3, <2>4, <2>5 DEF TypeOK
<1>4. returned = "none"
  BY DEF IInv, Verdict, Reading
<1>5. QED
  BY <1>1, <1>2, <1>3, <1>4
     DEF IInv, Reaping, Queue, Reading, Cadence, Verdict, Settled, ProtocolRespected, NoFalseHang,
         DispositionSound

(* The end of a generation: a restart, or a return that the exit bears out. *)
LEMMA EndGenerationInv ==
  ASSUME IInv, pc \in {"accept", "monitor", "stop", "kill"},
         NEW d \in Dispositions, NEW err, EndGeneration(d, err),
         UNCHANGED << cancelled, ready, w, strays, pauses, napped >>,
         result' \in Dispositions, cause' \in Causes \ {"protocol"},
         cause' = "hang" => w.hung \/ napped,
         d = "Restart" => /\ ready
                          /\ ~Alive \/ (w.doomed /\ strays < MaxStrays)
                          /\ ~w.doomed /\ w.exit = "zero" => cause' = "hang",
         d = "StartupFailure" => ~ready,
         d \notin {"Restart", "StartupFailure"} /\ err # "deadline" =>
           cancelled \/ w.asked \/ (w.exit = "zero" /\ w.st = "exited")
  PROVE  IInv'
<1>1. TypeOK'
  <2>1. toParent' \in Seq(Messages) /\ Len(toParent') <= MaxQueue
    BY GuardianAssumption DEF EndGeneration, NoLongerRead
  <2>2. dog' \in [progress : 0..(HangWindow + 1), observer : 0..(HangWindow + 1)]
    BY GuardianAssumption DEF EndGeneration, NoLongerRead, Dog
  <2>3. RestartLevel \in 1..Len(Schedule)
    BY ScheduleType DEF RestartLevel, IInv, TypeOK
  <2>4. NextLevel \in 1..Len(Schedule) /\ Schedule[RestartLevel] \in Nat
    BY <2>3, ScheduleType DEF NextLevel
  <2>5. level' \in 1..Len(Schedule) /\ delay' \in Nat
    BY <2>4 DEF EndGeneration, IInv, TypeOK
  <2>6. readyFor' \in 0..StableRunReset
    BY GuardianAssumption DEF EndGeneration
  <2>7. returned' \in Returns /\ pc' \in PcStates /\ told' = FALSE /\ listening' = FALSE /\ link' = "closed"
    BY DEF EndGeneration, Returns, PcStates, IInv, TypeOK
  <2>8. QED
    BY <2>1, <2>2, <2>5, <2>6, <2>7 DEF IInv, TypeOK
<1>2. returned = "none"
  BY DEF IInv, Verdict
<1>3. CASE d = "Restart"
  <2>1. pc' = "backoff" /\ returned' = "none"
    BY <1>2, <1>3 DEF EndGeneration
  <2>2. QED
    BY <1>1, <1>3, <2>1
       DEF IInv, Reaping, Alive, Queue, Reading, Cadence, Verdict, Settled, ProtocolRespected,
           NoFalseHang, DispositionSound
<1>4. CASE d # "Restart"
  <2>1. /\ pc' = "returned" /\ returned' # "none"
        /\ returned' = "nil" => d # "StartupFailure" /\ err # "deadline"
        /\ returned' = "StartupExitError" => d = "StartupFailure"
    BY <1>4 DEF EndGeneration
  <2>2. QED
    BY <1>1, <1>4, <2>1
       DEF IInv, Reaping, Queue, Reading, Cadence, Verdict, Settled, ProtocolRespected,
           NoFalseHang, DispositionSound
<1>5. QED
  BY <1>3, <1>4

LEMMA ReapInv == IInv /\ (Reap \/ ReapTimeout) => IInv'
<1> SUFFICES ASSUME IInv, Reap \/ ReapTimeout PROVE IInv'
  OBVIOUS
<1> USE DEF Dispositions
<1>0. /\ result \in Dispositions /\ cause \in Causes \ {"protocol"}
      /\ cause = "hang" => w.hung \/ napped
  BY DEF IInv, TypeOK, ProtocolRespected, NoFalseHang
<1>1. CASE Reap
  <2> DEFINE d == Disposition(ExitError)
  <2>1. /\ d \in Dispositions
        /\ d = "Restart" => ready /\ (w.exit = "zero" => cause = "hang")
        /\ d = "StartupFailure" => ~ready
        /\ d \notin {"Restart", "StartupFailure"} => cancelled \/ w.asked \/ w.exit = "zero"
    BY <1>0, <1>1 DEF Reap, Disposition, ExitError, IInv, Verdict
  <2>2. /\ EndGeneration(d, ExitError) /\ result' = d /\ cause' = cause
        /\ UNCHANGED << cancelled, ready, w, strays, pauses, napped >>
        /\ pc \in {"stop", "kill"} /\ w.st = "exited" /\ ~Alive
    BY <1>1 DEF Reap, Alive
  <2> HIDE DEF d
  <2>3. QED
    BY <1>0, <2>1, <2>2, EndGenerationInv
<1>2. CASE ReapTimeout
  <2> DEFINE d == Disposition("deadline")
  <2>1. /\ d \in Dispositions
        /\ d = "Restart" => ready
        /\ d = "StartupFailure" => ~ready
    BY <1>0, <1>2 DEF ReapTimeout, Disposition, IInv, Verdict
  <2>2. /\ EndGeneration(d, "deadline") /\ result' = d /\ cause' = cause
        /\ UNCHANGED << cancelled, ready, w, strays, pauses, napped >>
        /\ pc = "kill" /\ strays < MaxStrays /\ w.doomed
    BY <1>2 DEF ReapTimeout, IInv, Reaping
  <2> HIDE DEF d
  <2>3. QED
    BY <1>0, <2>1, <2>2, EndGenerationInv
<1>3. QED
  BY <1>1, <1>2

(* The steps of the parent that leave its worker and the messages alone. *)
LEMMA AloneInv ==
  IInv /\ (LaunchFails \/ AcceptSession \/ TakeSession \/ RestartTimer \/ BackoffCancelled
           \/ Cancel \/ ParentCrash) => IInv'
<1> SUFFICES ASSUME IInv, LaunchFails \/ AcceptSession \/ TakeSession \/ RestartTimer
                          \/ BackoffCancelled \/ Cancel \/ ParentCrash
             PROVE  IInv'
  OBVIOUS
<1> USE DEF IInv, Reaping, Alive, Queue, Reading, Cadence, Suspended, Verdict, Settled,
            ProtocolRespected, NoFalseHang, DispositionSound
<1>1. TypeOK'
  <2>1. Counts /\ States /\ w \in Workers
    BY TypeParts
  <2>2. Counts'
    BY <2>1, SMTT(30) DEF Counts, parentVars, LaunchFails, AcceptSession, TakeSession, RestartTimer,
                BackoffCancelled, Cancel, ParentCrash
  <2>3. States'
    BY <2>1 DEF States, PcStates, Returns, parentVars, LaunchFails, AcceptSession, TakeSession,
                RestartTimer, BackoffCancelled, Cancel, ParentCrash
  <2>4. (w \in Workers)'
    BY <2>1 DEF parentVars, LaunchFails, AcceptSession, TakeSession, RestartTimer,
                BackoffCancelled, Cancel, ParentCrash
  <2>5. QED
    BY <2>2, <2>3, <2>4, TypeParts
<1>2. CASE LaunchFails
  BY <1>1, <1>2 DEF LaunchFails
<1>3. CASE AcceptSession
  BY <1>1, <1>3 DEF AcceptSession, parentVars
<1>4. CASE TakeSession
  BY <1>1, <1>4 DEF TakeSession
<1>5. CASE RestartTimer
  BY <1>1, <1>5 DEF RestartTimer
<1>6. CASE BackoffCancelled
  BY <1>1, <1>6 DEF BackoffCancelled
<1>7. CASE Cancel
  BY <1>1, <1>7, SMTT(30), ZenonT(60) DEF Cancel, parentVars, Gone
<1>8. CASE ParentCrash
  BY <1>1, <1>8 DEF ParentCrash, Gone
<1>9. QED
  BY <1>2, <1>3, <1>4, <1>5, <1>6, <1>7, <1>8

LEMMA StopTimeoutInv == IInv /\ StopTimeout => IInv'
<1> SUFFICES ASSUME IInv, StopTimeout PROVE IInv'
  OBVIOUS
<1> w \in Workers
  BY DEF IInv, TypeOK
<1>1. /\ w' \in Workers /\ w'.st = w.st /\ w'.exit = w.exit /\ w'.asked = w.asked
      /\ w'.hung = w.hung /\ (Alive => w'.doomed)
  BY DEF StopTimeout, KillChild, Alive, Workers
<1>2. TypeOK'
  <2>1. Counts /\ States
    BY TypeParts DEF IInv
  <2>2. Counts' /\ States'
    BY <2>1 DEF Counts, States, StopTimeout, PcStates
  <2>3. QED
    BY <1>1, <2>2, TypeParts
<1>3. QED
  BY <1>1, <1>2
     DEF StopTimeout, IInv, Reaping, Alive, Queue, Reading, Cadence, Verdict, Settled,
         ProtocolRespected, NoFalseHang, DispositionSound

LEMMA LaunchInv == IInv /\ Launch => IInv'
<1> SUFFICES ASSUME IInv, Launch PROVE IInv'
  OBVIOUS
<1>1. w' \in Workers /\ w'.st = "boot" /\ ~w'.asked
  BY ZeroQuiet DEF Launch, NoWorker, Workers, WorkerStates, Exits
<1>2. TypeOK'
  <2>1. toParent' \in Seq(Messages) /\ Len(toParent') <= MaxQueue
    BY GuardianAssumption DEF Launch
  <2>2. dog' \in [progress : 0..(HangWindow + 1), observer : 0..(HangWindow + 1)]
    BY GuardianAssumption DEF Launch, Dog
  <2>3. strays' \in 0..MaxStrays /\ readyFor' \in 0..StableRunReset
    <3>1. Alive => strays < MaxStrays
      BY DEF Launch, IInv, Reaping
    <3>2. strays' = (IF Alive THEN strays + 1 ELSE strays) /\ readyFor' = 0
      BY DEF Launch
    <3>3. strays \in 0..MaxStrays
      BY DEF IInv, TypeOK
    <3>4. QED
      BY <3>1, <3>2, <3>3, GuardianAssumption
  <2>4. Counts /\ States
    BY TypeParts DEF IInv
  <2>5. States'
    BY <2>4 DEF Launch, States, PcStates, Dispositions, Causes
  <2>6. Counts'
    BY <2>1, <2>2, <2>3, <2>4 DEF Launch, Counts
  <2>7. QED
    BY <1>1, <2>5, <2>6, TypeParts
<1>3. returned' = "none" /\ pc' = "accept"
  BY DEF Launch, IInv, Verdict
<1>4. QED
  BY <1>1, <1>2, <1>3
     DEF Launch, IInv, Reaping, Queue, Reading, Cadence, Verdict, Settled, ProtocolRespected,
         NoFalseHang, DispositionSound

(* The cases of runGeneration's select that give the worker up. *)
LEMMA AcceptInv == IInv /\ (AcceptCancelled \/ AcceptFails \/ ExitInAccept) => IInv'
<1> SUFFICES ASSUME IInv, AcceptCancelled \/ AcceptFails \/ ExitInAccept PROVE IInv'
  OBVIOUS
<1> USE DEF Dispositions, Causes
<1>0. pc = "accept" /\ Reading /\ ~ready
  BY DEF AcceptCancelled, AcceptFails, ExitInAccept, Reading, IInv, Verdict
<1>1. CASE AcceptCancelled
  <2>1. /\ StopChild("NormalStop", "ctx", FALSE) /\ cancelled
        /\ listening' \in BOOLEAN /\ link' \in {"none", "queued", "accepted", "closed"}
    BY <1>1 DEF AcceptCancelled, IInv, TypeOK
  <2>2. QED
    BY <1>0, <2>1, StopChildInv
<1>2. CASE AcceptFails
  <2>1. listening' \in BOOLEAN /\ link' \in {"none", "queued", "accepted", "closed"}
    BY <1>2 DEF AcceptFails, IInv, TypeOK
  <2>2. CASE cancelled
    <3>1. StopChild("NormalStop", "accept", FALSE)
      BY <1>2, <2>2 DEF AcceptFails
    <3>2. QED
      BY <1>0, <2>1, <2>2, <3>1, StopChildInv
  <2>3. CASE ~cancelled
    <3>1. StopChild("StartupFailure", "accept", FALSE)
      BY <1>2, <2>3 DEF AcceptFails
    <3>2. QED
      BY <1>0, <2>1, <3>1, StopChildInv
  <2>4. QED
    BY <2>2, <2>3
<1>3. CASE ExitInAccept
  <2>1. /\ EndGeneration("StartupFailure", ExitError)
        /\ result' = "StartupFailure" /\ cause' = "exit"
        /\ UNCHANGED << cancelled, ready, w, strays, pauses, napped >>
    BY <1>3 DEF ExitInAccept
  <2>2. QED
    BY <1>0, <2>1, EndGenerationInv
<1>4. QED
  BY <1>1, <1>2, <1>3

(* The cases of monitorReadyWorker's select that do so. *)
LEMMA MonitorInv == IInv /\ (MonitorCancelled \/ ExitInMonitor \/ ControlLost) => IInv'
<1> SUFFICES ASSUME IInv, MonitorCancelled \/ ExitInMonitor \/ ControlLost PROVE IInv'
  OBVIOUS
<1> USE DEF Dispositions, Causes
<1>0. pc = "monitor" /\ Reading
  BY DEF MonitorCancelled, ExitInMonitor, ControlLost, Reading
<1>1. listening \in BOOLEAN /\ link \in {"none", "queued", "accepted", "closed"}
  BY DEF IInv, TypeOK
<1>2. CASE MonitorCancelled
  <2>1. /\ StopChild("NormalStop", "ctx", TRUE) /\ cancelled
        /\ listening' = listening /\ link' = link
    BY <1>2 DEF MonitorCancelled
  <2>2. QED
    BY <1>0, <1>1, <2>1, StopChildInv
<1>3. CASE ControlLost
  <2>1. listening' = listening /\ link' = link
    BY <1>3 DEF ControlLost
  <2>2. CASE ready
    <3>1. StopChild("ByExit", "lost", TRUE)
      BY <1>3, <2>2 DEF ControlLost
    <3>2. QED
      BY <1>0, <1>1, <2>1, <2>2, <3>1, StopChildInv
  <2>3. CASE ~ready
    <3>1. StopChild("StartupFailure", "lost", TRUE)
      BY <1>3, <2>3 DEF ControlLost
    <3>2. QED
      BY <1>0, <1>1, <2>1, <2>3, <3>1, StopChildInv
  <2>4. QED
    BY <2>2, <2>3
<1>4. CASE ExitInMonitor
  <2> DEFINE d == ExitDisposition
  <2>1. /\ d \in Dispositions
        /\ d = "Restart" => ready /\ w.exit # "zero"
        /\ d = "StartupFailure" => ~ready
        /\ d \notin {"Restart", "StartupFailure"} => w.exit = "zero"
    BY DEF ExitDisposition, ExitError
  <2>2. /\ EndGeneration(d, ExitError) /\ result' = d /\ cause' = "exit"
        /\ UNCHANGED << cancelled, ready, w, strays, pauses, napped >>
        /\ w.st = "exited" /\ ~Alive
    BY <1>4 DEF ExitInMonitor, Alive
  <2> HIDE DEF d
  <2>3. QED
    BY <1>0, <2>1, <2>2, EndGenerationInv
<1>5. QED
  BY <1>2, <1>3, <1>4

(* The next message is what the protocol expects. *)
LEMMA HeadExpected ==
  ASSUME IInv, pc = "monitor", toParent # << >>
  PROVE  /\ Head(toParent) \in Messages
         /\ Head(toParent) = "READY" <=> ~ready
         /\ Head(toParent) = "STOP" => w.asked
<1>1. toParent \in Seq(Messages) /\ Queue /\ Reading
  BY DEF IInv, TypeOK, Reading
<1>2. 1 \in DOMAIN toParent /\ Head(toParent) = toParent[1] /\ toParent[1] \in Messages
  BY <1>1
<1>3. QED
  BY <1>1, <1>2 DEF Queue

(* The queue without its head. *)
LEMMA TailQueue ==
  ASSUME toParent \in Seq(Messages), toParent # << >>, Len(toParent) <= MaxQueue
  PROVE  /\ Tail(toParent) \in Seq(Messages) /\ Len(Tail(toParent)) <= MaxQueue
         /\ \A i \in DOMAIN Tail(toParent) : i \in Nat \ {0} /\ i + 1 \in DOMAIN toParent
                                              /\ Tail(toParent)[i] = toParent[i + 1]
         /\ \A i \in DOMAIN toParent : i = 1 \/ (i - 1 \in DOMAIN Tail(toParent)
                                              /\ Tail(toParent)[i - 1] = toParent[i])
BY GuardianAssumption

LEMMA ReceiveInv == IInv /\ Receive => IInv'
<1> SUFFICES ASSUME IInv, Receive PROVE IInv'
  OBVIOUS
<1> DEFINE m == Head(toParent)
<1>1. /\ pc = "monitor" /\ toParent # << >> /\ Reading
      /\ UNCHANGED << cancelled, level, delay, returned, listening, link, strays, pauses >>
  BY DEF Receive, Reading
<1>2. m \in Messages /\ (m = "READY" <=> ~ready) /\ (m = "STOP" => w.asked)
  BY <1>1, HeadExpected
<1>3. ~Unexpected(m)
  BY <1>2 DEF Unexpected
<1>4. /\ Tail(toParent) \in Seq(Messages) /\ Len(Tail(toParent)) <= MaxQueue
      /\ \A i \in DOMAIN Tail(toParent) : i \in Nat \ {0} /\ i + 1 \in DOMAIN toParent
                                          /\ Tail(toParent)[i] = toParent[i + 1]
      /\ \A i \in DOMAIN toParent : i = 1 \/ (i - 1 \in DOMAIN Tail(toParent)
                                          /\ Tail(toParent)[i - 1] = toParent[i])
  BY <1>1, TailQueue DEF IInv, TypeOK
<1>5. m = toParent[1]
  BY <1>1 DEF IInv, TypeOK
<1>6. Counts /\ States /\ w \in Workers
  BY TypeParts DEF IInv
<1>7. CASE m = "STOP"
  <2>1. HandleStop(m)
    BY <1>7 DEF Receive
  <2>2. StopChild("NormalStop", "stop", FALSE)
    BY <2>1, <1>2, <1>3, <1>7 DEF HandleStop
  <2>3. listening' \in BOOLEAN /\ link' \in {"none", "queued", "accepted", "closed"}
    BY <1>1, <1>6 DEF States
  <2>4. QED
    BY <1>1, <1>2, <1>7, <2>2, <2>3, StopChildInv DEF Dispositions, Causes
<1>8. CASE m = "READY"
  <2>1. HandleReady
    BY <1>3, <1>8 DEF Receive
  <2>2. TypeOK'
    <3>1. States' /\ w' \in Workers
      BY <1>1, <1>6, <2>1 DEF States, HandleReady
    <3>2. Counts'
      BY <1>1, <1>4, <1>6, <2>1, GuardianAssumption, SMTT(30) DEF Counts, HandleReady, DogReady, Dog
    <3>3. QED
      BY <3>1, <3>2, TypeParts
  <2>3. Queue'
    BY <1>1, <1>2, <1>4, <1>8, <2>1, SMTT(30) DEF IInv, Queue, Reading, HandleReady
  <2>4. Cadence'
    <3>1. dog'.progress = 0 /\ w' = w /\ w.quiet \in 0..FreshEvery
      BY <1>6, <2>1 DEF HandleReady, DogReady, Dog, Workers
    <3>2. dog'.progress <= w'.quiet
      BY <3>1, GuardianAssumption
    <3>3. QED
      BY <3>2 DEF Cadence
  <2>5. QED
    BY <1>1, <2>1, <2>2, <2>3, <2>4
       DEF IInv, Reaping, Alive, Verdict, Reading, Settled, ProtocolRespected, NoFalseHang,
           DispositionSound, HandleReady
<1>9. CASE m \in {"FRESH", "STALE"}
  <2>1. HandleBeat(m) /\ ready
    BY <1>2, <1>3, <1>9 DEF Receive
  <2>2. dog' = (IF m = "FRESH" THEN Dog(0, dog.observer) ELSE dog)
    BY <2>1 DEF HandleBeat, DogBeat
  <2>3. TypeOK'
    <3>1. States' /\ w' \in Workers
      BY <1>1, <1>6, <2>1 DEF States, HandleBeat
    <3>2. dog' \in [progress : 0..(HangWindow + 1), observer : 0..(HangWindow + 1)]
      BY <1>6, <2>2, GuardianAssumption DEF Counts, Dog
    <3>3. Counts'
      BY <1>1, <1>4, <1>6, <2>1, <3>2 DEF Counts, HandleBeat
    <3>4. QED
      BY <3>1, <3>3, TypeParts
  <2>4. Queue'
    BY <1>1, <1>4, <2>1 DEF IInv, Queue, Reading, HandleBeat
  <2>5. Cadence'
    <3>1. CASE m = "FRESH"
      <4>1. dog'.progress = 0 /\ w' = w /\ w.quiet \in 0..FreshEvery
        BY <1>6, <2>1, <2>2, <3>1 DEF HandleBeat, Dog, Workers
      <4>2. dog'.progress <= w'.quiet
        BY <4>1, GuardianAssumption
      <4>3. QED
        BY <4>2 DEF Cadence
    <3>2. CASE m = "STALE"
      <4>1. /\ dog' = dog /\ w' = w /\ pc' = pc /\ ready' = ready /\ napped' = napped
            /\ toParent' = Tail(toParent)
        BY <2>1, <2>2, <3>2, <1>6 DEF HandleBeat, States
      <4>2. \A i \in DOMAIN toParent : toParent[i] = "FRESH" => i # 1
        BY <1>5, <3>2
      <4>3. QED
        BY <1>4, <4>1, <4>2 DEF IInv, Cadence, Suspended
    <3>3. QED
      BY <1>9, <3>1, <3>2
  <2>6. QED
    BY <1>1, <2>1, <2>3, <2>4, <2>5
       DEF IInv, Reaping, Alive, Verdict, Reading, Settled, ProtocolRespected, NoFalseHang,
           DispositionSound, HandleBeat
<1>10. QED
  BY <1>2, <1>7, <1>8, <1>9 DEF Messages

(* A check finds a worker late only if Cadence does not protect it. *)
LEMMA CheckInv == IInv /\ Check => IInv'
<1> SUFFICES ASSUME IInv, Check PROVE IInv'
  OBVIOUS
<1>1. /\ pc = "monitor" /\ ready /\ Reading
      /\ UNCHANGED << cancelled, ready, readyFor, level, delay, returned, listening, link, strays,
                      pauses, napped >>
  BY DEF Check, Reading
<1>2. Counts /\ States /\ w \in Workers
  BY TypeParts DEF IInv
<1>3. CASE ~Suspended /\ Expired
  <2>1. StopChild("Restart", "hang", TRUE)
    BY <1>3 DEF Check
  <2>2. w.hung \/ napped
    <3>1. dog.progress > HangWindow /\ dog.progress \in Nat /\ w.quiet \in 0..FreshEvery
      BY <1>2, <1>3 DEF Expired, Counts, Workers
    <3>2. ~(dog.progress <= w.quiet) /\ ~(dog.progress <= HangWindow)
      BY <3>1, GuardianAssumption
    <3>3. QED
      BY <1>1, <1>3, <3>2 DEF IInv, Cadence
  <2>3. listening' \in BOOLEAN /\ link' \in {"none", "queued", "accepted", "closed"}
    BY <1>1, <1>2 DEF States
  <2>4. QED
    BY <1>1, <2>1, <2>2, <2>3, StopChildInv DEF Dispositions, Causes
<1>4. CASE ~(~Suspended /\ Expired)
  <2>1. /\ dog' = IF Suspended THEN Dog(0, 0) ELSE Dog(dog.progress, 0)
        /\ UNCHANGED << pc, result, cause, told, toParent, w >>
    BY <1>4 DEF Check
  <2>2. TypeOK'
    <3>1. States' /\ w' \in Workers
      BY <1>1, <1>2, <2>1 DEF States
    <3>2. dog' \in [progress : 0..(HangWindow + 1), observer : 0..(HangWindow + 1)]
      BY <1>2, <2>1, GuardianAssumption DEF Counts, Dog
    <3>3. Counts'
      BY <1>1, <1>2, <2>1, <3>2 DEF Counts
    <3>4. QED
      BY <3>1, <3>3, TypeParts
  <2>3. Cadence'
    <3>1. dog'.progress = 0 \/ (~Suspended /\ dog'.progress = dog.progress)
      BY <2>1 DEF Dog
    <3>2. w.quiet \in 0..FreshEvery
      BY <1>2 DEF Workers
    <3>3. QED
      BY <1>1, <2>1, <3>1, <3>2, GuardianAssumption DEF IInv, Cadence
  <2>4. QED
    BY <1>1, <2>1, <2>2, <2>3
       DEF IInv, Reaping, Alive, Queue, Verdict, Reading, Settled, ProtocolRespected, NoFalseHang,
           DispositionSound
<1>5. QED
  BY <1>3, <1>4

-----------------------------------------------------------------------------
(* Time and its jumps.                                                     *)

LEMMA CappedType ==
  ASSUME NEW n \in Nat, NEW cap \in Nat
  PROVE  Capped(n, cap) \in 0..cap /\ (n <= cap => Capped(n, cap) = n)
BY DEF Capped

(* Ages grow together, up to their caps; nothing else of a worker changes. *)
LEMMA Ages ==
  ASSUME IInv, NEW d \in Nat \ {0}, Advance(d)
  PROVE  /\ dog' \in [progress : 0..(HangWindow + 1), observer : 0..(HangWindow + 1)]
         /\ pc = "monitor" /\ ready =>
              /\ dog'.progress = Capped(dog.progress + d, HangWindow + 1)
              /\ dog'.observer = Capped(dog.observer + d, HangWindow + 1)
              /\ w'.quiet = Capped(w.quiet + d, FreshEvery)
         /\ readyFor' \in 0..StableRunReset /\ delay' \in Nat
         /\ w' \in Workers /\ w'.st = w.st /\ w'.exit = w.exit /\ w'.asked = w.asked
         /\ w'.hung = w.hung /\ w'.doomed = w.doomed
<1>1. Counts /\ w \in Workers
  BY TypeParts DEF IInv
<1>2. dog.progress \in Nat /\ dog.observer \in Nat /\ HangWindow + 1 \in Nat
  BY <1>1, GuardianAssumption DEF Counts
<1>3. w.quiet \in Nat /\ FreshEvery \in Nat
  BY <1>1, GuardianAssumption DEF Workers
<1>4. /\ Capped(dog.progress + d, HangWindow + 1) \in 0..(HangWindow + 1)
      /\ Capped(dog.observer + d, HangWindow + 1) \in 0..(HangWindow + 1)
      /\ Capped(w.quiet + d, FreshEvery) \in 0..FreshEvery
  <2>1. dog.progress + d \in Nat /\ dog.observer + d \in Nat /\ w.quiet + d \in Nat
    BY <1>2, <1>3
  <2>2. QED
    BY <1>2, <1>3, <2>1, CappedType
<1>5. /\ dog' \in [progress : 0..(HangWindow + 1), observer : 0..(HangWindow + 1)]
      /\ pc = "monitor" /\ ready =>
           /\ dog'.progress = Capped(dog.progress + d, HangWindow + 1)
           /\ dog'.observer = Capped(dog.observer + d, HangWindow + 1)
  <2>1. CASE pc = "monitor" /\ ready
    <3>1. dog' = Dog(Capped(dog.progress + d, HangWindow + 1),
                     Capped(dog.observer + d, HangWindow + 1))
      BY <2>1 DEF Advance
    <3>2. QED
      BY <1>4, <3>1 DEF Dog
  <2>2. CASE ~(pc = "monitor" /\ ready)
    BY <1>1, <2>2 DEF Advance, Counts
  <2>3. QED
    BY <2>1, <2>2
<1>6. /\ w' \in Workers /\ w'.st = w.st /\ w'.exit = w.exit /\ w'.asked = w.asked
      /\ w'.hung = w.hung /\ w'.doomed = w.doomed
      /\ pc = "monitor" /\ ready => w'.quiet = Capped(w.quiet + d, FreshEvery)
  <2> DEFINE due == w.st = "serving"
             quiet == IF pc = "monitor" /\ ready THEN Capped(w.quiet + d, FreshEvery) ELSE 0
  <2>1. w' = [w EXCEPT !.due = due, !.quiet = quiet]
    BY DEF Advance
  <2>2. due \in BOOLEAN /\ quiet \in 0..FreshEvery
    BY <1>4, ZeroQuiet
  <2>3. pc = "monitor" /\ ready => quiet = Capped(w.quiet + d, FreshEvery)
    OBVIOUS
  <2> HIDE DEF due, quiet
  <2>4. QED
    BY <1>1, <2>1, <2>2, <2>3 DEF Workers
<1>7. readyFor' \in 0..StableRunReset
  <2>1. readyFor \in Nat /\ readyFor \in 0..StableRunReset /\ StableRunReset \in Nat
    BY <1>1, GuardianAssumption DEF Counts
  <2>2. Capped(readyFor + d, StableRunReset) \in 0..StableRunReset
    BY <2>1, CappedType
  <2>3. QED
    BY <2>1, <2>2 DEF Advance
<1>8. delay' \in Nat
  BY <1>1 DEF Counts, Advance
<1>9. QED
  BY <1>5, <1>6, <1>7, <1>8

(* Whatever only time and ages change. *)
LEMMA TimeKeeps ==
  ASSUME IInv, NEW d \in Nat \ {0}, Advance(d), pauses' \in 0..MaxPauses, napped' \in BOOLEAN,
         napped => napped', Cadence',
         UNCHANGED << pc, cancelled, ready, result, cause, level, returned, listening, link,
                      toParent, told, strays >>
  PROVE  IInv'
<1>1. /\ dog' \in [progress : 0..(HangWindow + 1), observer : 0..(HangWindow + 1)]
      /\ readyFor' \in 0..StableRunReset /\ delay' \in Nat
      /\ w' \in Workers /\ w'.st = w.st /\ w'.exit = w.exit /\ w'.asked = w.asked
      /\ w'.hung = w.hung /\ w'.doomed = w.doomed
  BY Ages
<1>2. TypeOK'
  <2>1. Counts /\ States
    BY TypeParts DEF IInv
  <2>2. Counts'
    BY <1>1, <2>1 DEF Counts
  <2>3. States'
    BY <2>1 DEF States
  <2>4. QED
    BY <1>1, <2>2, <2>3, TypeParts
<1>3. Reaping' /\ Settled' /\ NoFalseHang'
  BY <1>1 DEF IInv, Reaping, Alive, Settled, NoFalseHang
<1>4. Queue' /\ ProtocolRespected'
  BY <1>1 DEF IInv, Queue, Reading, ProtocolRespected
<1>5. Verdict' /\ DispositionSound'
  BY <1>1 DEF IInv, Verdict, Reading, DispositionSound
<1>6. QED
  BY <1>2, <1>3, <1>4, <1>5 DEF IInv

(* No time passes while a check, a message or a fresh BEAT is due. *)
LEMMA TickInv == IInv /\ Tick => IInv'
<1> SUFFICES ASSUME IInv, Tick PROVE IInv'
  OBVIOUS
<1>1. /\ Advance(1) /\ ~Due
      /\ UNCHANGED << pc, cancelled, ready, result, cause, level, returned, listening, link,
                      toParent, told, strays, pauses, napped >>
  BY DEF Tick
<1>2. Counts /\ States /\ w \in Workers
  BY TypeParts DEF IInv
<1>3. Cadence'
  <2> SUFFICES ASSUME pc = "monitor", ready, ~w'.hung, ~napped
               PROVE  dog'.progress <= w'.quiet
    BY <1>1 DEF Cadence
  <2>1. /\ w'.hung = w.hung
        /\ dog'.progress = Capped(dog.progress + 1, HangWindow + 1)
        /\ w'.quiet = Capped(w.quiet + 1, FreshEvery)
    BY <1>1, Ages, SMTT(30)
  <2>2. toParent = << >> /\ ~(dog.observer > 0) /\ ~(w.quiet >= FreshEvery)
    BY <1>1, <2>1 DEF Due
  <2>3. dog.progress \in Nat /\ dog.observer \in Nat /\ w.quiet \in 0..FreshEvery
    BY <1>2 DEF Counts, Workers
  <2>4. ~Suspended
    BY <2>2, <2>3, GuardianAssumption DEF Suspended
  <2>5. dog.progress <= w.quiet
    BY <2>1, <2>2, <2>4 DEF IInv, Cadence
  <2>6. QED
    BY <2>1, <2>2, <2>3, <2>5, GuardianAssumption DEF Capped
<1>4. pauses' \in 0..MaxPauses /\ napped' \in BOOLEAN
  BY <1>1, <1>2 DEF Counts, States
<1>5. QED
  BY <1>1, <1>3, <1>4, TimeKeeps

(* A pause within the window is remembered, a longer one is recognised. *)
LEMMA PauseInv == IInv /\ Pause => IInv'
<1> SUFFICES ASSUME IInv, Pause PROVE IInv'
  OBVIOUS
<1>1. PICK d \in 1..(HangWindow + 1) : Advance(d) /\ napped' = (napped \/ d <= HangWindow)
  BY DEF Pause
<1>2. /\ pc = "monitor" /\ ready /\ pauses < MaxPauses /\ pauses' = pauses + 1
      /\ UNCHANGED << pc, cancelled, ready, result, cause, level, returned, listening, link,
                      toParent, told, strays >>
  BY DEF Pause
<1>3. Counts /\ States /\ d \in Nat \ {0}
  BY TypeParts, GuardianAssumption DEF IInv
<1>4. Cadence'
  <2> SUFFICES ASSUME ~napped' PROVE Suspended'
    BY DEF Cadence
  <2>0. ~(d <= HangWindow)
    BY <1>1, Zenon
  <2>1. d = HangWindow + 1
    BY <2>0, GuardianAssumption
  <2>2. dog'.observer = Capped(dog.observer + d, HangWindow + 1)
    BY <1>1, <1>2, <1>3, Ages
  <2>3. QED
    BY <1>3, <2>1, <2>2, GuardianAssumption DEF Counts, Suspended, Capped
<1>5. pauses' \in 0..MaxPauses
  BY <1>2, <1>3, GuardianAssumption DEF Counts
<1>6. napped' \in BOOLEAN /\ (napped => napped')
  <2>1. (napped \/ d <= HangWindow) \in BOOLEAN
    OBVIOUS
  <2>2. QED
    BY <1>1, <2>1, Zenon
<1>7. QED
  BY <1>1, <1>2, <1>3, <1>4, <1>5, <1>6, TimeKeeps

-----------------------------------------------------------------------------
LEMMA NextInv == IInv /\ [Next]_vars => IInv'
<1> SUFFICES ASSUME IInv, [Next]_vars PROVE IInv'
  OBVIOUS
<1>1. CASE ParentNext
  BY <1>1, LaunchInv, AloneInv, AcceptInv, MonitorInv, ReceiveInv, CheckInv, ReapInv,
     StopTimeoutInv DEF ParentNext
<1>2. CASE UNCHANGED vars
  <2>0. /\ TypeOK /\ Reaping /\ Queue /\ Cadence /\ Verdict /\ Settled
        /\ ProtocolRespected /\ NoFalseHang /\ DispositionSound
    BY DEF IInv
  <2>1. TypeOK'
    BY <1>2, <2>0, ZenonT(30) DEF vars, TypeOK
  <2>2. Reaping' /\ Settled'
    BY <1>2, <2>0, ZenonT(30) DEF vars, Reaping, Alive, Settled
  <2>3. Queue'
    BY <1>2, <2>0, ZenonT(30) DEF vars, Queue, Alive, Reading
  <2>4. Cadence'
    BY <1>2, <2>0, ZenonT(30) DEF vars, Cadence, Alive, Reading, Suspended
  <2>5. Verdict'
    BY <1>2, <2>0, ZenonT(30) DEF vars, Verdict, Alive, Reading
  <2>6. ProtocolRespected' /\ NoFalseHang'
    BY <1>2, <2>0, ZenonT(30) DEF vars, ProtocolRespected, NoFalseHang
  <2>7. DispositionSound'
    BY <1>2, <2>0, ZenonT(30) DEF vars, DispositionSound
  <2> QED
    BY <2>1, <2>2, <2>3, <2>4, <2>5, <2>6, <2>7 DEF IInv
<1>3. QED
  BY <1>1, <1>2, WorkerInv, AloneInv, TickInv, PauseInv DEF Next

LEMMA Invariance == Spec => []IInv
BY InitInv, NextInv, PTL DEF Spec

(* The types of Guardian, the restart level within its schedule and the    *)
(* strays within their bound.                                              *)
THEOREM TypeCorrect == Spec => []TypeOK
BY Invariance, PTL DEF IInv

(* The parent never meets a message that monitorReadyWorker's protocol     *)
(* forbids.                                                                *)
THEOREM ProtocolIsRespected == Spec => []ProtocolRespected
BY Invariance, PTL DEF IInv

(* The watchdog only gives up a worker that hangs, or one that a pause of  *)
(* the parent within the hang window made look so.                         *)
THEOREM HangsAreReal == Spec => []NoFalseHang
BY Invariance, PTL DEF IInv

(* How RunParent reads the end of a generation: restarts, normal stops and *)
(* startup failures.                                                       *)
THEOREM DispositionsAreSound == Spec => []DispositionSound
BY Invariance, PTL DEF IInv

(* runGeneration never starts a worker beside one that was not killed. *)
THEOREM HandoverIsSafe == Spec => NoLiveHandover
<1>1. IInv => [pc = "launch" /\ pc' = "accept" => ~Alive \/ w.doomed]_vars
  BY DEF IInv, Reaping
<1>2. QED
  BY <1>1, Invariance, PTL DEF Spec, NoLiveHandover
-----------------------------------------------------------------------------
(* A parent that watches no worker has cut off the last one: its listener  *)
(* and its control connection are closed.                                  *)
Cut ==
  pc \in {"launch", "backoff", "returned", "crashed"} => ~listening /\ (link = "closed" \/ w.st = "none")

LEMMA CutStep == IInv /\ Cut /\ [Next]_vars => Cut'
<1> SUFFICES ASSUME IInv, Cut, [Next]_vars PROVE Cut'
  OBVIOUS
<1>0. w \in Workers
  BY DEF IInv, TypeOK
<1>1. CASE Launch \/ LaunchFails \/ RestartTimer \/ BackoffCancelled
  BY <1>1 DEF Launch, LaunchFails, RestartTimer, BackoffCancelled, Cut
<1>2. CASE AcceptSession \/ TakeSession \/ StopTimeout
  BY <1>2 DEF AcceptSession, TakeSession, StopTimeout, parentVars, Cut
<1>3. CASE AcceptCancelled \/ AcceptFails \/ MonitorCancelled \/ ControlLost
  BY <1>3 DEF AcceptCancelled, AcceptFails, MonitorCancelled, ControlLost, StopChild, Cut
<1>4. CASE ExitInAccept \/ ExitInMonitor \/ Reap \/ ReapTimeout
  BY <1>4 DEF ExitInAccept, ExitInMonitor, Reap, ReapTimeout, EndGeneration, Cut
<1>5. CASE Receive \/ Check
  <2>1. pc' \in {"monitor", "stop"}
    BY <1>5 DEF Receive, Check, HandleStop, HandleReady, HandleBeat, StopChild
  <2>2. QED
    BY <2>1 DEF Cut
<1>6. CASE WorkerNext
  <2>1. UNCHANGED << pc, listening >>
    BY <1>6 DEF WorkerNext, WorkerStep, parentVars, Connect, ConnectFails, StartFails, SendReady, Beat, FatalStop, Quit,
                ServeFails, StopReceived, WorkerSignal, ParentLost, ShutdownDone, Exit, Crash, Hang, Die, StrayDies
  <2>2. listening \/ link' = link
    BY <1>6 DEF WorkerNext, Connect, ConnectFails, StartFails, SendReady, Beat, FatalStop, Quit,
                ServeFails, StopReceived, WorkerSignal, ParentLost, ShutdownDone, Exit, Crash, Hang, Die, StrayDies
  <2>3. w.st = "none" => w' = w
    BY <1>6 DEF WorkerNext, Connect, ConnectFails, StartFails, SendReady, Beat, FatalStop, Quit, ReadyUnsent, Alive,
                ServeFails, StopReceived, WorkerSignal, ParentLost, SeesParentLost, ShutdownDone, Exit, Crash, Hang,
                Die, StrayDies
  <2>4. QED
    BY <2>1, <2>2, <2>3 DEF Cut
<1>7. CASE Cancel \/ ParentCrash
  BY <1>7 DEF Cancel, ParentCrash, parentVars, Gone, Cut
<1>8. CASE Tick \/ Pause
  <2>1. UNCHANGED << pc, listening, link >> /\ \E d : Advance(d)
    BY <1>8 DEF Tick, Pause
  <2>2. w'.st = w.st
    BY <1>0, <2>1 DEF Advance, Workers
  <2>3. QED
    BY <2>1, <2>2 DEF Cut
<1>9. CASE UNCHANGED vars
  BY <1>9 DEF vars, Cut
<1>10. QED
  BY <1>1, <1>2, <1>3, <1>4, <1>5, <1>6, <1>7, <1>8, <1>9 DEF Next, ParentNext

(* A worker that outlives its parent, or its generation, has no connection *)
(* and can get none.                                                       *)
OrphansAreCut == (Gone \/ pc \in {"backoff", "launch"}) /\ Alive => ~listening /\ link = "closed"

(* However RunParent or a generation ends, and wherever the worker is at   *)
(* that moment, in the middle of Connect included, a worker that lives on  *)
(* sees the loss of the control connection or is refused one.              *)
THEOREM OrphansLoseTheLink == Spec => []OrphansAreCut
<1>1. Init => Cut
  BY DEF Init, Cut, NoWorker
<1>2. Cut => OrphansAreCut
  BY DEF Cut, OrphansAreCut, Gone, Alive
<1>3. QED
  BY <1>1, <1>2, CutStep, Invariance, PTL DEF Spec
=============================================================================
