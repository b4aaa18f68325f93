------------------------------- MODULE Relay -------------------------------
(***************************************************************************)
(* internal/proxy/relay.go: the two copies of a CONNECT tunnel, their      *)
(* half-closes and the idle timeout they share.                            *)
(*                                                                         *)
(* Direction "up" copies from the client to the upstream, "down" the other *)
(* way.  A copy reads (until a deadline), writes what it read, and reads   *)
(* again.  The peers send, close their side, fail or stop reading at will. *)
(* Timers fire on time; the bytes themselves are left out.                 *)
(***************************************************************************)
EXTENDS Naturals

CONSTANTS
  Idle,     \* Config.Idle; 0 turns idle tracking off
  Grace,    \* the short wait of the re-check
  MaxTime   \* bound on the clock

Sockets    == {"client", "upstream"}
Directions == {"up", "down"}

ASSUME RelayAssumption ==
  /\ Idle \in Nat /\ MaxTime \in Nat
  /\ Grace \in Nat /\ (Idle > 0 => Grace \in 1..Idle)

VARIABLES
  now,
  lastActivity,  \* the time of the last read that returned bytes
  copy,          \* each direction: "reading", "writing" or "ended"
  wait,          \* the time a read of each direction may take
  deadline,      \* when the current read of each direction times out
  graced,        \* copyDirection's graced
  conn,          \* each socket: "open", "wclosed" (CloseWrite) or "closed"
  aborted,       \* a copy ended otherwise than by a clean EOF
  returned,      \* relay has returned
  progress       \* history: when a read or a write last completed

relayVars == << now, lastActivity, copy, wait, deadline, graced, conn, aborted, returned,
           progress >>

Src(d) == IF d = "up" THEN "client" ELSE "upstream"
Dst(d) == IF d = "up" THEN "upstream" ELSE "client"

RelayInit ==
  /\ now = 0 /\ lastActivity = 0 /\ progress = 0
  /\ copy = [d \in Directions |-> "reading"]
  /\ wait = [d \in Directions |-> Idle]
  /\ deadline = [d \in Directions |-> Idle]
  /\ graced = [d \in Directions |-> FALSE]
  /\ conn = [s \in Sockets |-> "open"]
  /\ aborted = FALSE /\ returned = FALSE

(* The sockets whose type implements closeWriter.  The upstream is a TCP   *)
(* or TLS connection; the client is an admissionConn, which embeds the     *)
(* interface net.Conn and so has no CloseWrite.                            *)
HasCloseWrite == {"upstream"}

(* Mutant of HalfClose: every socket is closed. *)
HalfCloseByClose(s) == [conn EXCEPT ![s] = "closed"]

(* halfClose: a socket without CloseWrite is closed altogether. *)
HalfClose(s) ==
  IF conn[s] = "closed" THEN conn
  ELSE [conn EXCEPT ![s] = IF s \in HasCloseWrite THEN "wclosed" ELSE "closed"]

(* Mutant of Teardown: only the source is closed. *)
CloseOwnSource(d) == [conn EXCEPT ![Src(d)] = "closed"]

(* A copy that failed closes both ends of the tunnel. *)
Teardown(d) == [s \in Sockets |-> "closed"]

(* activityReader.Read returns bytes. *)
ReadBytes(d) ==
  /\ copy[d] = "reading" /\ conn[Src(d)] # "closed"
  /\ copy' = [copy EXCEPT ![d] = "writing"]
  /\ lastActivity' = now
  /\ progress' = now
  /\ UNCHANGED << now, wait, deadline, graced, conn, aborted, returned >>

(* io.Copy has written them and reads again. *)
WriteBytes(d) ==
  /\ copy[d] = "writing" /\ conn[Dst(d)] = "open"
  /\ copy' = [copy EXCEPT ![d] = "reading"]
  /\ deadline' = [deadline EXCEPT ![d] = now + wait[d]]
  /\ progress' = now
  /\ UNCHANGED << now, lastActivity, wait, graced, conn, aborted, returned >>

(* The source has sent all it has: a clean EOF. *)
Eof(d) ==
  /\ copy[d] = "reading" /\ conn[Src(d)] # "closed"
  /\ copy' = [copy EXCEPT ![d] = "ended"]
  /\ conn' = HalfClose(Dst(d))
  /\ UNCHANGED << now, lastActivity, wait, deadline, graced, aborted, returned, progress >>

(* A read or a write fails; it must when its socket is closed. *)
Fail(d) ==
  /\ copy[d] # "ended"
  /\ copy' = [copy EXCEPT ![d] = "ended"]
  /\ conn' = Teardown(d)
  /\ aborted' = TRUE
  /\ UNCHANGED << now, lastActivity, wait, deadline, graced, returned, progress >>

(* A read times out.  With activity in either direction it starts over;    *)
(* without, it is tried once more for the grace period.                    *)
Expired(d) == Idle > 0 /\ copy[d] = "reading" /\ now >= deadline[d]

ReadAgain(d, w) ==
  /\ wait' = [wait EXCEPT ![d] = w]
  /\ deadline' = [deadline EXCEPT ![d] = now + w]
  /\ UNCHANGED << now, lastActivity, copy, conn, aborted, returned, progress >>

StillActive(d) ==
  /\ Expired(d)
  /\ now - lastActivity < Idle
  /\ graced' = [graced EXCEPT ![d] = FALSE]
  /\ ReadAgain(d, Idle)

(* Mutant of GiveGrace: graced is never set. *)
GraceForEver(d) ==
  /\ Expired(d)
  /\ ~(now - lastActivity < Idle)
  /\ UNCHANGED graced
  /\ ReadAgain(d, Grace)

GiveGrace(d) ==
  /\ Expired(d)
  /\ ~(now - lastActivity < Idle) /\ ~graced[d]
  /\ graced' = [graced EXCEPT ![d] = TRUE]
  /\ ReadAgain(d, Grace)

IdleOut(d) ==
  /\ Expired(d)
  /\ ~(now - lastActivity < Idle) /\ graced[d]
  /\ Fail(d)

(* Both copies have ended: relay closes the sockets again and returns. *)
Return ==
  /\ ~returned
  /\ \A d \in Directions : copy[d] = "ended"
  /\ returned' = TRUE
  /\ conn' = [s \in Sockets |-> "closed"]
  /\ UNCHANGED << now, lastActivity, copy, wait, deadline, graced, aborted, progress >>

Clock ==
  /\ now < MaxTime
  /\ ~returned
  /\ \A d \in Directions : ~Expired(d)
  /\ now' = now + 1
  /\ UNCHANGED << lastActivity, copy, wait, deadline, graced, conn, aborted, returned,
                  progress >>

RelayNext ==
  \/ \E d \in Directions :
       \/ ReadBytes(d) \/ WriteBytes(d) \/ Eof(d) \/ Fail(d)
       \/ StillActive(d) \/ GiveGrace(d) \/ IdleOut(d)
  \/ Return \/ Clock

RelaySpec == RelayInit /\ [][RelayNext]_relayVars

(* A copy whose read or write is on a closed socket fails, and relay       *)
(* returns when both have ended.  The peers owe nothing.                   *)
Aborts(d) ==
  /\ \/ copy[d] = "reading" /\ conn[Src(d)] = "closed"
     \/ copy[d] = "writing" /\ conn[Dst(d)] # "open"
  /\ Fail(d)

RelayFairSpec == RelaySpec /\ WF_relayVars(Return) /\ \A d \in Directions : WF_relayVars(Aborts(d))

-----------------------------------------------------------------------------
(* Every variable holds a value of its type; a read never waits longer     *)
(* than the idle timeout.                                                  *)
RelayTypeOK ==
  /\ now \in Nat /\ lastActivity \in 0..now /\ progress \in lastActivity..now
  /\ copy \in [Directions -> {"reading", "writing", "ended"}]
  /\ wait \in [Directions -> {Idle, Grace}]
  /\ deadline \in [Directions -> 0..(now + Idle)]
  /\ graced \in [Directions -> BOOLEAN]
  /\ conn \in [Sockets -> {"open", "wclosed", "closed"}]
  /\ aborted \in BOOLEAN /\ returned \in BOOLEAN

(* An idle tunnel is not kept for ever: one with a read pending is closed  *)
(* within two idle periods and the grace of its last progress, however the *)
(* deadlines of its two directions are staggered, and also when the other  *)
(* copy is blocked in a write (copyDirection).                             *)
IdleBounded ==
  Idle > 0 /\ (\E d \in Directions : copy[d] = "reading")
    => now <= progress + 2 * Idle + Grace

(* A client that has half-closed keeps receiving: after a clean EOF from   *)
(* the client, and unless something failed, the way down stays open.       *)
ClientHalfClose ==
  copy["up"] = "ended" /\ copy["down"] # "ended" /\ ~aborted
    => conn["client"] = "open" /\ conn["upstream"] # "closed"

(* architecture.md says of both directions that an early EOF on one side   *)
(* does not truncate the other: a copy that still runs has its source and  *)
(* its destination, unless something failed.                               *)
HalfCloseKeepsOther ==
  ~aborted => \A d \in Directions :
                copy[d] # "ended" => conn[Src(d)] # "closed" /\ conn[Dst(d)] = "open"

(* A tunnel that fails in one direction is torn down in both: relay        *)
(* returns, even when the other copy was blocked in a read or a write.     *)
FailureEndsRelay == aborted ~> returned
=============================================================================
