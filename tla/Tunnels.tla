------------------------------ MODULE Tunnels ------------------------------
(***************************************************************************)
(* internal/proxy, tunnel.go, admission.go and the handlers that hand a    *)
(* client connection over to a tunnel (CONNECT, and HTTP upgrade): who     *)
(* owns each socket, the registry of tunnels, and how Server.Shutdown      *)
(* drains it.                                                              *)
(*                                                                         *)
(* A connection is followed from the listener to the end of its tunnel.    *)
(* What the relay copies is left to module Relay; here a relay is two      *)
(* copies that end on their own, or because a socket was closed.           *)
(***************************************************************************)
EXTENDS Naturals, FiniteSets

CONSTANTS
  Conns,     \* the client connections, each used for one request
  Upgrades,  \* those whose request is an HTTP upgrade, not a CONNECT
  MaxSlots   \* connectionBudget: the capacity of the admission channel

ASSUME TunnelsAssumption ==
  IsFiniteSet(Conns) /\ Upgrades \subseteq Conns /\ MaxSlots \in Nat \ {0}

VARIABLES
  pc,            \* how far each connection has come
  client,        \* the admitted client sockets that are not closed
  upstream,      \* the connections whose upstream socket is not closed
  used,          \* len(admissionSlots)
  listening,     \* the listeners accept
  shuttingDown,  \* Server.tunnelShuttingDown
  pending,       \* Server.tunnelPending
  tunnels,       \* Server.tunnels, and the gauge Server.active
  zero,          \* Server.tunnelZero: the number of the current channel
  closedZeros,   \* the channels tunnelZero has held that are closed
  copies,        \* how many copies each relay has left
  sd,            \* how far Shutdown has come
  toClose,       \* the tunnels beginTunnelShutdown has still to close
  done,          \* the channel Shutdown waits for
  ctxDone,       \* the context of Shutdown has ended
  failed         \* Shutdown has an error to return

sockets  == << client, upstream, used >>
registry == << pending, tunnels, zero, closedZeros >>
shutdown == << listening, shuttingDown, sd, toClose, done, ctxDone, failed >>
vars == << pc, sockets, registry, copies, shutdown >>

Init ==
  /\ pc = [c \in Conns |-> "new"]
  /\ client = {} /\ upstream = {} /\ used = 0
  /\ listening = TRUE /\ shuttingDown = FALSE
  /\ pending = 0 /\ tunnels = {}
  /\ zero = 0 /\ closedZeros = {0}
  /\ copies = [c \in Conns |-> 0]
  /\ sd = "running" /\ toClose = {} /\ done = 0 /\ ctxDone = FALSE /\ failed = FALSE

Go(c, from, to) == pc[c] = from /\ pc' = [pc EXCEPT ![c] = to]

(* admissionConn.Close and upstream.Close; the slot is released once. *)
CloseSockets(c) ==
  /\ client' = client \ {c}
  /\ used' = IF c \in client THEN used - 1 ELSE used
  /\ upstream' = upstream \ {c}

(* Mutant of Signal: reservations are not counted. *)
SignalEarly(p, T) == closedZeros' = IF T = {} THEN closedZeros \cup {zero} ELSE closedZeros

(* signalTunnelZeroLocked, with p reservations and tunnels T. *)
Signal(p, T) ==
  closedZeros' = IF p = 0 /\ T = {} THEN closedZeros \cup {zero} ELSE closedZeros

-----------------------------------------------------------------------------
(* admissionListener.Accept: the raw connection, then a slot; closing the  *)
(* listener refuses a connection that waits.  One Accept loop waits at a   *)
(* time.                                                                   *)
RawAccept(c) ==
  /\ listening
  /\ \A d \in Conns : pc[d] # "queued"
  /\ Go(c, "new", "queued")
  /\ UNCHANGED << sockets, registry, copies, shutdown >>

(* Mutant of HasSlot: the slots are unbounded. *)
AlwaysASlot == TRUE

HasSlot == used < MaxSlots

Admit(c) ==
  /\ HasSlot
  /\ Go(c, "queued", "handling")
  /\ client' = client \cup {c}
  /\ used' = used + 1
  /\ UNCHANGED << upstream, registry, copies, shutdown >>

Refuse(c) ==
  /\ ~listening
  /\ Go(c, "queued", "done")
  /\ UNCHANGED << sockets, registry, copies, shutdown >>

-----------------------------------------------------------------------------
(* handleConnect and handleHTTPUpgrade.  A handler that fails has answered *)
(* with an error; the HTTP server then closes the client.                  *)
Dial(c) ==
  /\ Go(c, "handling", "connected")
  /\ upstream' = upstream \cup {c}
  /\ UNCHANGED << client, used, registry, copies, shutdown >>

DialFails(c) ==
  /\ Go(c, "handling", "failing")
  /\ UNCHANGED << sockets, registry, copies, shutdown >>

(* The HTTP server closes a connection its handler has given back. *)
ServerCloses(c) ==
  /\ Go(c, "failing", "done")
  /\ CloseSockets(c)
  /\ UNCHANGED << registry, copies, shutdown >>

(* reserveTunnel. *)
Reserve(c) ==
  /\ ~shuttingDown
  /\ Go(c, "connected", "reserved")
  /\ zero' = IF pending = 0 /\ tunnels = {} THEN zero + 1 ELSE zero
  /\ pending' = pending + 1
  /\ UNCHANGED << sockets, tunnels, closedZeros, copies, shutdown >>

ReserveRefused(c) ==
  /\ shuttingDown
  /\ Go(c, "connected", "failing")
  /\ upstream' = upstream \ {c}
  /\ UNCHANGED << client, used, registry, copies, shutdown >>

Hijack(c) ==
  /\ Go(c, "reserved", "hijacked")
  /\ UNCHANGED << sockets, registry, copies, shutdown >>

(* Mutant of HijackFails: the upstream is not closed. *)
HijackFailsLeaking(c) ==
  /\ Go(c, "reserved", "failing")
  /\ pending' = pending - 1
  /\ Signal(pending - 1, tunnels)
  /\ UNCHANGED << tunnels, zero, sockets, copies, shutdown >>

(* cancelTunnelReservation. *)
HijackFails(c) ==
  /\ Go(c, "reserved", "failing")
  /\ pending' = pending - 1
  /\ Signal(pending - 1, tunnels)
  /\ upstream' = upstream \ {c}
  /\ UNCHANGED << tunnels, zero, client, used, copies, shutdown >>

(* activateManagedTunnel.  When the server is shutting down it signals     *)
(* first and closes the sockets after the mutex is released.               *)
Activate(c) ==
  /\ ~shuttingDown
  /\ Go(c, "hijacked", "active")
  /\ pending' = pending - 1
  /\ tunnels' = tunnels \cup {c}
  /\ UNCHANGED << zero, closedZeros, sockets, copies, shutdown >>

ActivateRefused(c) ==
  /\ shuttingDown
  /\ Go(c, "hijacked", "refused")
  /\ pending' = pending - 1
  /\ Signal(pending - 1, tunnels)
  /\ UNCHANGED << tunnels, zero, sockets, copies, shutdown >>

CloseRefused(c) ==
  /\ Go(c, "refused", "done")
  /\ CloseSockets(c)
  /\ UNCHANGED << registry, copies, shutdown >>

(* The response and the bytes the client sent early are written: then the  *)
(* relay starts.  A write fails when its socket is closed.                 *)
StartRelay(c) ==
  /\ c \in client /\ c \in upstream
  /\ Go(c, "active", "relaying")
  /\ copies' = [copies EXCEPT ![c] = 2]
  /\ UNCHANGED << sockets, registry, shutdown >>

(* closeAndFinishTunnel: managedTunnel.Close here, finishTunnel later. *)
WriteFails(c) ==
  /\ Go(c, "active", "finishing")
  /\ CloseSockets(c)
  /\ UNCHANGED << registry, copies, shutdown >>

-----------------------------------------------------------------------------
(* relay and relayUpgrade.  A copy that meets the end of its source leaves *)
(* the other one running, and half-closes its destination: for the client, *)
(* whose type has no CloseWrite, that is a full close.                     *)
CopyEof(c) ==
  /\ pc[c] = "relaying" /\ copies[c] > 0
  /\ c \in client /\ c \in upstream
  /\ copies' = [copies EXCEPT ![c] = copies[c] - 1]
  /\ \/ UNCHANGED << client, used >>
     \/ /\ c \notin Upgrades
        /\ client' = client \ {c}
        /\ used' = used - 1
  /\ UNCHANGED << pc, upstream, registry, shutdown >>

(* A copy that fails, or finds the tunnel idle, closes both sockets. *)
CopyFails(c) ==
  /\ pc[c] = "relaying" /\ copies[c] > 0
  /\ copies' = [copies EXCEPT ![c] = copies[c] - 1]
  /\ CloseSockets(c)
  /\ UNCHANGED << pc, registry, shutdown >>

(* relayUpgrade closes the tunnel after the first copy. *)
UpgradeCloses(c) ==
  /\ pc[c] = "relaying" /\ c \in Upgrades /\ copies[c] < 2
  /\ c \in client \cup upstream
  /\ CloseSockets(c)
  /\ UNCHANGED << pc, registry, copies, shutdown >>

RelayReturns(c) ==
  /\ copies[c] = 0
  /\ Go(c, "relaying", "finishing")
  /\ CloseSockets(c)
  /\ UNCHANGED << registry, copies, shutdown >>

(* Mutant of Finish: the last tunnel gives no signal. *)
FinishWithoutSignal(c) ==
  /\ Go(c, "finishing", "done")
  /\ tunnels' = tunnels \ {c}
  /\ UNCHANGED << pending, zero, closedZeros, sockets, copies, shutdown >>

(* finishTunnel. *)
Finish(c) ==
  /\ Go(c, "finishing", "done")
  /\ tunnels' = tunnels \ {c}
  /\ Signal(pending, tunnels \ {c})
  /\ UNCHANGED << pending, zero, sockets, copies, shutdown >>

-----------------------------------------------------------------------------
(* Shutdown.  beginTunnelShutdown fences the registry and then closes the  *)
(* tunnels of its snapshot one by one, without the mutex.                  *)
BeginTunnelShutdown ==
  /\ sd = "running"
  /\ sd' = "closing"
  /\ shuttingDown' = TRUE
  /\ done' = zero
  /\ toClose' = tunnels
  /\ UNCHANGED << pc, sockets, registry, copies, listening, ctxDone, failed >>

CloseTunnel(c) ==
  /\ c \in toClose
  /\ toClose' = toClose \ {c}
  /\ CloseSockets(c)
  /\ UNCHANGED << pc, registry, copies, listening, shuttingDown, sd, done, ctxDone,
                  failed >>

(* srv.Shutdown closes the listeners, and waits for the connections that   *)
(* were not hijacked.                                                      *)
CloseListeners ==
  /\ sd = "closing" /\ toClose = {}
  /\ sd' = "http"
  /\ listening' = FALSE
  /\ UNCHANGED << pc, sockets, registry, copies, shuttingDown, toClose, done, ctxDone,
                  failed >>

HttpDrained ==
  /\ sd = "http"
  /\ \A c \in Conns : pc[c] \notin {"handling", "connected", "reserved", "failing"}
  /\ sd' = "drain"
  /\ UNCHANGED << pc, sockets, registry, copies, listening, shuttingDown, toClose, done,
                  ctxDone, failed >>

(* waitTunnelDrain. *)
TunnelsDrained ==
  /\ sd = "drain"
  /\ done \in closedZeros
  /\ sd' = "drained"
  /\ UNCHANGED << pc, sockets, registry, copies, listening, shuttingDown, toClose, done,
                  ctxDone, failed >>

(* The context of Shutdown ends, and the wait it is in gives up. *)
CtxEnds ==
  /\ sd # "running" /\ ~ctxDone
  /\ ctxDone' = TRUE
  /\ UNCHANGED << pc, sockets, registry, copies, listening, shuttingDown, sd, toClose,
                  done, failed >>

GiveUp ==
  /\ ctxDone
  /\ \/ sd = "http" /\ sd' = "drain"
     \/ sd = "drain" /\ sd' = "drained"
  /\ failed' = TRUE
  /\ UNCHANGED << pc, sockets, registry, copies, listening, shuttingDown, toClose, done,
                  ctxDone >>

-----------------------------------------------------------------------------
Handler(c) ==
  \/ Admit(c) \/ Refuse(c) \/ Dial(c) \/ DialFails(c) \/ ServerCloses(c)
  \/ Reserve(c) \/ ReserveRefused(c) \/ Hijack(c) \/ HijackFails(c)
  \/ Activate(c) \/ ActivateRefused(c) \/ CloseRefused(c)
  \/ StartRelay(c) \/ WriteFails(c)
  \/ UpgradeCloses(c) \/ RelayReturns(c) \/ Finish(c)

CopyAborts(c) == (c \notin client \/ c \notin upstream) /\ CopyFails(c)

ShutdownStep ==
  \/ \E c \in Conns : CloseTunnel(c)
  \/ CloseListeners \/ HttpDrained \/ TunnelsDrained

Next ==
  \/ \E c \in Conns : RawAccept(c) \/ Handler(c) \/ CopyEof(c) \/ CopyFails(c)
  \/ BeginTunnelShutdown \/ ShutdownStep \/ CtxEnds \/ GiveUp

Spec == Init /\ [][Next]_vars

(* Handlers and Shutdown keep running, dials and writes end (they have     *)
(* timeouts), and a copy ends once a socket of its tunnel is closed.  No   *)
(* peer has to close its side and no context has to end.                   *)
FairSpec ==
  /\ Spec
  /\ \A c \in Conns : WF_vars(Handler(c)) /\ WF_vars(CopyAborts(c))
  /\ WF_vars(ShutdownStep)

-----------------------------------------------------------------------------
Handing   == {"reserved", "hijacked"}
Tunneling == {"active", "relaying", "finishing"}

Stages == {"new", "queued", "handling", "connected", "failing", "refused", "done"}
            \cup Handing \cup Tunneling

(* Every variable holds a value of its type. *)
TypeOK ==
  /\ pc \in [Conns -> Stages]
  /\ client \subseteq Conns /\ upstream \subseteq Conns /\ used \in Nat
  /\ listening \in BOOLEAN /\ shuttingDown \in BOOLEAN
  /\ pending \in Nat /\ tunnels \subseteq Conns
  /\ zero \in Nat /\ closedZeros \subseteq Nat
  /\ copies \in [Conns -> 0..2]
  /\ sd \in {"running", "closing", "http", "drain", "drained"}
  /\ toClose \subseteq Conns /\ done \in Nat
  /\ ctxDone \in BOOLEAN /\ failed \in BOOLEAN

(* reserveTunnel's promise: a Shutdown that drained without an error has   *)
(* left no connection between its reservation and the end of its tunnel,   *)
(* however its handler and Shutdown interleaved.                           *)
DrainIsComplete ==
  sd = "drained" /\ ~failed => \A c \in Conns : pc[c] \notin Handing \cup Tunneling

(* No path through the handlers leaks a socket: a connection that is done  *)
(* has both ends closed, and a connection that never was a tunnel holds    *)
(* its upstream only while its handler runs.                               *)
NoSocketLeaks ==
  \A c \in Conns : /\ pc[c] = "done" => c \notin client /\ c \notin upstream
                   /\ c \in upstream => pc[c] \notin {"new", "queued", "handling", "failing"}

(* The admission channel counts the open clients: repeated closes of the   *)
(* same connection release its slot once, so the budget is neither         *)
(* exceeded nor used up by connections that are gone.                      *)
SlotsAccounted == used = Cardinality(client) /\ used <= MaxSlots

(* Once begun, Shutdown gets through its drain even with a context that    *)
(* never ends, as when a failing listener makes Start call it.             *)
ShutdownDrains == sd = "closing" ~> sd = "drained"
=============================================================================
