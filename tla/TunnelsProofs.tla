---------------------------- MODULE TunnelsProofs ----------------------------
(* Proofs about the tunnels of the proxy: about Tunnels for any finite set *)
(* of connections and any admission budget, about Relay for any idle       *)
(* timeout and grace.                                                      *)
EXTENDS Tunnels, Relay, FiniteSetTheorems, TLAPS

Handed == {c \in Conns : pc[c] \in Handing}

(* Who may hold a socket: a connection from its admission, or its dial, to *)
(* the end of its tunnel.                                                  *)
Owners ==
  \A c \in Conns :
    /\ c \in client => pc[c] \notin {"new", "queued", "finishing", "done"}
    /\ c \in upstream => pc[c] \notin {"new", "queued", "handling", "failing",
                                       "finishing", "done"}

(* The registry counts the reservations and holds the tunnels. *)
Registered ==
  /\ pending = Cardinality(Handed)
  /\ tunnels = {c \in Conns : pc[c] \in Tunneling}

(* The current channel is closed exactly when the registry is empty; the   *)
(* channel Shutdown waits for is the current one.                          *)
ZeroExact ==
  /\ \A z \in closedZeros : z <= zero
  /\ zero \in closedZeros <=> pending = 0 /\ tunnels = {}
  /\ shuttingDown <=> sd # "running"
  /\ shuttingDown => done = zero
  /\ sd = "drained" /\ ~failed => done \in closedZeros

(* The inductive invariant. *)
IInv == TypeOK /\ Owners /\ SlotsAccounted /\ Registered /\ ZeroExact

-----------------------------------------------------------------------------
(* A move of one connection that neither enters nor leaves the registry.   *)
LEMMA MoveOutside ==
  ASSUME NEW c \in Conns, NEW to, TypeOK, Registered,
         pc' = [pc EXCEPT ![c] = to],
         pc[c] \in Handing <=> to \in Handing,
         pc[c] \in Tunneling <=> to \in Tunneling,
         pending' = pending, tunnels' = tunnels
  PROVE  Registered'
<1>1. \A d \in Conns : /\ pc'[d] \in Handing <=> pc[d] \in Handing
                       /\ pc'[d] \in Tunneling <=> pc[d] \in Tunneling
  BY DEF TypeOK
<1>2. Handed' = Handed
  BY <1>1 DEF Handed
<1>3. {d \in Conns : pc'[d] \in Tunneling} = {d \in Conns : pc[d] \in Tunneling}
  BY <1>1
<1> QED
  BY <1>2, <1>3 DEF Registered

(* A move of one connection out of its reservation. *)
LEMMA MoveOutOfReservation ==
  ASSUME NEW c \in Conns, NEW to, TypeOK, Registered,
         pc' = [pc EXCEPT ![c] = to],
         pc[c] \in Handing, to \notin Handing,
         pending' = pending - 1,
         tunnels' = IF to \in Tunneling THEN tunnels \cup {c} ELSE tunnels
  PROVE  Registered' /\ pending \in Nat \ {0}
<1>1. IsFiniteSet(Handed)
  BY TunnelsAssumption, FS_Subset DEF Handed
<1>2. c \in Handed /\ Handed' = Handed \ {c}
  BY DEF Handed, TypeOK
<1>3. Cardinality(Handed \ {c}) = Cardinality(Handed) - 1
  BY <1>1, <1>2, FS_RemoveElement
<1>4. Cardinality(Handed) # 0 /\ Cardinality(Handed) \in Nat
  BY <1>1, <1>2, FS_EmptySet, FS_CardinalityType
<1>5. tunnels' = {d \in Conns : pc'[d] \in Tunneling}
  BY DEF TypeOK, Registered, Handing, Tunneling
<1> QED
  BY <1>2, <1>3, <1>4, <1>5 DEF Registered

(* Closing the sockets of a connection, once or again, keeps the account.  *)
LEMMA CloseKeepsAccount ==
  ASSUME NEW c \in Conns, TypeOK, SlotsAccounted, CloseSockets(c)
  PROVE  /\ SlotsAccounted'
         /\ client' = client \ {c} /\ upstream' = upstream \ {c}
         /\ used' \in Nat
<1>1. IsFiniteSet(client) /\ MaxSlots \in Nat
  BY TunnelsAssumption, FS_Subset DEF TypeOK
<1>2. Cardinality(client) \in Nat
  BY <1>1, FS_CardinalityType
<1>3. CASE c \in client
  <2>1. Cardinality(client \ {c}) = Cardinality(client) - 1
    BY <1>1, <1>3, FS_RemoveElement
  <2>2. IsFiniteSet(client \ {c})
    BY <1>1, FS_Subset
  <2>3. Cardinality(client \ {c}) \in Nat
    BY <2>2, FS_CardinalityType
  <2> QED
    BY <1>1, <1>2, <1>3, <2>1, <2>3 DEF CloseSockets, SlotsAccounted
<1>4. CASE c \notin client
  <2>1. client \ {c} = client
    BY <1>4
  <2> QED
    BY <1>4, <2>1 DEF CloseSockets, SlotsAccounted, TypeOK
<1> QED
  BY <1>3, <1>4

(* The initial state satisfies the invariant. *)
LEMMA InitIInv == Init => IInv
<1> SUFFICES ASSUME Init PROVE IInv
  OBVIOUS
<1>1. Cardinality({}) = 0
  BY FS_EmptySet
<1>4. /\ pc \in [Conns -> {"new"}] /\ copies \in [Conns -> 0..2]
      /\ closedZeros \subseteq Nat
  BY DEF Init
<1>2. TypeOK
  BY <1>4 DEF Init, TypeOK, Stages
<1>3. Handed = {} /\ {c \in Conns : pc[c] \in Tunneling} = {}
  BY DEF Init, Handed, Handing, Tunneling
<1> QED
  BY <1>1, <1>2, <1>3, TunnelsAssumption
  DEF Init, IInv, Owners, SlotsAccounted, Registered, ZeroExact

-----------------------------------------------------------------------------
(* Steps of a handler that touch neither the registry nor Shutdown. *)
Private(c) ==
  \/ RawAccept(c) \/ Admit(c) \/ Refuse(c) \/ Dial(c) \/ DialFails(c)
  \/ ServerCloses(c) \/ ReserveRefused(c) \/ Hijack(c) \/ CloseRefused(c)
  \/ StartRelay(c) \/ WriteFails(c) \/ UpgradeCloses(c) \/ RelayReturns(c)
  \/ CopyEof(c) \/ CopyFails(c)

(* They keep the registry in step with the program counters. *)
LEMMA PrivateRegistered ==
  ASSUME IInv, NEW c \in Conns, Private(c)
  PROVE  Registered' /\ ZeroExact'
<1>1. UNCHANGED << registry, shutdown >>
  BY DEF Private, RawAccept, Admit, Refuse, Dial, DialFails, ServerCloses,
    ReserveRefused, Hijack, CloseRefused, StartRelay, WriteFails, UpgradeCloses,
    RelayReturns, CopyEof, CopyFails
<1>2. ZeroExact'
  BY <1>1 DEF IInv, ZeroExact, registry, shutdown
<1>3. \/ pc' = pc
      \/ \E to : /\ pc' = [pc EXCEPT ![c] = to]
                 /\ pc[c] \in Handing <=> to \in Handing
                 /\ pc[c] \in Tunneling <=> to \in Tunneling
  BY DEF Private, RawAccept, Admit, Refuse, Dial, DialFails, ServerCloses,
    ReserveRefused, Hijack, CloseRefused, StartRelay, WriteFails, UpgradeCloses,
    RelayReturns, CopyEof, CopyFails, Go, Handing, Tunneling
<1>4. Registered'
  <2>1. CASE pc' = pc
    BY <1>1, <2>1 DEF IInv, Registered, Handed, registry
  <2>2. ASSUME NEW to, pc' = [pc EXCEPT ![c] = to],
               pc[c] \in Handing <=> to \in Handing,
               pc[c] \in Tunneling <=> to \in Tunneling
        PROVE  Registered'
    BY <1>1, <2>2, MoveOutside DEF IInv, registry
  <2> QED
    BY <1>3, <2>1, <2>2
<1> QED
  BY <1>2, <1>4

(* The steps that close the sockets of their connection. *)
LEMMA ClosingSteps ==
  ASSUME IInv, NEW c \in Conns,
         \/ ServerCloses(c) \/ CloseRefused(c) \/ WriteFails(c) \/ UpgradeCloses(c)
         \/ RelayReturns(c) \/ CopyFails(c)
  PROVE  TypeOK' /\ Owners' /\ SlotsAccounted'
<1> USE DEF ServerCloses, CloseRefused, WriteFails, UpgradeCloses, RelayReturns, CopyFails
<1>1. CloseSockets(c) /\ UNCHANGED << registry, shutdown >>
  OBVIOUS
<1>2. /\ SlotsAccounted' /\ used' \in Nat
      /\ client' = client \ {c} /\ upstream' = upstream \ {c}
  BY <1>1, CloseKeepsAccount DEF IInv
<1>3. pc' \in [Conns -> Stages]
  BY DEF IInv, TypeOK, Go, Stages, Tunneling
<1>4. copies' \in [Conns -> 0..2]
  BY DEF IInv, TypeOK
<1>5. TypeOK'
  BY <1>1, <1>2, <1>3, <1>4 DEF IInv, TypeOK, registry, shutdown
<1>6. \A d \in Conns : d # c => pc'[d] = pc[d]
  BY DEF IInv, TypeOK, Go
<1>7. Owners'
  BY <1>2, <1>6 DEF IInv, Owners
<1> QED
  BY <1>2, <1>5, <1>7

(* Admission takes a slot that is free. *)
LEMMA AdmitSteps ==
  ASSUME IInv, NEW c \in Conns, Admit(c)
  PROVE  TypeOK' /\ Owners' /\ SlotsAccounted'
<1>1. c \notin client
  BY DEF IInv, Owners, Admit, Go
<1>2. IsFiniteSet(client)
  BY TunnelsAssumption, FS_Subset DEF IInv, TypeOK
<1>3. Cardinality(client \cup {c}) = Cardinality(client) + 1
  BY <1>1, <1>2, FS_AddElement
<1>4. used \in Nat /\ MaxSlots \in Nat
  BY TunnelsAssumption DEF IInv, TypeOK
<1>5. SlotsAccounted'
  BY <1>3, <1>4 DEF IInv, SlotsAccounted, Admit, HasSlot
<1>6. pc' \in [Conns -> Stages]
  BY DEF IInv, TypeOK, Admit, Go, Stages
<1>7. TypeOK'
  BY <1>4, <1>6 DEF IInv, TypeOK, Admit, registry, shutdown
<1>8. Owners'
  BY DEF IInv, TypeOK, Owners, Admit, Go
<1> QED
  BY <1>5, <1>7, <1>8

(* The other private steps close no socket, or one that is counted. *)
LEMMA OpenSteps ==
  ASSUME IInv, NEW c \in Conns,
         \/ RawAccept(c) \/ Refuse(c) \/ Dial(c) \/ DialFails(c) \/ ReserveRefused(c)
         \/ Hijack(c) \/ StartRelay(c)
  PROVE  TypeOK' /\ Owners' /\ SlotsAccounted'
<1> USE DEF RawAccept, Refuse, Dial, DialFails, ReserveRefused, Hijack, StartRelay, Go
<1>1. client' = client /\ used' = used /\ UNCHANGED << registry, shutdown >>
  BY DEF sockets
<1>2. SlotsAccounted'
  BY <1>1 DEF IInv, SlotsAccounted
<1>3. pc' \in [Conns -> Stages]
  BY DEF IInv, TypeOK, Stages, Handing, Tunneling
<1>4. copies' \in [Conns -> 0..2] /\ upstream' \subseteq Conns
  BY DEF IInv, TypeOK, sockets
<1>5. TypeOK'
  BY <1>1, <1>3, <1>4 DEF IInv, TypeOK, registry, shutdown
<1>6. Owners'
  BY DEF IInv, TypeOK, Owners, sockets
<1> QED
  BY <1>2, <1>5, <1>6

(* The end of a copy may close the client alone. *)
LEMMA CopyEofSteps ==
  ASSUME IInv, NEW c \in Conns, CopyEof(c)
  PROVE  TypeOK' /\ Owners' /\ SlotsAccounted'
<1>1. \/ client' = client /\ used' = used
      \/ client' = client \ {c} /\ used' = used - 1 /\ c \in client
  BY DEF CopyEof
<1>2. SlotsAccounted' /\ used' \in Nat /\ client' \subseteq client
  <2>1. CASE client' = client /\ used' = used
    BY <2>1 DEF IInv, SlotsAccounted, TypeOK
  <2>2. CASE client' = client \ {c} /\ used' = used - 1 /\ c \in client
    <3>1. IsFiniteSet(client) /\ MaxSlots \in Nat /\ used \in Nat
      BY TunnelsAssumption, FS_Subset DEF IInv, TypeOK
    <3>2. Cardinality(client \ {c}) = Cardinality(client) - 1
      BY <2>2, <3>1, FS_RemoveElement
    <3>3. IsFiniteSet(client \ {c})
      BY <3>1, FS_Subset
    <3>4. Cardinality(client \ {c}) \in Nat
      BY <3>3, FS_CardinalityType
    <3> QED
      BY <2>2, <3>1, <3>2, <3>4 DEF IInv, SlotsAccounted
  <2> QED
    BY <1>1, <2>1, <2>2
<1>3. copies' \in [Conns -> 0..2]
  BY DEF IInv, TypeOK, CopyEof
<1>4. TypeOK'
  BY <1>2, <1>3 DEF IInv, TypeOK, CopyEof, registry, shutdown
<1>5. Owners'
  BY <1>2 DEF IInv, Owners, CopyEof
<1> QED
  BY <1>2, <1>4, <1>5

(* Every private step keeps the invariant. *)
LEMMA PrivateIInv ==
  ASSUME IInv, NEW c \in Conns, Private(c)
  PROVE  IInv'
<1>1. Registered' /\ ZeroExact'
  BY PrivateRegistered
<1>2. TypeOK' /\ Owners' /\ SlotsAccounted'
  BY ClosingSteps, AdmitSteps, OpenSteps, CopyEofSteps DEF Private
<1> QED
  BY <1>1, <1>2 DEF IInv

-----------------------------------------------------------------------------
(* A reservation: a fresh channel replaces a closed one. *)
LEMMA ReserveIInv ==
  ASSUME IInv, NEW c \in Conns, Reserve(c)
  PROVE  IInv'
<1>1. IsFiniteSet(Handed) /\ Cardinality(Handed) \in Nat
  BY TunnelsAssumption, FS_Subset, FS_CardinalityType DEF Handed
<1>2. c \notin Handed /\ Handed' = Handed \cup {c}
  BY DEF IInv, TypeOK, Handed, Handing, Reserve, Go
<1>3. Cardinality(Handed \cup {c}) = Cardinality(Handed) + 1
  BY <1>1, <1>2, FS_AddElement
<1>4. {d \in Conns : pc'[d] \in Tunneling} = {d \in Conns : pc[d] \in Tunneling}
  BY DEF IInv, TypeOK, Tunneling, Reserve, Go
<1>5. Registered' /\ pending' \in Nat /\ pending' # 0
  BY <1>1, <1>2, <1>3, <1>4 DEF IInv, Registered, Reserve
<1>6. zero \in Nat /\ zero' \in Nat /\ zero' \notin closedZeros /\ zero <= zero'
  BY DEF IInv, TypeOK, ZeroExact, Reserve
<1>7. ZeroExact'
  BY <1>5, <1>6 DEF IInv, TypeOK, ZeroExact, Reserve, shutdown
<1>8. pc' \in [Conns -> Stages]
  BY DEF IInv, TypeOK, Reserve, Go, Stages, Handing
<1>9. TypeOK'
  BY <1>5, <1>6, <1>8 DEF IInv, TypeOK, Reserve, sockets, shutdown
<1>10. Owners' /\ SlotsAccounted'
  BY DEF IInv, TypeOK, Owners, SlotsAccounted, Reserve, Go, sockets
<1> QED
  BY <1>5, <1>7, <1>9, <1>10 DEF IInv

(* The signal closes the current channel exactly when the registry is      *)
(* empty after the step.                                                   *)
LEMMA SignalExact ==
  ASSUME IInv, pending # 0 \/ tunnels # {}, Signal(pending', tunnels'),
         zero' = zero, UNCHANGED shutdown
  PROVE  ZeroExact' /\ closedZeros' \subseteq Nat
<1>1. zero \in Nat /\ closedZeros \subseteq Nat /\ zero \notin closedZeros
  BY DEF IInv, TypeOK, ZeroExact
<1>2. closedZeros' = IF pending' = 0 /\ tunnels' = {}
                     THEN closedZeros \cup {zero} ELSE closedZeros
  BY DEF Signal
<1>3. closedZeros' \subseteq Nat /\ \A z \in closedZeros' : z <= zero'
  BY <1>1, <1>2 DEF IInv, ZeroExact
<1>4. zero' \in closedZeros' <=> pending' = 0 /\ tunnels' = {}
  BY <1>1, <1>2
<1>5. /\ (shuttingDown <=> sd # "running")'
      /\ (shuttingDown => done = zero)'
      /\ (sd = "drained" /\ ~failed => done \in closedZeros)'
  BY <1>2 DEF IInv, ZeroExact, shutdown
<1> QED
  BY <1>3, <1>4, <1>5 DEF ZeroExact

(* The three ends of a reservation. *)
LEMMA EndReservationIInv ==
  ASSUME IInv, NEW c \in Conns, HijackFails(c) \/ Activate(c) \/ ActivateRefused(c)
  PROVE  IInv'
<1> USE DEF HijackFails, Activate, ActivateRefused
<1>1. PICK to \in {"failing", "active", "refused"} :
        /\ pc[c] \in Handing /\ pc' = [pc EXCEPT ![c] = to]
        /\ pending' = pending - 1
        /\ tunnels' = IF to = "active" THEN tunnels \cup {c} ELSE tunnels
        /\ \/ to = "active" /\ closedZeros' = closedZeros
           \/ to # "active" /\ Signal(pending', tunnels')
        /\ upstream' = IF to = "failing" THEN upstream \ {c} ELSE upstream
  BY DEF Go, Handing, sockets
<1>2. to \in Tunneling <=> to = "active"
  BY DEF Tunneling
<1>3. Registered' /\ pending \in Nat \ {0}
  BY <1>1, <1>2, MoveOutOfReservation DEF IInv, Handing
<1>4. pending' \in Nat
  BY <1>1, <1>3
<1>5. zero' = zero /\ copies' = copies /\ UNCHANGED << client, used, shutdown >>
  BY DEF sockets
<1>6. upstream' \subseteq upstream /\ (to = "failing" => c \notin upstream')
  BY <1>1
<1> HIDE DEF HijackFails, Activate, ActivateRefused
<1>7. ZeroExact'
  <2>1. zero \notin closedZeros
    BY <1>3 DEF IInv, ZeroExact
  <2>2. CASE to = "active"
    BY <1>1, <1>5, <2>1, <2>2 DEF IInv, TypeOK, ZeroExact, shutdown
  <2>3. CASE to # "active"
    BY <1>1, <1>3, <1>5, <2>3, SignalExact
  <2> QED
    BY <2>2, <2>3
<1>8. closedZeros' \subseteq Nat /\ tunnels' \subseteq Conns
  BY <1>1 DEF IInv, TypeOK, Signal
<1>9. pc' \in [Conns -> Stages]
  BY <1>1 DEF IInv, TypeOK, Stages, Tunneling
<1>10. TypeOK'
  BY <1>4, <1>5, <1>6, <1>8, <1>9 DEF IInv, TypeOK, shutdown
<1>11. Owners' /\ SlotsAccounted'
  BY <1>1, <1>5, <1>6 DEF IInv, TypeOK, Owners, SlotsAccounted, Handing
<1> QED
  BY <1>3, <1>7, <1>10, <1>11 DEF IInv

(* The end of a tunnel. *)
LEMMA FinishIInv ==
  ASSUME IInv, NEW c \in Conns, Finish(c)
  PROVE  IInv'
<1>1. /\ pc[c] = "finishing" /\ pc' = [pc EXCEPT ![c] = "done"]
      /\ tunnels' = tunnels \ {c} /\ pending' = pending /\ zero' = zero
      /\ Signal(pending', tunnels') /\ UNCHANGED << sockets, copies, shutdown >>
  BY DEF Finish, Go
<1>2. c \in tunnels
  BY <1>1 DEF IInv, Registered, Tunneling
<1>3. ZeroExact' /\ closedZeros' \subseteq Nat
  BY <1>1, <1>2, SignalExact
<1>4. Handed' = Handed
  BY <1>1 DEF IInv, TypeOK, Handed, Handing
<1>5. tunnels' = {d \in Conns : pc'[d] \in Tunneling}
  BY <1>1 DEF IInv, TypeOK, Registered, Tunneling
<1>6. Registered'
  BY <1>1, <1>4, <1>5 DEF IInv, Registered
<1>7. pc' \in [Conns -> Stages]
  BY <1>1 DEF IInv, TypeOK, Stages
<1>8. TypeOK'
  BY <1>1, <1>3, <1>7 DEF IInv, TypeOK, sockets, shutdown
<1>9. Owners' /\ SlotsAccounted'
  BY <1>1 DEF IInv, TypeOK, Owners, SlotsAccounted, sockets
<1> QED
  BY <1>3, <1>6, <1>8, <1>9 DEF IInv

(* The steps of Shutdown. *)
LEMMA ShutdownIInv ==
  ASSUME IInv, BeginTunnelShutdown \/ ShutdownStep \/ CtxEnds \/ GiveUp
  PROVE  IInv'
<1>1. UNCHANGED << pc, registry, copies >>
  BY DEF BeginTunnelShutdown, ShutdownStep, CloseTunnel, CloseListeners, HttpDrained,
    TunnelsDrained, CtxEnds, GiveUp
<1>2. Registered'
  BY <1>1 DEF IInv, Registered, Handed, registry
<1>3. ZeroExact'
  BY <1>1, SMTT(30) DEF IInv, ZeroExact, BeginTunnelShutdown, ShutdownStep, CloseTunnel,
    CloseListeners, HttpDrained, TunnelsDrained, CtxEnds, GiveUp, registry
<1>4. \/ UNCHANGED sockets
      \/ \E c \in Conns : CloseSockets(c)
  BY DEF BeginTunnelShutdown, ShutdownStep, CloseTunnel, CloseListeners, HttpDrained,
    TunnelsDrained, CtxEnds, GiveUp
<1>5. /\ SlotsAccounted' /\ used' \in Nat
      /\ client' \subseteq client /\ upstream' \subseteq upstream
  <2>1. CASE UNCHANGED sockets
    BY <2>1 DEF IInv, TypeOK, SlotsAccounted, sockets
  <2>2. ASSUME NEW c \in Conns, CloseSockets(c)
        PROVE  /\ SlotsAccounted' /\ used' \in Nat
               /\ client' \subseteq client /\ upstream' \subseteq upstream
    BY <2>2, CloseKeepsAccount DEF IInv
  <2> QED
    BY <1>4, <2>1, <2>2
<1>6. Owners'
  BY <1>1, <1>5 DEF IInv, Owners
<1>7. /\ listening' \in BOOLEAN /\ shuttingDown' \in BOOLEAN
      /\ sd' \in {"running", "closing", "http", "drain", "drained"}
      /\ toClose' \subseteq Conns /\ done' \in Nat
      /\ ctxDone' \in BOOLEAN /\ failed' \in BOOLEAN
  BY DEF IInv, TypeOK, BeginTunnelShutdown, ShutdownStep, CloseTunnel, CloseListeners,
    HttpDrained, TunnelsDrained, CtxEnds, GiveUp
<1>8. TypeOK'
  BY <1>1, <1>5, <1>7 DEF IInv, TypeOK, registry
<1> QED
  BY <1>2, <1>3, <1>5, <1>6, <1>8 DEF IInv

(* Every step keeps the invariant. *)
LEMMA NextIInv == IInv /\ [Next]_vars => IInv'
<1> SUFFICES ASSUME IInv, [Next]_vars PROVE IInv'
  OBVIOUS
<1>1. ASSUME NEW c \in Conns, Private(c) PROVE IInv'
  BY <1>1, PrivateIInv
<1>2. ASSUME NEW c \in Conns, Reserve(c) PROVE IInv'
  BY <1>2, ReserveIInv
<1>3. ASSUME NEW c \in Conns, HijackFails(c) \/ Activate(c) \/ ActivateRefused(c)
      PROVE  IInv'
  BY <1>3, EndReservationIInv
<1>4. ASSUME NEW c \in Conns, Finish(c) PROVE IInv'
  BY <1>4, FinishIInv
<1>5. CASE BeginTunnelShutdown \/ ShutdownStep \/ CtxEnds \/ GiveUp
  BY <1>5, ShutdownIInv
<1>6. CASE UNCHANGED vars
  BY <1>6 DEF IInv, TypeOK, Owners, SlotsAccounted, Registered, ZeroExact, Handed,
    vars, sockets, registry, shutdown
<1> QED
  BY <1>1, <1>2, <1>3, <1>4, <1>5, <1>6 DEF Next, Handler, Private

-----------------------------------------------------------------------------
(* The inductive invariant holds in every reachable state. *)
THEOREM Invariance == Spec => []IInv
  BY InitIInv, NextIInv, PTL DEF Spec

(* Every variable keeps its type. *)
THEOREM TypeCorrect == Spec => []TypeOK
<1>1. IInv => TypeOK
  BY DEF IInv
<1> QED
  BY <1>1, Invariance, PTL

(* A Shutdown that drained without an error has left no tunnel, and no     *)
(* connection on its way to become one, for any number of connections.     *)
THEOREM DrainsAreComplete == Spec => []DrainIsComplete
<1>1. IInv => DrainIsComplete
  <2> SUFFICES ASSUME IInv, sd = "drained", ~failed, NEW c \in Conns
               PROVE  pc[c] \notin Handing \cup Tunneling
    BY DEF DrainIsComplete
  <2>1. pending = 0 /\ tunnels = {}
    BY DEF IInv, ZeroExact
  <2>2. IsFiniteSet(Handed) /\ Cardinality(Handed) = 0
    BY <2>1, TunnelsAssumption, FS_Subset DEF Handed, IInv, Registered
  <2>3. Handed = {}
    BY <2>2, FS_EmptySet
  <2> QED
    BY <2>1, <2>3 DEF Handed, IInv, Registered
<1> QED
  BY <1>1, Invariance, PTL

(* No path through the handlers leaks a socket. *)
THEOREM SocketsAreClosed == Spec => []NoSocketLeaks
<1>1. IInv => NoSocketLeaks
  BY DEF IInv, Owners, NoSocketLeaks
<1> QED
  BY <1>1, Invariance, PTL

(* The admission channel counts the open client connections. *)
THEOREM SlotsAreAccounted == Spec => []SlotsAccounted
<1>1. IInv => SlotsAccounted
  BY DEF IInv
<1> QED
  BY <1>1, Invariance, PTL

(* When Shutdown comes to wait for the tunnels, both sockets of every      *)
(* tunnel in the registry are closed, also of one whose handler was past   *)
(* reserveTunnel when beginTunnelShutdown took its snapshot: nothing the   *)
(* peers do can keep the drain waiting.                                    *)
NoOpenTunnel ==
  sd \notin {"running", "closing"} => \A c \in tunnels : c \notin client /\ c \notin upstream

(* From the fence on, a registered tunnel is one of the snapshot that has  *)
(* yet to be closed, or is closed; the snapshot is used up before the      *)
(* listeners are closed.                                                   *)
Fenced ==
  /\ sd # "closing" => toClose = {}
  /\ sd # "running" => \A c \in tunnels : c \in toClose \/ (c \notin client /\ c \notin upstream)

(* A step of a handler opens no socket of a registered tunnel, and once    *)
(* the registry is fenced it registers none.                               *)
LEMMA HandlerFenced ==
  ASSUME IInv, Fenced, NEW c \in Conns,
         RawAccept(c) \/ Handler(c) \/ CopyEof(c) \/ CopyFails(c)
  PROVE  Fenced'
<1>1. UNCHANGED shutdown
  BY DEF RawAccept, Handler, Admit, Refuse, Dial, DialFails, ServerCloses, Reserve,
    ReserveRefused, Hijack, HijackFails, Activate, ActivateRefused, CloseRefused, StartRelay,
    WriteFails, UpgradeCloses, RelayReturns, Finish, CopyEof, CopyFails
<1>2. sd # "running" => tunnels' \subseteq tunnels
  <2>1. CASE Activate(c)
    BY <2>1 DEF Activate, IInv, ZeroExact
  <2>2. CASE ~Activate(c)
    BY <2>2 DEF RawAccept, Handler, Admit, Refuse, Dial, DialFails, ServerCloses, Reserve,
      ReserveRefused, Hijack, HijackFails, ActivateRefused, CloseRefused, StartRelay,
      WriteFails, UpgradeCloses, RelayReturns, Finish, CopyEof, CopyFails, registry
  <2> QED
    BY <2>1, <2>2
<1>3. \A d \in tunnels : /\ d \in client' => d \in client
                         /\ d \in upstream' => d \in upstream
  <2>1. CASE Admit(c) \/ Dial(c)
    <3>1. c \notin tunnels
      BY <2>1 DEF IInv, Registered, Tunneling, Admit, Dial, Go
    <3> QED
      BY <2>1, <3>1 DEF Admit, Dial
  <2>2. CASE ~(Admit(c) \/ Dial(c))
    BY <2>2 DEF RawAccept, Handler, Refuse, DialFails, ServerCloses, Reserve,
      ReserveRefused, Hijack, HijackFails, Activate, ActivateRefused, CloseRefused, StartRelay,
      WriteFails, UpgradeCloses, RelayReturns, Finish, CopyEof, CopyFails, CloseSockets, sockets
  <2> QED
    BY <2>1, <2>2
<1>4. sd' = sd /\ toClose' = toClose
  BY <1>1 DEF shutdown
<1>5. ASSUME sd # "running", NEW d \in tunnels'
      PROVE  d \in toClose \/ (d \notin client' /\ d \notin upstream')
  BY <1>2, <1>3, <1>5 DEF Fenced
<1> QED
  BY <1>4, <1>5 DEF Fenced

(* Shutdown closes what is on its snapshot, and goes on when it is empty.  *)
LEMMA ShutdownFenced ==
  ASSUME IInv, Fenced, BeginTunnelShutdown \/ ShutdownStep \/ CtxEnds \/ GiveUp
  PROVE  Fenced'
<1>1. CASE BeginTunnelShutdown
  BY <1>1 DEF BeginTunnelShutdown, Fenced, registry
<1>2. ASSUME NEW c \in Conns, CloseTunnel(c) PROVE Fenced'
  BY <1>2 DEF CloseTunnel, CloseSockets, Fenced, registry
<1>3. CASE CloseListeners \/ HttpDrained \/ TunnelsDrained \/ CtxEnds \/ GiveUp
  BY <1>3 DEF CloseListeners, HttpDrained, TunnelsDrained, CtxEnds, GiveUp, Fenced, registry, sockets
<1> QED
  BY <1>1, <1>2, <1>3 DEF ShutdownStep

(* While Shutdown waits, no registered tunnel has a socket open. *)
THEOREM ShutdownLeavesNoOpenTunnel == Spec => []NoOpenTunnel
<1>1. Init => Fenced
  BY DEF Init, Fenced
<1>2. IInv /\ Fenced /\ [Next]_vars => Fenced'
  <2> SUFFICES ASSUME IInv, Fenced, [Next]_vars PROVE Fenced'
    OBVIOUS
  <2>1. CASE UNCHANGED vars
    BY <2>1 DEF vars, sockets, registry, shutdown, Fenced
  <2> QED
    BY <2>1, HandlerFenced, ShutdownFenced DEF Next
<1>3. Fenced => NoOpenTunnel
  BY DEF Fenced, NoOpenTunnel
<1> QED
  BY <1>1, <1>2, <1>3, Invariance, PTL DEF Spec

-----------------------------------------------------------------------------
(* The relay.                                                              *)

(* A pending read times out soon enough: its deadline was set when         *)
(* something had just moved, or within an idle period of that; only the    *)
(* grace of a copy that is not graced yet comes on top.                    *)
Timely ==
  Idle > 0 =>
    \A d \in Directions :
      copy[d] = "reading" =>
        /\ now <= deadline[d]
        /\ deadline[d] <= progress + 2 * Idle + (IF graced[d] THEN Grace ELSE 0)

(* While the copy down runs and nothing failed, only the client's EOF has  *)
(* touched a socket.                                                       *)
WayDown ==
  ~aborted /\ copy["down"] # "ended" => conn["client"] = "open" /\ conn["upstream"] # "closed"

RelayInv ==
  /\ RelayTypeOK /\ Timely /\ WayDown
  /\ \A d \in Directions : wait[d] <= Idle

LEMMA RelayInitInv == RelayInit => RelayInv
<1> SUFFICES ASSUME RelayInit PROVE RelayInv
  OBVIOUS
<1> USE RelayAssumption DEF RelayInit
<1>1. RelayTypeOK
  <2>1. now \in Nat /\ lastActivity \in 0..now /\ progress \in lastActivity..now
    OBVIOUS
  <2>2. Idle \in 0..(now + Idle)
    OBVIOUS
  <2>3. deadline \in [Directions -> 0..(now + Idle)] /\ wait \in [Directions -> {Idle, Grace}]
    BY <2>2
  <2>4. QED
    BY <2>1, <2>3 DEF RelayTypeOK
<1>2. Timely
  BY DEF Timely
<1>3. WayDown
  BY DEF WayDown, Sockets
<1>4. QED
  BY <1>1, <1>2, <1>3 DEF RelayInv

LEMMA ReadBytesInv ==
  ASSUME RelayInv, NEW d \in Directions, ReadBytes(d)
  PROVE  RelayInv'
<1> USE RelayAssumption DEF RelayInv, ReadBytes
<1>1. RelayTypeOK'
  BY DEF RelayTypeOK
<1>2. Timely'
  BY DEF RelayTypeOK, Timely
<1>3. QED
  BY <1>1, <1>2 DEF RelayTypeOK, WayDown

LEMMA WriteBytesInv ==
  ASSUME RelayInv, NEW d \in Directions, WriteBytes(d)
  PROVE  RelayInv'
<1> USE RelayAssumption DEF RelayInv, WriteBytes
<1>1. wait[d] \in Nat /\ wait[d] <= Idle
  BY DEF RelayTypeOK
<1>2. RelayTypeOK'
  BY <1>1 DEF RelayTypeOK
<1>3. Timely'
  BY <1>1, SMTT(30) DEF RelayTypeOK, Timely
<1>4. QED
  BY <1>2, <1>3, SMTT(30) DEF RelayTypeOK, WayDown

LEMMA EofInv ==
  ASSUME RelayInv, NEW d \in Directions, Eof(d)
  PROVE  RelayInv'
<1> USE RelayAssumption DEF RelayInv, Eof
<1>1. conn' \in [Sockets -> {"open", "wclosed", "closed"}]
  BY DEF RelayTypeOK, HalfClose
<1>2. RelayTypeOK'
  BY <1>1 DEF RelayTypeOK
<1>3. Timely'
  BY DEF RelayTypeOK, Timely
<1>4. WayDown'
  BY DEF RelayTypeOK, WayDown, HalfClose, HasCloseWrite, Dst, Directions, Sockets
<1>5. QED
  BY <1>2, <1>3, <1>4

LEMMA FailInv ==
  ASSUME RelayInv, NEW d \in Directions, Fail(d)
  PROVE  RelayInv'
<1> USE RelayAssumption DEF RelayInv, Fail
<1>1. RelayTypeOK'
  BY DEF RelayTypeOK, Teardown
<1>2. Timely'
  BY DEF RelayTypeOK, Timely
<1>3. QED
  BY <1>1, <1>2 DEF WayDown

(* A read that starts over, for a period w, with g for graced. *)
LEMMA ReadAgainInv ==
  ASSUME RelayInv, NEW d \in Directions, Expired(d), NEW w \in {Idle, Grace}, ReadAgain(d, w),
         NEW g \in BOOLEAN, graced' = [graced EXCEPT ![d] = g],
         \/ now + w <= progress + 2 * Idle
         \/ g /\ now + w <= progress + 2 * Idle + Grace
  PROVE  RelayInv'
<1> USE RelayAssumption DEF RelayInv, ReadAgain
<1>1. w \in Nat /\ w <= Idle /\ Idle > 0
  BY DEF Expired
<1>2. RelayTypeOK'
  BY <1>1 DEF RelayTypeOK
<1>3. Timely'
  <2> SUFFICES ASSUME NEW e \in Directions, copy'[e] = "reading"
               PROVE  /\ now <= deadline'[e]
                      /\ deadline'[e] <= progress + 2 * Idle + (IF graced'[e] THEN Grace ELSE 0)
    BY DEF Timely
  <2>1. CASE e = d
    BY <1>1, <2>1 DEF RelayTypeOK
  <2>2. CASE e # d
    BY <1>1, <2>2 DEF RelayTypeOK, Timely
  <2>3. QED
    BY <2>1, <2>2
<1>4. QED
  BY <1>1, <1>2, <1>3 DEF RelayTypeOK, WayDown

LEMMA TimeoutInv ==
  ASSUME RelayInv, NEW d \in Directions, StillActive(d) \/ GiveGrace(d)
  PROVE  RelayInv'
<1>1. /\ now \in Nat /\ lastActivity \in Nat /\ progress \in Nat /\ lastActivity <= progress
      /\ deadline[d] \in Nat /\ graced[d] \in BOOLEAN /\ Idle \in Nat /\ Grace \in Nat
  BY RelayAssumption DEF RelayInv, RelayTypeOK
<1>2. CASE StillActive(d)
  <2>1. now + Idle <= progress + 2 * Idle
    BY <1>1, <1>2 DEF StillActive
  <2>2. QED
    BY <1>2, <2>1, ReadAgainInv DEF StillActive
<1>3. CASE GiveGrace(d)
  <2>0. Idle > 0 /\ copy[d] = "reading" /\ ~graced[d]
    BY <1>3 DEF GiveGrace, Expired
  <2>1. now <= deadline[d] /\ deadline[d] <= progress + 2 * Idle
    BY <1>1, <2>0 DEF RelayInv, Timely
  <2>2. now + Grace <= progress + 2 * Idle + Grace
    BY <1>1, <2>1
  <2>3. QED
    BY <1>3, <2>2, ReadAgainInv DEF GiveGrace
<1>4. QED
  BY <1>2, <1>3

(* Time stops at a deadline, so that none is passed. *)
LEMMA ClockInv ==
  ASSUME RelayInv, Clock
  PROVE  RelayInv'
<1> USE RelayAssumption DEF RelayInv, Clock
<1>1. RelayTypeOK'
  BY DEF RelayTypeOK
<1>2. Timely'
  BY DEF RelayTypeOK, Timely, Expired
<1>3. QED
  BY <1>1, <1>2 DEF RelayTypeOK, WayDown

LEMMA RelayNextInv == RelayInv /\ [RelayNext]_relayVars => RelayInv'
<1> SUFFICES ASSUME RelayInv, [RelayNext]_relayVars PROVE RelayInv'
  OBVIOUS
<1>1. CASE Return
  BY <1>1 DEF Return, RelayInv, RelayTypeOK, Timely, WayDown, Directions
<1>2. CASE UNCHANGED relayVars
  BY <1>2 DEF relayVars, RelayInv, RelayTypeOK, Timely, WayDown
<1>3. QED
  BY <1>1, <1>2, ReadBytesInv, WriteBytesInv, EofInv, FailInv, TimeoutInv, ClockInv
     DEF RelayNext, IdleOut

LEMMA RelayInvariance == RelaySpec => []RelayInv
BY RelayInitInv, RelayNextInv, PTL DEF RelaySpec

(* The relay's variables keep their types; no read waits longer than the   *)
(* idle timeout.                                                           *)
THEOREM RelayTypeCorrect == RelaySpec => []RelayTypeOK
BY RelayInvariance, PTL DEF RelayInv

(* copyDirection ends a tunnel with a pending read within two idle periods *)
(* and the grace of its last progress, for every idle timeout.             *)
THEOREM IdleTunnelsEnd == RelaySpec => []IdleBounded
<1>1. RelayInv => IdleBounded
  BY RelayAssumption DEF RelayInv, RelayTypeOK, Timely, IdleBounded
<1>2. QED
  BY <1>1, RelayInvariance, PTL

(* A client that has half-closed keeps receiving, unless something fails   *)
(* (halfClose of the upstream).                                            *)
THEOREM ClientMayHalfClose == RelaySpec => []ClientHalfClose
<1>1. RelayInv => ClientHalfClose
  BY DEF RelayInv, WayDown, ClientHalfClose
<1>2. QED
  BY <1>1, RelayInvariance, PTL

(* Once a copy has failed, timed out or met a closed socket, and when      *)
(* relay has returned, both ends are closed and stay so: a late half-close *)
(* of the other copy does not reopen one.  A copy that is still blocked in *)
(* a read or a write has therefore lost its socket, and ends.              *)
TornDown == aborted \/ returned => \A s \in Sockets : conn[s] = "closed"

(* Every step keeps a relay that was torn down torn down. *)
THEOREM FailureClosesBothEnds == RelaySpec => []TornDown
<1>1. RelayInit => TornDown
  BY DEF RelayInit, TornDown
<1>2. RelayInv /\ TornDown /\ [RelayNext]_relayVars => TornDown'
  <2> SUFFICES ASSUME RelayInv, TornDown, [RelayNext]_relayVars PROVE TornDown'
    OBVIOUS
  <2>1. ASSUME NEW d \in Directions, Eof(d) PROVE TornDown'
    <3>1. aborted' = aborted /\ returned' = returned
      BY <2>1 DEF Eof
    <3>2. \A s \in Sockets : conn[s] = "closed" => conn'[s] = "closed"
      BY <2>1 DEF Eof, HalfClose, RelayInv, RelayTypeOK
    <3> QED
      BY <3>1, <3>2 DEF TornDown
  <2>2. ASSUME NEW d \in Directions, Fail(d) PROVE TornDown'
    BY <2>2 DEF Fail, Teardown, TornDown
  <2>3. CASE Return
    BY <2>3 DEF Return, TornDown
  <2>4. ASSUME NEW d \in Directions,
               ReadBytes(d) \/ WriteBytes(d) \/ StillActive(d) \/ GiveGrace(d)
        PROVE  TornDown'
    BY <2>4 DEF ReadBytes, WriteBytes, StillActive, GiveGrace, ReadAgain, TornDown
  <2>5. CASE Clock \/ UNCHANGED relayVars
    BY <2>5 DEF Clock, relayVars, TornDown
  <2> QED
    BY <2>1, <2>2, <2>3, <2>4, <2>5 DEF RelayNext, IdleOut
<1> QED
  BY <1>1, <1>2, RelayInvariance, PTL DEF RelaySpec
=============================================================================
