---------------------------- MODULE ReplaySpool ----------------------------
(***************************************************************************)
(* body.go: request bodies kept for replay, in memory or in a temporary    *)
(* file, and the budget that all files share.  Chunks are the unit.  A     *)
(* body that is not replayed is streamed, and can be sent once.            *)
(***************************************************************************)
EXTENDS Naturals, FiniteSets

CONSTANTS
  Requests,
  MemoryBytes, MaxBodyBytes, MaxSpoolBytes

ASSUME SpoolAssumption ==
  /\ MemoryBytes \in Nat /\ MaxBodyBytes \in Nat /\ MaxSpoolBytes \in Nat
  /\ MemoryBytes <= MaxBodyBytes /\ IsFiniteSet(Requests)

VARIABLES
  used,  \* replayBudget.used
  lost,  \* chunks in files that could not be removed
  body   \* [left, got, file, reserved]: still to come from the client, captured,
         \* a temporary file exists, reserved for it
spool == << used, lost, body >>

NoBody == [left |-> 0, got |-> 0, file |-> FALSE, reserved |-> 0]

SpoolInit == used = 0 /\ lost = 0 /\ body = [r \in Requests |-> NoBody]

Arrives(r, n) == body' = [body EXCEPT ![r].left = n] /\ UNCHANGED << used, lost >>

(* Mutant of GiveBack: the reservation is released even if the file stays. *)
GiveBackAlways(r, n) ==
  /\ body' = [body EXCEPT ![r] = NoBody]
  /\ used' = used - body[r].reserved
  /\ \/ lost' = lost
     \/ (body[r].file \/ n > 0) /\ lost' = lost + body[r].reserved + n

(* cleanup and Close: the reservation goes with the file, and only then.   *)
(* n: reserved, and the file there, for a chunk that was not written.      *)
GiveBack(r, n) ==
  /\ body' = [body EXCEPT ![r] = NoBody]
  /\ \/ used' = used - body[r].reserved /\ lost' = lost
     \/ /\ body[r].file \/ n > 0
        /\ used' = used + n /\ lost' = lost + body[r].reserved + n

Abandon(r) == GiveBack(r, 0)

(* writeChunk: what the next chunk has to reserve. *)
ToFile(r) == body[r].file \/ body[r].got + 1 > MemoryBytes
Needed(r) == IF body[r].file THEN 1 ELSE body[r].got + 1
Reserve(n) == used + n <= MaxSpoolBytes

CaptureInMemory(r) ==
  /\ body[r].left > 0 /\ body[r].got < MaxBodyBytes /\ ~ToFile(r)
  /\ body' = [body EXCEPT ![r].left = @ - 1, ![r].got = @ + 1]
  /\ UNCHANGED << used, lost >>

CaptureToFile(r) ==
  /\ body[r].left > 0 /\ body[r].got < MaxBodyBytes /\ ToFile(r)
  /\ Reserve(Needed(r))
  /\ body' = [body EXCEPT ![r] = [left |-> @.left - 1, got |-> @.got + 1, file |-> TRUE,
                                  reserved |-> @.reserved + Needed(r)]]
  /\ used' = used + Needed(r) /\ lost' = lost

(* The body is too large or the quota exhausted (the file is there already *)
(* when the quota is asked), a read, the creation of the file or a write   *)
(* fails.                                                                  *)
CaptureFails(r) ==
  \/ Abandon(r)
  \/ body[r].left > 0 /\ ToFile(r) /\ Reserve(Needed(r)) /\ GiveBack(r, Needed(r))

Captured(r) == body[r].left = 0

(* Open: the temporary file may be gone. *)
MayNotOpen(r) == body[r].file

(* The chunks that the bodies b have reserved. *)
Spooled(b) == UNION {{r} \X (1..b[r].reserved) : r \in Requests}

(* Every reserved chunk is in a file on disk, those that nobody could      *)
(* remove included, and the files stay within the budget.                  *)
SpoolAccounted ==
  /\ used = lost + Cardinality(Spooled(body))
  /\ used <= MaxSpoolBytes
  /\ \A r \in Requests : body[r].reserved = IF body[r].file THEN body[r].got ELSE 0
=============================================================================
