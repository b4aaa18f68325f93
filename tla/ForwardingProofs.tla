-------------------------- MODULE ForwardingProofs --------------------------
(***************************************************************************)
(* Who uses a pooled connection and who waits for whom, for any number of  *)
(* requests, entries, candidates and limits.                               *)
(***************************************************************************)
EXTENDS Forwarding, TLAPS

(* The places at which a request holds authMu of the entry it goes through. *)
Holding == {"open", "send", "switch", "header", "replay", "replaySend", "authSend", "leave"}

Holds(r, e) == rq[r].via = e /\ rq[r].pc \in Holding

Fields == {"pc", "kind", "plan", "i", "via", "src", "att", "chal", "sess", "sock", "sent"}

Shape ==
  /\ rq = [r \in Requests |-> rq[r]] /\ ent = [e \in Entries |-> ent[e]]
  /\ DOMAIN cache = {"entries", "order"}
  /\ \A r \in Requests : DOMAIN rq[r] = Fields
  /\ \A e \in Entries : DOMAIN ent[e] = {"key", "auth", "lock", "conn"}

Locking == \A r \in Requests, e \in Entries : ent[e].lock = r <=> Holds(r, e)

(* Where a pooled transport comes from. *)
Via(r) ==
  /\ rq[r].via \in Entries \cup {None}
  /\ rq[r].pc \in {"transport", "build"} => rq[r].via = None
  /\ rq[r].pc \in {"lockPooled", "lockAuth"} => rq[r].via # None

(* An exchange of a connection scheme runs over an entry of that scheme. *)
SchemeKept(r) ==
  conf.identity /\ rq[r].pc \in {"lockAuth", "header", "authSend"} /\ rq[r].chal.scheme \in Connection
    => rq[r].via # None /\ ent[rq[r].via].key = AuthKey(cand(r), rq[r].chal.scheme)

(* A token is answered at once, on the connection that brought it. *)
TokenKept(r) ==
  /\ rq[r].pc \in {"switch", "getPool", "buildPool", "lockAuth"} => ~rq[r].chal.token
  /\ rq[r].pc \in {"header", "authSend"} /\ rq[r].chal.token /\ rq[r].via # None
       => ent[rq[r].via].conn = r

CacheSound ==
  \A k \in Keys(cache) : k[1] = "auth" => cache.entries[k] \in Entries /\ ent[cache.entries[k]].key = k

IInv ==
  /\ Shape /\ Locking /\ CacheSound
  /\ \A r \in Requests : Via(r) /\ SchemeKept(r) /\ TokenKept(r)

-----------------------------------------------------------------------------
(* The step of one request: what it has to leave to the others. *)
LEMMA StepSound ==
  ASSUME IInv, NEW r \in Requests, conf' = conf, Shape', CacheSound',
         \A q \in Requests : q # r => rq'[q] = rq[q],
         \A e \in Entries :
           /\ ent'[e].lock = r <=> rq'[r].via = e /\ rq'[r].pc \in Holding
           /\ \A q \in Requests : q # r => (ent'[e].lock = q <=> ent[e].lock = q)
           /\ ent[e].lock \in Requests \ {r} => ent'[e].conn = ent[e].conn
           /\ ent'[e].key = ent[e].key \/ \A q \in Requests : rq[q].via # e,
         Via(r)', SchemeKept(r)', TokenKept(r)'
  PROVE  IInv'
<1>1. Locking'
  <2>1. ASSUME NEW q \in Requests, NEW e \in Entries PROVE (ent[e].lock = q <=> Holds(q, e))'
    <3>1. CASE q = r
      BY <3>1 DEF Holds
    <3>2. CASE q # r
      BY <3>2 DEF Holds, IInv, Locking
    <3>3. QED
      BY <3>1, <3>2
  <2>2. QED
    BY <2>1 DEF Locking
<1>2. ASSUME NEW q \in Requests, q # r PROVE Via(q)' /\ SchemeKept(q)' /\ TokenKept(q)'
  <2>1. Via(q) /\ SchemeKept(q) /\ TokenKept(q) /\ rq'[q] = rq[q] /\ cand(q)' = cand(q)
    BY <1>2 DEF IInv, cand
  <2>2. Via(q)'
    BY <2>1 DEF Via
  <2>3. SchemeKept(q)'
    <3>1. rq[q].via # None => ent'[rq[q].via].key = ent[rq[q].via].key
      BY <2>1 DEF Via
    <3>2. QED
      BY <2>1, <3>1 DEF SchemeKept
  <2>4. TokenKept(q)'
    <3>1. ASSUME rq[q].via # None, rq[q].pc \in {"header", "authSend"}
          PROVE  ent'[rq[q].via].conn = ent[rq[q].via].conn
      <4>1. rq[q].via \in Entries /\ Holds(q, rq[q].via)
        BY <2>1, <3>1 DEF Via, Holds, Holding
      <4>2. ent[rq[q].via].lock = q
        BY <4>1 DEF IInv, Locking
      <4>3. QED
        BY <1>2, <4>1, <4>2
    <3>2. QED
      BY <2>1, <3>1 DEF TokenKept
  <2>5. QED
    BY <2>2, <2>3, <2>4
<1>3. QED
  BY <1>1, <1>2 DEF IInv

(* Retiring entries and clearing never makes the cache unsound. *)
LEMMA CacheShrinks ==
  ASSUME IInv, \A e \in Entries : ent'[e].key = ent[e].key,
         NEW x, cache' = cache \/ cache' = Retired(x) \/ cache' = EmptyCache
  PROVE  CacheSound' /\ DOMAIN cache' = {"entries", "order"}
<1>1. CASE cache' = cache
  BY <1>1 DEF IInv, Shape, CacheSound, Keys
<1>2. CASE cache' = EmptyCache
  BY <1>2 DEF EmptyCache, CacheSound, Keys
<1>3. CASE cache' = RemoveEntry(cache, ent[x].key, x)
  <2> DEFINE k == ent[x].key
  <2>1. CASE cache' = [cache EXCEPT !.entries = Restrict(cache.entries, Keys(cache) \ {k})]
    <3> DEFINE f == Restrict(cache.entries, Keys(cache) \ {k})
    <3>1. DOMAIN f = Keys(cache) \ {k} /\ \A y \in DOMAIN f : f[y] = cache.entries[y]
      BY DEF Restrict
    <3> HIDE DEF f
    <3>2. cache'.entries = f /\ DOMAIN cache' = {"entries", "order"}
      BY <2>1 DEF IInv, Shape, f
    <3>3. QED
      BY <3>1, <3>2 DEF IInv, CacheSound, Keys
  <2>2. QED
    BY <1>1, <1>3, <2>1 DEF RemoveEntry
<1>4. QED
  BY <1>1, <1>2, <1>3 DEF Retired

(* Only the record of r changes, and it stays a request. *)
Moved(r) ==
  /\ rq' = [q \in Requests |-> rq'[q]]
  /\ \A q \in Requests : DOMAIN rq'[q] = Fields
  /\ \A q \in Requests : q # r => rq'[q] = rq[q]

(* r's entry after Released: nobody else notices. *)
LEMMA ReleasedEntries ==
  ASSUME IInv, NEW r \in Requests, NEW a, ent' = Released(rq[r].via, r, a)
  PROVE  /\ ent' = [e \in Entries |-> ent'[e]]
         /\ \A e \in Entries : /\ DOMAIN ent'[e] = {"key", "auth", "lock", "conn"}
                               /\ ent'[e].key = ent[e].key /\ ent'[e].conn = ent[e].conn
                               /\ ent'[e].lock # r
                               /\ \A q \in Requests : q # r => (ent'[e].lock = q <=> ent[e].lock = q)
<1> DEFINE v == rq[r].via
<1>1. Shape /\ v \in Entries \cup {None}
  BY DEF IInv, Via
<1>2. \A e \in Entries : ent[e].lock = r => e = v
  BY DEF IInv, Locking, Holds
<1> HIDE DEF v
<1>3. CASE v # None /\ ent[v].lock = r
  <2>1. v \in Entries
    BY <1>1, <1>3
  <2>2. ent' = [ent EXCEPT ![v] = [ent[v] EXCEPT !.lock = None, !.auth = @ /\ a]]
    BY <1>3 DEF Released, v
  <2>3. /\ ent' = [e \in Entries |-> ent'[e]] /\ (\A e \in Entries : e # v => ent'[e] = ent[e])
        /\ ent'[v] = [ent[v] EXCEPT !.lock = None, !.auth = @ /\ a]
    BY <1>1, <2>1, <2>2 DEF Shape
  <2>4. /\ DOMAIN ent'[v] = {"key", "auth", "lock", "conn"}
        /\ ent'[v].key = ent[v].key /\ ent'[v].conn = ent[v].conn /\ ent'[v].lock = None
    BY <1>1, <2>1, <2>3 DEF Shape
  <2>5. ASSUME NEW e \in Entries
        PROVE  /\ DOMAIN ent'[e] = {"key", "auth", "lock", "conn"}
               /\ ent'[e].key = ent[e].key /\ ent'[e].conn = ent[e].conn
               /\ ent'[e].lock # r
               /\ \A q \in Requests : q # r => (ent'[e].lock = q <=> ent[e].lock = q)
    BY <1>1, <1>2, <1>3, <2>3, <2>4, ForwardingAssumption DEF Shape
  <2>6. QED
    BY <2>3, <2>5
<1>4. CASE ~(v # None /\ ent[v].lock = r)
  <2>1. ent' = ent
    BY <1>4 DEF Released, v
  <2>2. \A e \in Entries : ent[e].lock # r
    BY <1>2, <1>4, ForwardingAssumption
  <2>3. QED
    BY <1>1, <2>1, <2>2 DEF Shape
<1>5. QED
  BY <1>3, <1>4

(* r gives up what it holds, if it holds anything. *)
LEMMA Rests ==
  ASSUME IInv, NEW r \in Requests, conf' = conf, Moved(r), rq'[r].pc \notin Holding,
         Via(r)', SchemeKept(r)', TokenKept(r)',
         \/ \E a : ent' = Released(rq[r].via, r, a)
         \/ ent' = ent /\ (rq[r].pc \notin Holding \/ rq[r].via = None),
         cache' = cache \/ cache' = Retired(rq[r].via)
  PROVE  IInv'
<1>1. /\ ent' = [e \in Entries |-> ent'[e]]
      /\ \A e \in Entries : /\ DOMAIN ent'[e] = {"key", "auth", "lock", "conn"}
                            /\ ent'[e].key = ent[e].key /\ ent'[e].conn = ent[e].conn
                            /\ ent'[e].lock # r
                            /\ \A q \in Requests : q # r => (ent'[e].lock = q <=> ent[e].lock = q)
  <2>1. CASE \E a : ent' = Released(rq[r].via, r, a)
    BY <2>1, ReleasedEntries
  <2>2. CASE ent' = ent /\ (rq[r].pc \notin Holding \/ rq[r].via = None)
    BY <2>2, ForwardingAssumption DEF IInv, Shape, Locking, Holds
  <2>3. QED
    BY <2>1, <2>2
<1>2. CacheSound' /\ DOMAIN cache' = {"entries", "order"}
  BY <1>1, CacheShrinks
<1>3. Shape'
  BY <1>1, <1>2 DEF Moved, Shape
<1>4. QED
  BY <1>1, <1>2, <1>3, StepSound DEF Moved

(* r goes on with the entry it holds, or still without one. *)
LEMMA GoesOn ==
  ASSUME IInv, NEW r \in Requests, conf' = conf, Moved(r), rq'[r].via = rq[r].via,
         rq'[r].pc \in Holding, rq[r].pc \in Holding \/ rq[r].via = None,
         SchemeKept(r)', TokenKept(r)',
         ent' = [e \in Entries |-> ent'[e]],
         \A e \in Entries : /\ DOMAIN ent'[e] = {"key", "auth", "lock", "conn"}
                            /\ ent'[e].key = ent[e].key /\ ent'[e].lock = ent[e].lock
                            /\ ent'[e].conn = ent[e].conn \/ e = rq[r].via,
         cache' = cache \/ cache' = Retired(rq[r].via)
  PROVE  IInv'
<1>1. CacheSound' /\ DOMAIN cache' = {"entries", "order"}
  BY CacheShrinks
<1>2. Shape'
  BY <1>1 DEF Moved, Shape
<1>3. Via(r)'
  <2>1. Via(r) /\ rq'[r].pc \notin {"transport", "build", "lockPooled", "lockAuth"}
    BY DEF IInv, Holding
  <2>2. QED
    BY <2>1 DEF Via
<1>4. ASSUME NEW e \in Entries PROVE ent[e].lock = r <=> rq[r].via = e
  <2>1. ent[e].lock = r <=> rq[r].via = e /\ rq[r].pc \in Holding
    BY DEF IInv, Locking, Holds
  <2>2. e # None
    BY ForwardingAssumption
  <2>3. QED
    BY <2>1, <2>2
<1>5. ASSUME NEW e \in Entries, ent[e].lock \in Requests \ {r} PROVE ent'[e].conn = ent[e].conn
  <2>1. CASE e = rq[r].via
    BY <1>4, <1>5, <2>1
  <2>2. QED
    BY <2>1
<1>6. QED
  BY <1>1, <1>2, <1>3, <1>4, <1>5, StepSound DEF Moved

(* r gets the lock of the entry it was waiting for. *)
LEMMA LocksEntry ==
  ASSUME IInv, NEW r \in Requests, conf' = conf, Moved(r), rq'[r].via = rq[r].via, rq[r].via # None,
         rq[r].pc \notin Holding, rq'[r].pc \in Holding, SchemeKept(r)', TokenKept(r)', TakeLock(r), cache' = cache
  PROVE  IInv'
<1> DEFINE v == rq[r].via
<1>1. Shape /\ v \in Entries /\ v # None /\ rq'[r].via = v
  BY DEF IInv, Via
<1>2. \A e \in Entries : ent[e].lock # r
  BY DEF IInv, Locking, Holds
<1> HIDE DEF v
<1>3. ent[v].lock = None /\ ent' = [ent EXCEPT ![v] = [ent[v] EXCEPT !.lock = r]]
  BY DEF TakeLock, v
<1>4. /\ ent' = [e \in Entries |-> ent'[e]] /\ (\A e \in Entries : e # v => ent'[e] = ent[e])
      /\ ent'[v] = [ent[v] EXCEPT !.lock = r]
  BY <1>1, <1>3 DEF Shape
<1>5. /\ DOMAIN ent'[v] = {"key", "auth", "lock", "conn"}
      /\ ent'[v].key = ent[v].key /\ ent'[v].conn = ent[v].conn /\ ent'[v].lock = r
  BY <1>1, <1>4 DEF Shape
<1>6. ASSUME NEW e \in Entries
      PROVE  /\ DOMAIN ent'[e] = {"key", "auth", "lock", "conn"}
             /\ ent'[e].key = ent[e].key /\ ent'[e].conn = ent[e].conn
             /\ ent'[e].lock = r <=> v = e
             /\ \A q \in Requests : q # r => (ent'[e].lock = q <=> ent[e].lock = q)
  BY <1>1, <1>2, <1>3, <1>4, <1>5, ForwardingAssumption DEF Shape
<1>7. CacheSound' /\ DOMAIN cache' = {"entries", "order"}
  BY <1>6, CacheShrinks
<1>8. Shape'
  BY <1>4, <1>6, <1>7 DEF Moved, Shape
<1>9. Via(r)'
  <2>1. Via(r) /\ rq'[r].pc \notin {"transport", "build", "lockPooled", "lockAuth"}
    BY DEF IInv, Holding
  <2>2. QED
    BY <2>1 DEF Via
<1>10. QED
  BY <1>1, <1>6, <1>7, <1>8, <1>9, StepSound DEF Moved

-----------------------------------------------------------------------------
(* The ways in which the record of a request is written. *)
LEMMA SetRequest ==
  ASSUME IInv, NEW r \in Requests, NEW x, DOMAIN x = Fields, rq' = [rq EXCEPT ![r] = x]
  PROVE  Moved(r) /\ rq'[r] = x
BY DEF IInv, Shape, Moved

(* Go leaves the rest of it alone, ... *)
LEMMA GoRequest ==
  ASSUME IInv, NEW r \in Requests, NEW y, Go(r, y)
  PROVE  /\ Moved(r) /\ rq'[r].pc = y /\ rq'[r].via = rq[r].via
         /\ rq'[r].chal = rq[r].chal /\ cand(r)' = cand(r)
<1> DEFINE x == [rq[r] EXCEPT !.pc = y]
<1>1. /\ DOMAIN x = Fields /\ x.pc = y /\ x.via = rq[r].via
      /\ x.chal = rq[r].chal /\ x.plan = rq[r].plan /\ x.i = rq[r].i
  BY DEF IInv, Shape, Fields
<1>2. rq' = [rq EXCEPT ![r] = x]
  BY DEF Go
<1> HIDE DEF x
<1>3. QED
  BY <1>1, <1>2, SetRequest DEF cand

(* ... giving up the transport changes nothing else, ... *)
LEMMA ForgetVia ==
  ASSUME IInv, NEW r \in Requests, NEW y, rq' = [rq EXCEPT ![r].via = None, ![r].pc = y]
  PROVE  Moved(r) /\ rq'[r].pc = y /\ rq'[r].via = None /\ rq'[r].chal = rq[r].chal /\ cand(r)' = cand(r)
<1> DEFINE x == [rq[r] EXCEPT !.via = None, !.pc = y]
<1>1. /\ DOMAIN x = Fields /\ x.pc = y /\ x.via = None
      /\ x.chal = rq[r].chal /\ x.plan = rq[r].plan /\ x.i = rq[r].i
  BY DEF IInv, Shape, Fields
<1>2. rq' = [rq EXCEPT ![r] = x]
  BY DEF IInv, Shape
<1> HIDE DEF x
<1>3. QED
  BY <1>1, <1>2, SetRequest DEF cand

(* ... nor does noting the connection to be read, ... *)
LEMMA SrcRequest ==
  ASSUME IInv, NEW r \in Requests, NEW y, NEW z, rq' = [rq EXCEPT ![r].pc = y, ![r].src = z]
  PROVE  Moved(r) /\ rq'[r].pc = y /\ rq'[r].via = rq[r].via
<1> DEFINE x == [rq[r] EXCEPT !.pc = y, !.src = z]
<1>1. DOMAIN x = Fields /\ x.pc = y /\ x.via = rq[r].via
  BY DEF IInv, Shape, Fields
<1>2. rq' = [rq EXCEPT ![r] = x]
  BY DEF IInv, Shape
<1> HIDE DEF x
<1>3. QED
  BY <1>1, <1>2, SetRequest

(* ... or sending the body, ... *)
LEMMA OutboundRequest ==
  ASSUME IInv, NEW r \in Requests, NEW y, rq' = [rq EXCEPT ![r] = [Outbound(r) EXCEPT !.pc = y]]
  PROVE  Moved(r) /\ rq'[r].pc = y /\ rq'[r].via = rq[r].via
<1> DEFINE w == Outbound(r)
           x == [w EXCEPT !.pc = y]
<1>1. DOMAIN w = Fields /\ w.via = rq[r].via
  BY DEF IInv, Shape, Fields, Outbound
<1> HIDE DEF w
<1>2. DOMAIN x = Fields /\ x.pc = y /\ x.via = rq[r].via
  BY <1>1 DEF Fields
<1>3. rq' = [rq EXCEPT ![r] = x]
  BY DEF w
<1> HIDE DEF x
<1>4. QED
  BY <1>2, <1>3, SetRequest

(* ... and a new start forgets the transport. *)
LEMMA NewStart ==
  ASSUME IInv, NEW r \in Requests, NextCandidate(r) \/ Answered(r)
  PROVE  Moved(r) /\ rq'[r].pc \in {"finish", "try"} /\ rq'[r].via = None
<1>1. ASSUME NextCandidate(r)
      PROVE  Moved(r) /\ rq'[r].pc \in {"finish", "try"} /\ rq'[r].via = None
  <2>1. PICK x : /\ DOMAIN x = Fields /\ x.pc \in {"finish", "try"} /\ x.via = None
                 /\ rq' = [rq EXCEPT ![r] = x]
    BY <1>1 DEF NextCandidate, NewRequest, Fields
  <2>2. QED
    BY <2>1, SetRequest
<1>2. ASSUME Answered(r)
      PROVE  Moved(r) /\ rq'[r].pc \in {"finish", "try"} /\ rq'[r].via = None
  <2>1. PICK x : /\ DOMAIN x = Fields /\ x.pc = "finish" /\ x.via = None
                 /\ rq' = [rq EXCEPT ![r] = x]
    BY <1>2 DEF Answered, NewRequest, Fields
  <2>2. QED
    BY <2>1, SetRequest
<1>3. QED
  BY <1>1, <1>2

(* The places at which nothing is said of the transport. *)
Plain == {"route", "capture", "try", "handshake", "connectSend", "connected", "close", "finish", "done"}

(* A request that gets to one of them has given its lock back. *)
LEMMA RestsPlainly ==
  ASSUME IInv, NEW r \in Requests, conf' = conf, Moved(r), rq'[r].pc \in Plain, rq'[r].via \in {None, rq[r].via},
         \/ \E a : ent' = Released(rq[r].via, r, a)
         \/ ent' = ent /\ (rq[r].pc \notin Holding \/ rq[r].via = None),
         cache' = cache \/ cache' = Retired(rq[r].via)
  PROVE  IInv'
<1>1. rq'[r].pc \notin Holding
  BY DEF Plain, Holding
<1>2. Via(r)'
  BY DEF IInv, Via, Plain
<1>3. SchemeKept(r)' /\ TokenKept(r)'
  BY DEF SchemeKept, TokenKept, Plain
<1>4. QED
  BY <1>1, <1>2, <1>3, Rests

-----------------------------------------------------------------------------
(* The steps of a request that holds no entry. *)
LEMMA PlainSteps ==
  ASSUME IInv, NEW r \in Requests,
         \/ FindProxy(r) \/ Capture(r) \/ CaptureEnds(r) \/ CaptureError(r) \/ Finish(r)
         \/ CloseSession(r) \/ Dial(r) \/ Handshake(r) \/ ConnectReply(r) \/ Connected(r)
  PROVE  IInv'
<1> SUFFICES Moved(r) /\ rq'[r].pc \in Plain /\ rq'[r].via \in {None, rq[r].via}
  <2>1. conf' = conf /\ ent' = ent /\ (cache' = cache \/ cache' = Retired(rq[r].via))
    BY DEF FindProxy, Capture, CaptureEnds, CaptureError, Finish, CloseSession, Dial, Handshake,
           ConnectReply, Connected
  <2>2. rq[r].pc \notin Holding
    BY DEF FindProxy, Capture, CaptureEnds, CaptureError, Finish, CloseSession, Dial, Handshake,
           ConnectReply, Connected, At, Holding
  <2>3. QED
    BY <2>1, <2>2, RestsPlainly
<1> DEFINE Done == Moved(r) /\ rq'[r].pc \in Plain /\ rq'[r].via \in {None, rq[r].via}
<1> SUFFICES Done
  OBVIOUS
<1> DOMAIN rq[r] = Fields /\ Shape
  BY DEF IInv, Shape
<1>1. ASSUME NEW y \in Plain, Go(r, y) PROVE Done
  BY <1>1, GoRequest
<1>2. ASSUME NEW x, DOMAIN x = Fields, x.pc \in Plain, x.via \in {None, rq[r].via}, rq' = [rq EXCEPT ![r] = x]
      PROVE  Done
  BY <1>2, SetRequest
<1>3. ASSUME NextCandidate(r) PROVE Done
  BY <1>3, NewStart DEF Plain
<1> HIDE DEF Done
<1>4. CASE FindProxy(r)
  <2>1. CASE Go(r, "finish")
    BY <1>1, <2>1 DEF Plain
  <2>2. ASSUME NEW p, NEW n,
               rq' = [rq EXCEPT ![r].plan = p, ![r].pc = IF NeedsReplayableBody(n, p) THEN "capture" ELSE "try"]
        PROVE  Done
    <3> DEFINE y == IF NeedsReplayableBody(n, p) THEN "capture" ELSE "try"
    <3> DEFINE x == [rq[r] EXCEPT !.plan = p, !.pc = y]
    <3>1. y \in Plain
      BY DEF Plain
    <3> HIDE DEF y
    <3>2. DOMAIN x = Fields /\ x.pc = y /\ x.via = rq[r].via
      BY DEF Fields
    <3>3. rq' = [rq EXCEPT ![r] = x]
      BY <2>2 DEF Shape, y
    <3> HIDE DEF x
    <3>4. QED
      BY <1>2, <3>1, <3>2, <3>3
  <2>3. ASSUME NEW p, rq' = [rq EXCEPT ![r].plan = p, ![r].kind = "connect", ![r].pc = "try"]
        PROVE  Done
    <3> DEFINE x == [rq[r] EXCEPT !.plan = p, !.kind = "connect", !.pc = "try"]
    <3>1. DOMAIN x = Fields /\ x.pc = "try" /\ x.via = rq[r].via
      BY DEF Fields
    <3>2. rq' = [rq EXCEPT ![r] = x]
      BY <2>3 DEF Shape
    <3> HIDE DEF x
    <3>3. QED
      BY <1>2, <3>1, <3>2 DEF Plain
  <2>4. QED
    BY <1>4, <2>1, <2>2, <2>3 DEF FindProxy
<1>5. CASE Capture(r)
  BY <1>5 DEF Capture, At, Moved, Shape, Plain, Done
<1>6. CASE CaptureEnds(r) \/ CaptureError(r)
  BY <1>1, <1>6 DEF CaptureEnds, CaptureError, Plain
<1>7. CASE Finish(r) \/ Connected(r)
  <2>1. PICK x : DOMAIN x = Fields /\ x.pc \in {"finish", "done"} /\ x.via = None /\ rq' = [rq EXCEPT ![r] = x]
    BY <1>7 DEF Finish, Connected, NewRequest, Fields
  <2>2. QED
    BY <1>2, <2>1 DEF Plain
<1>8. CASE CloseSession(r)
  <2> DEFINE x == [rq[r] EXCEPT !.pc = "finish", !.sess = "none", !.via = None]
  <2>1. DOMAIN x = Fields /\ x.pc = "finish" /\ x.via = None
    BY DEF Fields
  <2>2. rq' = [rq EXCEPT ![r] = x]
    BY <1>8 DEF CloseSession, Shape
  <2> HIDE DEF x
  <2>3. QED
    BY <1>2, <2>1, <2>2 DEF Plain
<1>9. CASE Dial(r)
  <2> DEFINE y == IF cand(r) = Direct THEN "connected" ELSE "handshake"
             x == [rq[r] EXCEPT !.pc = y, !.sock = TRUE]
  <2>1. y \in Plain
    BY DEF Plain
  <2> HIDE DEF y
  <2>2. DOMAIN x = Fields /\ x.pc = y /\ x.via = rq[r].via
    BY DEF Fields
  <2>3. rq' = [rq EXCEPT ![r] = x] \/ NextCandidate(r)
    BY <1>9 DEF Dial, Shape, y
  <2> HIDE DEF x
  <2>4. QED
    BY <1>2, <1>3, <2>1, <2>2, <2>3
<1>10. CASE Handshake(r)
  BY <1>1, <1>3, <1>10 DEF Handshake, Plain
<1>11. CASE ConnectReply(r)
  <2>1. ASSUME rq' = [rq EXCEPT ![r].pc = "connected", ![r].sess = "none"] PROVE Done
    <3> DEFINE x == [rq[r] EXCEPT !.pc = "connected", !.sess = "none"]
    <3>1. DOMAIN x = Fields /\ x.pc = "connected" /\ x.via = rq[r].via
      BY DEF Fields
    <3>2. rq' = [rq EXCEPT ![r] = x]
      BY <2>1 DEF Shape
    <3> HIDE DEF x
    <3>3. QED
      BY <1>2, <3>1, <3>2 DEF Plain
  <2>2. ASSUME NEW c, rq' = [rq EXCEPT ![r].att = @ + 1, ![r].chal = c, ![r].sess = Session(r, c)]
        PROVE  Done
    <3> DEFINE x == [rq[r] EXCEPT !.att = @ + 1, !.chal = c, !.sess = Session(r, c)]
    <3>1. DOMAIN x = Fields /\ x.pc = rq[r].pc /\ x.via = rq[r].via
      BY DEF Fields
    <3>2. rq' = [rq EXCEPT ![r] = x]
      BY <2>2 DEF Shape
    <3> HIDE DEF x
    <3>3. rq[r].pc \in Plain
      BY <1>11 DEF ConnectReply, At, Plain
    <3>4. QED
      BY <1>2, <3>1, <3>2, <3>3
  <2>3. QED
    BY <1>3, <1>11, <2>1, <2>2 DEF ConnectReply
<1>12. QED
  BY <1>4, <1>5, <1>6, <1>7, <1>8, <1>9, <1>10, <1>11

-----------------------------------------------------------------------------
(* Inserting a key keeps the other keys that remain. *)
LEMMA Inserted ==
  ASSUME NEW k, NEW v, cache' = InsertEntry(cache, k, v)
  PROVE  /\ DOMAIN cache' = {"entries", "order"}
         /\ \A x \in Keys(cache') : x = k \/ (x \in Keys(cache) /\ cache'.entries[x] = cache.entries[x])
         /\ k \in Keys(cache') /\ cache'.entries[k] = v
<1> DEFINE d == Keys(Evicted(cache)) \cup {k}
           f == [x \in d |-> IF x = k THEN v ELSE cache.entries[x]]
<1>1. Keys(Evicted(cache)) \subseteq Keys(cache)
  BY DEF Evicted, Keys, Restrict
<1>2. DOMAIN f = d /\ f[k] = v /\ \A x \in d : x # k => f[x] = cache.entries[x]
  OBVIOUS
<1>3. cache' = [entries |-> f, order |-> Append(Evicted(cache).order, k)]
  BY DEF InsertEntry
<1>4. k \in d /\ \A x \in d : x = k \/ x \in Keys(cache)
  BY <1>1
<1> HIDE DEF f, d
<1>5. DOMAIN cache' = {"entries", "order"} /\ cache'.entries = f
  BY <1>3
<1>6. QED
  BY <1>2, <1>4, <1>5 DEF Keys

(* Only the entry of r changes, and only what its holder may note there. *)
Noted(r) ==
  /\ ent' = [e \in Entries |-> ent'[e]]
  /\ \A e \in Entries : /\ DOMAIN ent'[e] = {"key", "auth", "lock", "conn"}
                        /\ ent'[e].key = ent[e].key /\ ent'[e].lock = ent[e].lock
                        /\ ent'[e].conn = ent[e].conn \/ e = rq[r].via
  /\ rq[r].via = None => ent' = ent

(* The result of an authentication is such a note, ... *)
LEMMA AuthNoted ==
  ASSUME IInv, NEW r \in Requests, NEW a, NEW n, ent' = AuthResult(rq[r].via, a, n)
  PROVE  Noted(r) /\ (rq[r].via # None => ent'[rq[r].via].conn = n)
<1> DEFINE v == rq[r].via
           x == [ent[v] EXCEPT !.auth = a, !.conn = n]
<1>1. Shape /\ v \in Entries \cup {None}
  BY DEF IInv, Via
<1>2. CASE v = None
  BY <1>1, <1>2 DEF AuthResult, Noted, Shape
<1>3. CASE v # None
  <2> HIDE DEF v
  <2>1. /\ DOMAIN x = {"key", "auth", "lock", "conn"} /\ x.key = ent[v].key /\ x.lock = ent[v].lock
        /\ x.conn = n
    BY <1>1, <1>3 DEF Shape
  <2>2. ent' = [ent EXCEPT ![v] = x]
    BY <1>1, <1>3 DEF Shape, AuthResult, v
  <2> HIDE DEF x
  <2>3. ent'[v] = x /\ ent' = [e \in Entries |-> ent'[e]] /\ \A e \in Entries : e # v => ent'[e] = ent[e]
    BY <1>1, <1>3, <2>2 DEF Shape
  <2>4. QED
    BY <1>1, <1>3, <2>1, <2>3 DEF Noted, Shape, v
<1>4. QED
  BY <1>2, <1>3

(* ... and so are the end of one, and nothing at all. *)
LEMMA PlainlyNoted ==
  ASSUME IInv, NEW r \in Requests, ent' = ent \/ ent' = Demoted(rq[r].via)
  PROVE  Noted(r)
<1> DEFINE v == rq[r].via
           x == [ent[v] EXCEPT !.auth = FALSE]
<1>1. Shape /\ v \in Entries \cup {None}
  BY DEF IInv, Via
<1>2. CASE ent' = ent
  BY <1>1, <1>2 DEF Noted, Shape
<1>3. CASE v # None /\ ent' = Demoted(v)
  <2> HIDE DEF v
  <2>1. DOMAIN x = {"key", "auth", "lock", "conn"} /\ x.key = ent[v].key /\ x.lock = ent[v].lock
    BY <1>1, <1>3 DEF Shape
  <2>2. ent' = [ent EXCEPT ![v] = x]
    BY <1>1, <1>3 DEF Shape, Demoted
  <2> HIDE DEF x
  <2>3. ent'[v] = x /\ ent' = [e \in Entries |-> ent'[e]] /\ \A e \in Entries : e # v => ent'[e] = ent[e]
    BY <1>1, <1>3, <2>2 DEF Shape
  <2>4. QED
    BY <1>1, <1>3, <2>1, <2>3 DEF Noted, Shape, v
<1>4. QED
  BY <1>2, <1>3 DEF Demoted

(* The head of the loop of retryHTTPProxyAuthWithPool. *)
LEMMA ChallengedSound ==
  ASSUME IInv, NEW r \in Requests, NEW c, NEW n, Challenged(r, c, n), conf' = conf, cache' = cache,
         rq[r].pc \in {"send", "replaySend", "authSend"}, Noted(r),
         c.token => /\ rq[r].pc = "authSend" /\ c.scheme = rq[r].chal.scheme /\ c.scheme \in Connection
                    /\ rq[r].via # None => ent'[rq[r].via].conn = r
  PROVE  IInv'
<1> DEFINE v == rq[r].via
           y == Selected(r, c)
           x == [rq[r] EXCEPT !.pc = y, !.att = n, !.chal = c, !.src = v]
<1>1. Shape /\ Via(r) /\ SchemeKept(r) /\ DOMAIN rq[r] = Fields
  BY DEF IInv, Shape
<1>2. DOMAIN x = Fields /\ x.pc = y /\ x.via = v /\ x.chal = c /\ x.plan = rq[r].plan /\ x.i = rq[r].i
  BY <1>1 DEF Fields
<1>3. rq' = [rq EXCEPT ![r] = x]
  BY <1>1 DEF Challenged, Shape
<1> HIDE DEF x, y, v
<1>4. Moved(r) /\ rq'[r].pc = y /\ rq'[r].via = v /\ rq'[r].chal = c /\ cand(r)' = cand(r)
  BY <1>2, <1>3, SetRequest DEF cand
<1>5. /\ ent' = [e \in Entries |-> ent'[e]]
      /\ \A e \in Entries : /\ DOMAIN ent'[e] = {"key", "auth", "lock", "conn"}
                            /\ ent'[e].key = ent[e].key /\ ent'[e].lock = ent[e].lock
                            /\ ent'[e].conn = ent[e].conn \/ e = v
      /\ v = None => ent' = ent
  BY DEF Noted, v
<1>6. c.token /\ v # None => ent'[v].conn = r
  BY DEF v
<1>7. v \in Entries \cup {None} /\ (v # None => ent'[v].key = ent[v].key)
  BY <1>1, <1>5 DEF Via, v
<1>8. y \in {"header", "getPool", "switch"}
  BY DEF y, Selected
<1>9. y = "header" /\ conf.identity /\ c.scheme \in Connection => v # None /\ ent[v].key = AuthKey(cand(r), c.scheme)
  BY DEF y, v, Selected
<1>10. c.token => y = "header"
  <2>1. SUFFICES ASSUME c.token, conf.identity PROVE y = "header"
    BY DEF y, Selected
  <2>2. v # None /\ ent[v].key = AuthKey(cand(r), c.scheme)
    BY <1>1, <2>1 DEF SchemeKept, v
  <2>3. QED
    BY <2>1, <2>2 DEF y, v, Selected
<1>11. SchemeKept(r)'
  BY <1>4, <1>7, <1>8, <1>9 DEF SchemeKept
<1>12. TokenKept(r)'
  BY <1>4, <1>6, <1>8, <1>10 DEF TokenKept
<1>13. CASE y \in {"header", "switch"}
  <2>1. rq'[r].pc \in Holding /\ rq[r].pc \in Holding
    BY <1>4, <1>13 DEF Holding
  <2>2. QED
    BY <1>4, <1>5, <1>11, <1>12, <2>1, GoesOn DEF v
<1>14. CASE y = "getPool"
  <2>1. v = None
    BY <1>14 DEF y, v, Selected
  <2>2. rq'[r].pc \notin Holding /\ Via(r)'
    BY <1>4, <1>14, <2>1 DEF Holding, Via
  <2>3. QED
    BY <1>4, <1>5, <1>11, <1>12, <2>1, <2>2, Rests DEF v
<1>15. QED
  BY <1>8, <1>13, <1>14

(* The holder goes on to a place that says nothing of the challenge. *)
LEMMA GoesOnPlainly ==
  ASSUME IInv, NEW r \in Requests, conf' = conf, Moved(r), rq'[r].via = rq[r].via,
         rq'[r].pc \in {"open", "send", "replay", "replaySend", "leave"},
         rq[r].pc \in Holding \/ rq[r].via = None, Noted(r), cache' = cache \/ cache' = Retired(rq[r].via)
  PROVE  IInv'
<1>1. rq'[r].pc \in Holding /\ SchemeKept(r)' /\ TokenKept(r)'
  BY DEF Holding, SchemeKept, TokenKept
<1>2. QED
  BY <1>1, GoesOn DEF Noted

-----------------------------------------------------------------------------
(* A pooled transport is looked up ... *)
LEMMA TrySteps ==
  ASSUME IInv, NEW r \in Requests, Try(r)
  PROVE  IInv'
<1>1. conf' = conf /\ cache' = cache /\ ent' = ent /\ rq[r].pc = "try"
  BY DEF Try, At
<1>2. rq[r].pc \notin Holding
  BY <1>1 DEF Holding
<1>3. ASSUME NEW i \in PoolSchemes(r), rq' = [rq EXCEPT ![r].via = PooledFor(r, i), ![r].pc = "lockPooled"]
      PROVE  IInv'
  <2> DEFINE k == AuthKey(cand(r), conf.modes[i])
  <2>1. k \in Keys(cache)
    BY <1>3 DEF PoolSchemes, Cached
  <2>2. k[1] = "auth"
    BY DEF AuthKey
  <2>3. PooledFor(r, i) \in Entries
    BY <2>1, <2>2 DEF IInv, CacheSound, PooledFor
  <2>4. Moved(r) /\ rq'[r].pc = "lockPooled" /\ rq'[r].via = PooledFor(r, i)
    <3> DEFINE v == PooledFor(r, i)
               x == [rq[r] EXCEPT !.via = v, !.pc = "lockPooled"]
    <3>1. rq' = [rq EXCEPT ![r] = x]
      BY <1>3 DEF IInv, Shape
    <3> HIDE DEF v
    <3>2. DOMAIN x = Fields /\ x.pc = "lockPooled" /\ x.via = v
      BY DEF IInv, Shape, Fields
    <3> HIDE DEF x
    <3>3. QED
      BY <3>1, <3>2, SetRequest DEF v
  <2>5. Via(r)' /\ SchemeKept(r)' /\ TokenKept(r)' /\ rq'[r].pc \notin Holding
    BY <1>1, <2>1, <2>3, <2>4, ForwardingAssumption DEF Via, SchemeKept, TokenKept, Holding
  <2>6. QED
    BY <1>1, <1>2, <2>4, <2>5, Rests
<1>4. ASSUME rq' = [rq EXCEPT ![r].via = None, ![r].pc = "transport"]
      PROVE  IInv'
  <2>1. Moved(r) /\ rq'[r].pc = "transport" /\ rq'[r].via = None
    BY <1>4, ForgetVia
  <2>2. rq'[r].pc \notin Holding
    BY <2>1 DEF Holding
  <2>3. Via(r)'
    BY <2>1 DEF Via
  <2>4. SchemeKept(r)' /\ TokenKept(r)'
    BY <2>1 DEF SchemeKept, TokenKept
  <2>5. QED
    BY <1>1, <1>2, <2>1, <2>2, <2>3, <2>4, Rests
<1>5. QED
  BY <1>3, <1>4 DEF Try

(* ... and locked, or given up for the transport of the route. *)
LEMMA LockPooledSteps ==
  ASSUME IInv, NEW r \in Requests, LockPooled(r)
  PROVE  IInv'
<1>1. conf' = conf /\ cache' = cache /\ rq[r].pc = "lockPooled" /\ rq[r].via # None
  BY DEF LockPooled, At, IInv, Via
<1>2. rq[r].pc \notin Holding
  BY <1>1 DEF Holding
<1>3. CASE TakeLock(r) /\ Go(r, "open")
  <2>1. Moved(r) /\ rq'[r].pc = "open" /\ rq'[r].via = rq[r].via
    BY <1>3, GoRequest
  <2>2. SchemeKept(r)' /\ TokenKept(r)' /\ rq'[r].pc \in Holding
    BY <2>1 DEF SchemeKept, TokenKept, Holding
  <2>3. QED
    BY <1>1, <1>2, <1>3, <2>1, <2>2, LocksEntry
<1>4. CASE rq' = [rq EXCEPT ![r].via = None, ![r].pc = "transport"] /\ ent' = ent
  <2>1. Moved(r) /\ rq'[r].pc = "transport" /\ rq'[r].via = None
    BY <1>4, ForgetVia
  <2>2. rq'[r].pc \notin Holding
    BY <2>1 DEF Holding
  <2>3. Via(r)'
    BY <2>1 DEF Via
  <2>4. SchemeKept(r)' /\ TokenKept(r)'
    BY <2>1 DEF SchemeKept, TokenKept
  <2>5. QED
    BY <1>1, <1>2, <1>4, <2>1, <2>2, <2>3, <2>4, Rests
<1>5. QED
  BY <1>3, <1>4 DEF LockPooled

(* The transport of a route is built and cached. *)
LEMMA RouteSteps ==
  ASSUME IInv, NEW r \in Requests, Transport(r) \/ Build(r)
  PROVE  IInv'
<1>1. conf' = conf /\ ent' = ent /\ rq[r].pc \in {"transport", "build"} /\ rq[r].via = None
  BY DEF Transport, Build, At, IInv, Via
<1>2. rq[r].pc \notin Holding /\ Noted(r)
  BY <1>1, PlainlyNoted DEF Holding
<1>3. CASE Transport(r)
  <2>1. PICK y \in {"open", "build"} : Go(r, y)
    BY <1>3 DEF Transport
  <2>2. Moved(r) /\ rq'[r].pc = y /\ rq'[r].via = None /\ cache' = cache
    BY <1>1, <1>3, <2>1, GoRequest DEF Transport
  <2>3. CASE y = "open"
    BY <1>1, <1>2, <2>2, <2>3, GoesOnPlainly
  <2>4. CASE y = "build"
    <3>1. Via(r)' /\ SchemeKept(r)' /\ TokenKept(r)' /\ rq'[r].pc \notin Holding
      BY <2>2, <2>4 DEF Via, SchemeKept, TokenKept, Holding
    <3>2. QED
      BY <1>1, <1>2, <2>2, <3>1, Rests
  <2>5. QED
    BY <2>3, <2>4
<1>4. CASE Build(r)
  <2>1. Moved(r) /\ rq'[r].pc = "open" /\ rq'[r].via = None
    BY <1>1, <1>4, GoRequest DEF Build
  <2>2. CASE cache' = cache
    BY <1>1, <1>2, <2>1, <2>2, GoesOnPlainly
  <2>3. CASE cache' = InsertEntry(cache, RouteKey(cand(r)), None)
    <3>1. DOMAIN cache' = {"entries", "order"} /\ CacheSound'
      <4> DEFINE k == RouteKey(cand(r))
      <4>1. k[1] = "route"
        BY DEF RouteKey
      <4>2. /\ DOMAIN cache' = {"entries", "order"}
            /\ \A x \in Keys(cache') : x = k \/ (x \in Keys(cache) /\ cache'.entries[x] = cache.entries[x])
        BY <2>3, Inserted
      <4> HIDE DEF k
      <4>3. QED
        BY <1>1, <4>1, <4>2 DEF IInv, CacheSound, Keys
    <3>2. Shape'
      BY <1>1, <2>1, <3>1 DEF IInv, Shape, Moved
    <3>3. Via(r)' /\ SchemeKept(r)' /\ TokenKept(r)'
      BY <2>1 DEF Via, SchemeKept, TokenKept
    <3>4. \A e \in Entries : ent[e].lock # r /\ rq'[r].via # e
      BY <1>2, <2>1, ForwardingAssumption DEF IInv, Locking, Holds
    <3>5. QED
      BY <1>1, <2>1, <3>1, <3>2, <3>3, <3>4, StepSound DEF Moved
  <2>4. QED
    BY <1>4, <2>2, <2>3 DEF Build
<1>5. QED
  BY <1>3, <1>4

-----------------------------------------------------------------------------
(* A candidate is sent the request, fails, answers or asks for credentials. *)
LEMMA SendSteps ==
  ASSUME IInv, NEW r \in Requests, Open(r) \/ SendFails(r) \/ Response(r) \/ Response407(r)
  PROVE  IInv'
<1>1. conf' = conf /\ rq[r].pc \in {"open", "send"} /\ rq[r].pc \in Holding
  BY DEF Open, SendFails, Response, Response407, At, Holding
<1>2. ASSUME NEW a, ent' = Released(rq[r].via, r, a), NextCandidate(r) \/ Answered(r),
             cache' = cache \/ cache' = Retired(rq[r].via)
      PROVE  IInv'
  <2>1. Moved(r) /\ rq'[r].pc \in Plain /\ rq'[r].via = None
    BY <1>2, NewStart DEF Plain
  <2>2. QED
    BY <1>1, <1>2, <2>1, RestsPlainly
<1>3. CASE Open(r)
  <2>1. CASE rq' = [rq EXCEPT ![r] = [Outbound(r) EXCEPT !.pc = "send"]] /\ ent' = ent
    <3>1. Moved(r) /\ rq'[r].pc = "send" /\ rq'[r].via = rq[r].via /\ Noted(r)
      BY <2>1, OutboundRequest, PlainlyNoted
    <3>2. cache' = cache
      BY <1>3 DEF Open
    <3>3. QED
      BY <1>1, <3>1, <3>2, GoesOnPlainly
  <2>2. QED
    BY <1>2, <1>3, <2>1 DEF Open
<1>4. CASE SendFails(r) \/ Response(r)
  BY <1>2, <1>4 DEF SendFails, Response
<1>5. CASE Response407(r)
  <2>1. CASE Streamed(r)
    BY <1>2, <1>5, <2>1 DEF Response407
  <2>2. CASE ~Streamed(r)
    <3>1. PICK c \in Challenges : Challenged(r, c, 0)
      BY <1>5, <2>2 DEF Response407
    <3>2. cache' = cache /\ ent' = Demoted(rq[r].via) /\ rq[r].pc = "send"
      BY <1>5, <2>2 DEF Response407, At
    <3>3. ~c.token
      BY <3>1, SMTT(30) DEF Challenges
    <3>4. Noted(r)
      BY <3>2, PlainlyNoted
    <3>5. QED
      BY <1>1, <3>1, <3>2, <3>3, <3>4, ChallengedSound
  <2>3. QED
    BY <2>1, <2>2
<1>6. QED
  BY <1>3, <1>4, <1>5

(* Another round of the loop, or its end. *)
LEMMA AgainSound ==
  ASSUME IInv, NEW r \in Requests, NEW c, Again(r, c), conf' = conf,
         rq[r].pc \in {"replaySend", "authSend"}, Noted(r),
         c.token => /\ rq[r].pc = "authSend" /\ c.scheme = rq[r].chal.scheme /\ c.scheme \in Connection
                    /\ rq[r].via # None => ent'[rq[r].via].conn = r
  PROVE  IInv'
<1>1. CASE Challenged(r, c, rq[r].att + 1) /\ cache' = cache
  BY <1>1, ChallengedSound
<1>2. CASE rq' = [rq EXCEPT ![r].pc = "leave", ![r].src = rq[r].via] /\ cache' = Retired(rq[r].via)
  <2>1. Moved(r) /\ rq'[r].pc = "leave" /\ rq'[r].via = rq[r].via
    BY <1>2, SrcRequest
  <2>2. rq[r].pc \in Holding
    BY DEF Holding
  <2>3. QED
    BY <1>2, <2>1, <2>2, GoesOnPlainly
<1>3. QED
  BY <1>1, <1>2 DEF Again

(* The request is replayed over a connection that was authenticated. *)
LEMMA ReplaySteps ==
  ASSUME IInv, NEW r \in Requests, Replay(r) \/ ReplayReply(r)
  PROVE  IInv'
<1>1. conf' = conf /\ rq[r].pc \in {"replay", "replaySend"} /\ rq[r].pc \in Holding
  BY DEF Replay, ReplayReply, At, Holding
<1>2. ASSUME Moved(r), rq'[r].pc \in {"leave", "replaySend"}, rq'[r].via = rq[r].via, ent' = ent,
             cache' = cache \/ cache' = Retired(rq[r].via)
      PROVE  IInv'
  <2>1. Noted(r)
    BY <1>2, PlainlyNoted
  <2>2. QED
    BY <1>1, <1>2, <2>1, GoesOnPlainly
<1>3. CASE Replay(r)
  <2>1. ent' = ent /\ (cache' = cache \/ cache' = Retired(rq[r].via))
    BY <1>3 DEF Replay
  <2>2. CASE rq' = [rq EXCEPT ![r] = [Outbound(r) EXCEPT !.pc = "replaySend"]]
    BY <1>2, <2>1, <2>2, OutboundRequest
  <2>3. CASE rq' = [rq EXCEPT ![r].pc = "leave", ![r].src = None]
    <3>1. PICK z : rq' = [rq EXCEPT ![r].pc = "leave", ![r].src = z]
      BY <2>3
    <3>2. QED
      BY <1>2, <2>1, <3>1, SrcRequest
  <2>4. QED
    BY <1>3, <2>2, <2>3 DEF Replay
<1>4. CASE ReplayReply(r)
  <2>1. CASE Go(r, "leave") /\ cache' = Retired(rq[r].via) /\ ent' = ent
    BY <1>2, <2>1, GoRequest
  <2>2. CASE rq' = [rq EXCEPT ![r].pc = "leave", ![r].src = rq[r].via] /\ UNCHANGED << cache, ent >>
    BY <1>2, <2>2, SrcRequest
  <2>3. ASSUME ent' = Demoted(rq[r].via), NEW c \in Challenges, Again(r, c) PROVE IInv'
    <3>1. ~c.token /\ Noted(r) /\ rq[r].pc = "replaySend"
      BY <1>4, <2>3, PlainlyNoted DEF Challenges, ReplayReply, At
    <3>2. QED
      BY <1>1, <2>3, <3>1, AgainSound
  <2>4. QED
    BY <1>4, <2>1, <2>2, <2>3 DEF ReplayReply
<1>5. QED
  BY <1>3, <1>4

(* The pooled transport of a scheme is given up, found or built. *)
LEMMA PoolSteps ==
  ASSUME IInv, NEW r \in Requests, SwitchScheme(r) \/ GetPool(r) \/ BuildPool(r)
  PROVE  IInv'
<1> DEFINE k == poolKey(r)
<1>1. conf' = conf /\ rq[r].pc \in {"switch", "getPool", "buildPool"} /\ ~rq[r].chal.token
  BY DEF SwitchScheme, GetPool, BuildPool, At, IInv, TokenKept
<1>2. k = AuthKey(cand(r), rq[r].chal.scheme) /\ k[1] = "auth"
  BY DEF poolKey, AuthKey
<1> HIDE DEF k
<1>3. ASSUME NEW v \in Entries, rq' = [rq EXCEPT ![r].via = v, ![r].pc = "lockAuth"], ent'[v].key = k
      PROVE  /\ Moved(r) /\ rq'[r].pc = "lockAuth" /\ rq'[r].via = v /\ rq'[r].pc \notin Holding
             /\ Via(r)' /\ SchemeKept(r)' /\ TokenKept(r)'
  <2>1. Moved(r) /\ rq'[r].pc = "lockAuth" /\ rq'[r].via = v /\ rq'[r].chal = rq[r].chal /\ cand(r)' = cand(r)
    <3> DEFINE x == [rq[r] EXCEPT !.via = v, !.pc = "lockAuth"]
    <3>1. /\ DOMAIN x = Fields /\ x.pc = "lockAuth" /\ x.via = v
          /\ x.chal = rq[r].chal /\ x.plan = rq[r].plan /\ x.i = rq[r].i
      BY DEF IInv, Shape, Fields
    <3>2. rq' = [rq EXCEPT ![r] = x]
      BY <1>3 DEF IInv, Shape
    <3> HIDE DEF x
    <3>3. QED
      BY <3>1, <3>2, SetRequest DEF cand
  <2>2. rq'[r].pc \notin Holding
    BY <2>1 DEF Holding
  <2>3. Via(r)'
    BY <2>1, ForwardingAssumption DEF Via
  <2>4. SchemeKept(r)'
    <3>1. v # None /\ AuthKey(cand(r), rq[r].chal.scheme)' = k
      BY <1>2, <2>1, ForwardingAssumption DEF AuthKey
    <3>2. QED
      BY <1>3, <2>1, <3>1 DEF SchemeKept
  <2>5. TokenKept(r)'
    BY <1>1, <2>1 DEF TokenKept
  <2>6. QED
    BY <2>1, <2>2, <2>3, <2>4, <2>5
<1>4. ASSUME k \in Keys(cache), rq' = [rq EXCEPT ![r].via = cache.entries[k], ![r].pc = "lockAuth"],
             cache' = cache, ent' = ent, rq[r].pc \notin Holding
      PROVE  IInv'
  <2>1. PICK v \in Entries : v = cache.entries[k] /\ ent[v].key = k
    BY <1>2, <1>4 DEF IInv, CacheSound
  <2>2. rq' = [rq EXCEPT ![r].via = v, ![r].pc = "lockAuth"]
    BY <1>4, <2>1
  <2>3. QED
    BY <1>1, <1>3, <1>4, <2>1, <2>2, Rests
<1>5. CASE SwitchScheme(r)
  <2>1. /\ cache' = Retired(rq[r].via) /\ ent' = Released(rq[r].via, r, TRUE)
        /\ rq' = [rq EXCEPT ![r].via = None, ![r].pc = "getPool"]
    BY <1>5 DEF SwitchScheme
  <2>2. Moved(r) /\ rq'[r].pc = "getPool" /\ rq'[r].via = None /\ rq'[r].chal = rq[r].chal
    BY <2>1, ForgetVia
  <2>3. Via(r)' /\ SchemeKept(r)' /\ rq'[r].pc \notin Holding
    BY <2>2 DEF Via, SchemeKept, Holding
  <2>4. TokenKept(r)'
    BY <1>1, <2>2 DEF TokenKept
  <2>5. QED
    BY <1>1, <2>1, <2>2, <2>3, <2>4, Rests
<1>6. CASE GetPool(r)
  <2>1. rq[r].pc = "getPool" /\ cache' = cache /\ ent' = ent
    BY <1>6 DEF GetPool, At
  <2>2. rq[r].pc \notin Holding
    BY <2>1 DEF Holding
  <2>3. CASE k \in Keys(cache)
    BY <1>4, <1>6, <2>1, <2>2, <2>3 DEF GetPool, Cached, k
  <2>4. CASE k \notin Keys(cache)
    <3>1. Go(r, "buildPool")
      BY <1>6, <2>4 DEF GetPool, Cached, k, Go
    <3>2. Moved(r) /\ rq'[r].pc = "buildPool" /\ rq'[r].via = rq[r].via /\ rq'[r].chal = rq[r].chal
      BY <3>1, GoRequest
    <3>3. Via(r)'
      BY <3>2 DEF IInv, Via
    <3>4. SchemeKept(r)' /\ rq'[r].pc \notin Holding
      BY <3>2 DEF SchemeKept, Holding
    <3>5. TokenKept(r)'
      BY <1>1, <3>2 DEF TokenKept
    <3>6. QED
      BY <1>1, <2>1, <2>2, <3>2, <3>3, <3>4, <3>5, Rests
  <2>5. QED
    BY <2>3, <2>4
<1>7. CASE BuildPool(r)
  <2>1. rq[r].pc \notin Holding
    BY <1>7 DEF BuildPool, At, Holding
  <2>2. CASE k \in Keys(cache)
    BY <1>4, <1>7, <2>1, <2>2 DEF BuildPool, Cached, k
  <2>3. CASE k \notin Keys(cache)
    <3>1. PICK e \in Unused : /\ ent' = [ent EXCEPT ![e] = NewEntry(k)] /\ cache' = InsertEntry(cache, k, e)
                              /\ rq' = [rq EXCEPT ![r].via = e, ![r].pc = "lockAuth"]
      BY <1>7, <2>3 DEF BuildPool, Cached, k
    <3>2. /\ e \in Entries /\ e \notin Range(cache.entries)
          /\ \A q \in Requests : rq[q].via # e
      BY DEF Unused
    <3>3. /\ ent' = [x \in Entries |-> ent'[x]] /\ \A x \in Entries : x # e => ent'[x] = ent[x]
          /\ ent'[e] = NewEntry(k)
      BY <3>1, <3>2 DEF IInv, Shape
    <3>4. DOMAIN ent'[e] = {"key", "auth", "lock", "conn"} /\ ent'[e].key = k /\ ent'[e].lock = None
      BY <3>3 DEF NewEntry
    <3>5. /\ Moved(r) /\ rq'[r].pc = "lockAuth" /\ rq'[r].via = e /\ rq'[r].pc \notin Holding
          /\ Via(r)' /\ SchemeKept(r)' /\ TokenKept(r)'
      BY <1>3, <3>1, <3>2, <3>4
    <3>6. /\ DOMAIN cache' = {"entries", "order"} /\ cache'.entries[k] = e
          /\ \A x \in Keys(cache') : x = k \/ (x \in Keys(cache) /\ cache'.entries[x] = cache.entries[x])
      BY <3>1, Inserted
    <3>7. CacheSound'
      <4>1. ASSUME NEW x \in Keys(cache), x[1] = "auth"
            PROVE  cache.entries[x] \in Entries /\ ent'[cache.entries[x]].key = x
        <5>1. cache.entries[x] \in Range(cache.entries)
          BY DEF Range, Keys
        <5>2. QED
          BY <3>2, <3>3, <4>1, <5>1 DEF IInv, CacheSound
      <4>2. QED
        BY <3>2, <3>4, <3>6, <4>1, SMTT(30) DEF CacheSound, Keys
    <3>8. Shape'
      BY <3>3, <3>4, <3>5, <3>6 DEF IInv, Shape, Moved
    <3>9. \A q \in Requests : ent[e].lock # q
      BY <3>2 DEF IInv, Locking, Holds
    <3>10. \A x \in Entries : ent[x].lock # r
      BY <2>1 DEF IInv, Locking, Holds
    <3>11. ASSUME NEW x \in Entries
           PROVE  /\ ent'[x].lock # r
                  /\ \A q \in Requests : q # r => (ent'[x].lock = q <=> ent[x].lock = q)
                  /\ ent[x].lock \in Requests \ {r} => ent'[x].conn = ent[x].conn
                  /\ ent'[x].key = ent[x].key \/ \A q \in Requests : rq[q].via # x
      BY <3>2, <3>3, <3>4, <3>9, <3>10, ForwardingAssumption
    <3>12. QED
      BY <1>1, <3>5, <3>7, <3>8, <3>11, StepSound DEF Moved
  <2>4. QED
    BY <2>2, <2>3
<1>8. QED
  BY <1>5, <1>6, <1>7

-----------------------------------------------------------------------------
(* The lock of the pooled transport is taken; the scheme is still its own. *)
LEMMA LockAuthSteps ==
  ASSUME IInv, NEW r \in Requests, LockAuth(r)
  PROVE  IInv'
<1> DEFINE v == rq[r].via
<1>1. /\ conf' = conf /\ cache' = cache /\ TakeLock(r) /\ rq[r].pc = "lockAuth" /\ v \in Entries /\ v # None
      /\ ~rq[r].chal.token /\ SchemeKept(r) /\ Shape
  BY DEF LockAuth, At, IInv, Via, TokenKept
<1>2. PICK y \in {"replay", "header"} : Go(r, y)
  BY DEF LockAuth
<1>3. Moved(r) /\ rq'[r].pc = y /\ rq'[r].via = v /\ rq'[r].chal = rq[r].chal /\ cand(r)' = cand(r)
  BY <1>2, GoRequest
<1> HIDE DEF v
<1>4. ent'[v].key = ent[v].key
  <2>1. ent' = [ent EXCEPT ![v] = [ent[v] EXCEPT !.lock = r]]
    BY <1>1 DEF TakeLock, v
  <2>2. ent'[v] = [ent[v] EXCEPT !.lock = r]
    BY <1>1, <2>1 DEF Shape
  <2>3. QED
    BY <1>1, <2>2 DEF Shape
<1>5. AuthKey(cand(r), rq[r].chal.scheme)' = AuthKey(cand(r), rq[r].chal.scheme)
  BY <1>3 DEF AuthKey
<1>6. SchemeKept(r)'
  BY <1>1, <1>3, <1>4, <1>5 DEF SchemeKept, v
<1>7. TokenKept(r)' /\ rq'[r].pc \in Holding /\ rq[r].pc \notin Holding
  BY <1>1, <1>3 DEF TokenKept, Holding
<1>8. QED
  BY <1>1, <1>3, <1>6, <1>7, LocksEntry DEF v

(* One attempt to authenticate, over the connection of the challenge. *)
LEMMA AuthSteps ==
  ASSUME IInv, NEW r \in Requests, Header(r) \/ AuthReply(r)
  PROVE  IInv'
<1>1. conf' = conf /\ rq[r].pc \in {"header", "authSend"} /\ rq[r].pc \in Holding /\ Shape
  BY DEF Header, AuthReply, At, Holding, IInv
<1>2. ASSUME Moved(r), rq'[r].pc = "leave", rq'[r].via = rq[r].via, Noted(r),
             cache' = cache \/ cache' = Retired(rq[r].via)
      PROVE  IInv'
  BY <1>1, <1>2, GoesOnPlainly
<1>3. CASE Header(r)
  <2>1. ent' = ent /\ Noted(r) /\ rq[r].pc = "header"
    BY <1>3, PlainlyNoted DEF Header, At
  <2>2. ASSUME NEW z, rq' = [rq EXCEPT ![r] = [Outbound(r) EXCEPT !.pc = "authSend", !.sess = z]], cache' = cache
        PROVE  IInv'
    <3> DEFINE w == Outbound(r)
               x == [w EXCEPT !.pc = "authSend", !.sess = z]
    <3>1. /\ DOMAIN w = Fields /\ w.via = rq[r].via /\ w.chal = rq[r].chal
          /\ w.plan = rq[r].plan /\ w.i = rq[r].i
      BY <1>1 DEF Shape, Fields, Outbound
    <3> HIDE DEF w
    <3>2. /\ DOMAIN x = Fields /\ x.pc = "authSend" /\ x.via = rq[r].via /\ x.chal = rq[r].chal
          /\ x.plan = rq[r].plan /\ x.i = rq[r].i
      BY <3>1 DEF Fields
    <3>3. rq' = [rq EXCEPT ![r] = x]
      BY <2>2 DEF w
    <3> HIDE DEF x
    <3>4. /\ Moved(r) /\ rq'[r].pc = "authSend" /\ rq'[r].via = rq[r].via /\ rq'[r].chal = rq[r].chal
          /\ cand(r)' = cand(r)
      BY <3>2, <3>3, SetRequest DEF cand
    <3>5. AuthKey(cand(r), rq[r].chal.scheme)' = AuthKey(cand(r), rq[r].chal.scheme)
      BY <3>4 DEF AuthKey
    <3>6. SchemeKept(r)'
      BY <1>1, <2>1, <3>4, <3>5 DEF IInv, SchemeKept
    <3>7. TokenKept(r)'
      BY <2>1, <3>4 DEF IInv, TokenKept
    <3>8. rq'[r].pc \in Holding
      BY <3>4 DEF Holding
    <3>9. QED
      BY <1>1, <2>1, <2>2, <3>4, <3>6, <3>7, <3>8, GoesOn DEF Noted
  <2>3. ASSUME NEW z, rq' = [rq EXCEPT ![r].pc = "leave", ![r].sess = z, ![r].src = None], cache' = Retired(rq[r].via)
        PROVE  IInv'
    <3> DEFINE x == [rq[r] EXCEPT !.pc = "leave", !.sess = z, !.src = None]
    <3>1. DOMAIN x = Fields /\ x.pc = "leave" /\ x.via = rq[r].via
      BY <1>1 DEF Shape, Fields
    <3>2. rq' = [rq EXCEPT ![r] = x]
      BY <1>1, <2>3 DEF Shape
    <3> HIDE DEF x
    <3>3. QED
      BY <1>2, <2>1, <2>3, <3>1, <3>2, SetRequest
  <2>4. CASE Go(r, "leave") /\ cache' = Retired(rq[r].via)
    BY <1>2, <2>1, <2>4, GoRequest
  <2>5. QED
    BY <1>3, <2>2, <2>3, <2>4 DEF Header
<1>4. CASE AuthReply(r)
  <2>1. CASE Go(r, "leave") /\ cache' = Retired(rq[r].via) /\ ent' = ent
    BY <1>2, <2>1, GoRequest, PlainlyNoted
  <2>2. CASE /\ rq' = [rq EXCEPT ![r].pc = "leave", ![r].src = rq[r].via]
             /\ ent' = AuthResult(rq[r].via, TRUE, None) /\ cache' = cache
    BY <1>2, <2>2, SrcRequest, AuthNoted
  <2>3. ASSUME NEW c \in Challenges \cup Tokens(r), Again(r, c),
               ent' = AuthResult(rq[r].via, FALSE, IF c.token THEN r ELSE None)
        PROVE  IInv'
    <3>1. rq[r].pc = "authSend" /\ Noted(r)
      BY <1>4, <2>3, AuthNoted DEF AuthReply, At
    <3>2. CASE c.token
      <4>1. c.scheme = rq[r].chal.scheme /\ c.scheme \in Connection
        BY <3>2, SMTT(30) DEF Challenges, Tokens
      <4>2. rq[r].via # None => ent'[rq[r].via].conn = r
        BY <2>3, <3>2, AuthNoted
      <4>3. QED
        BY <1>1, <2>3, <3>1, <4>1, <4>2, AgainSound
    <3>3. CASE ~c.token
      BY <1>1, <2>3, <3>1, <3>3, AgainSound
    <3>4. QED
      BY <3>2, <3>3
  <2>4. QED
    BY <1>4, <2>1, <2>2, <2>3 DEF AuthReply
<1>5. QED
  BY <1>3, <1>4

(* The loop is left: unlocked first. *)
LEMMA LeaveSteps ==
  ASSUME IInv, NEW r \in Requests, Leave(r)
  PROVE  IInv'
<1> DEFINE y == IF rq[r].sess = "none" THEN "finish" ELSE "close"
           v == IF rq[r].sess = "none" THEN None ELSE rq[r].via
           x == [NewRequest EXCEPT !.pc = y, !.sess = rq[r].sess, !.src = rq[r].src, !.via = v]
<1>1. y \in Plain /\ v \in {None, rq[r].via} /\ rq' = [rq EXCEPT ![r] = x]
  BY DEF Leave, Plain
<1> HIDE DEF y, v
<1>2. Moved(r) /\ rq'[r].pc \in Plain /\ rq'[r].via \in {None, rq[r].via}
  <2>1. DOMAIN x = Fields /\ x.pc = y /\ x.via = v
    BY DEF NewRequest, Fields
  <2> HIDE DEF x
  <2>2. QED
    BY <1>1, <2>1, SetRequest
<1>3. conf' = conf /\ cache' = cache /\ ent' = Released(rq[r].via, r, TRUE)
  BY DEF Leave
<1>4. QED
  BY <1>2, <1>3, RestsPlainly

(* Clearing the cache leaves those who use its entries alone. *)
LEMMA ClearSteps ==
  ASSUME IInv, ClearTransports
  PROVE  IInv'
<1>1. conf' = conf /\ rq' = rq /\ ent' = ent /\ cache' = EmptyCache
  BY DEF ClearTransports
<1>2. CacheSound' /\ DOMAIN cache' = {"entries", "order"}
  BY <1>1 DEF EmptyCache, CacheSound, Keys
<1>3. Shape' /\ Locking'
  BY <1>1, <1>2 DEF IInv, Shape, Locking, Holds
<1>4. ASSUME NEW r \in Requests PROVE Via(r)' /\ SchemeKept(r)' /\ TokenKept(r)'
  <2>1. Via(r) /\ SchemeKept(r) /\ TokenKept(r)
    BY DEF IInv
  <2>2. Via(r)' /\ TokenKept(r)'
    BY <1>1, <2>1 DEF Via, TokenKept
  <2>3. SchemeKept(r)'
    BY <1>1, <2>1 DEF SchemeKept, cand, AuthKey
  <2>4. QED
    BY <2>2, <2>3
<1>5. QED
  BY <1>2, <1>3, <1>4 DEF IInv

(* IInv holds at first ... *)
LEMMA InitInv == Init => IInv
<1> SUFFICES ASSUME Init PROVE IInv
  OBVIOUS
<1>1. /\ rq = [r \in Requests |-> NewRequest] /\ cache = EmptyCache /\ ent = [e \in Entries |-> NewEntry(None)]
  BY DEF Init
<1>2. \A r \in Requests : DOMAIN rq[r] = Fields /\ rq[r].pc = "route" /\ rq[r].via = None
  BY <1>1 DEF NewRequest, Fields
<1>3. \A e \in Entries : DOMAIN ent[e] = {"key", "auth", "lock", "conn"} /\ ent[e].lock = None
  BY <1>1 DEF NewEntry
<1>4. Shape /\ CacheSound
  BY <1>1, <1>2, <1>3 DEF Shape, CacheSound, EmptyCache, Keys
<1>5. Locking
  BY <1>2, <1>3, ForwardingAssumption DEF Locking, Holds, Holding
<1>6. ASSUME NEW r \in Requests PROVE Via(r) /\ SchemeKept(r) /\ TokenKept(r)
  BY <1>2 DEF Via, SchemeKept, TokenKept
<1>7. QED
  BY <1>4, <1>5, <1>6 DEF IInv

(* ... and after every step. *)
LEMMA NextInv == IInv /\ [Next]_vars => IInv'
<1> SUFFICES ASSUME IInv, [Next]_vars PROVE IInv'
  OBVIOUS
<1>1. ASSUME NEW r \in Requests, Step(r) PROVE IInv'
  BY <1>1, PlainSteps, TrySteps, LockPooledSteps, RouteSteps, SendSteps, PoolSteps, LockAuthSteps,
     ReplaySteps, AuthSteps, LeaveSteps DEF Step
<1>2. CASE UNCHANGED vars
  <2>1. conf' = conf /\ rq' = rq /\ ent' = ent /\ cache' = cache
    BY <1>2 DEF vars
  <2>2. Shape' /\ Locking' /\ CacheSound'
    BY <2>1 DEF IInv, Shape, Locking, Holds, CacheSound, Keys
  <2>3. ASSUME NEW r \in Requests PROVE Via(r)' /\ SchemeKept(r)' /\ TokenKept(r)'
    BY <2>1 DEF IInv, Via, SchemeKept, TokenKept, cand, AuthKey
  <2>4. QED
    BY <2>2, <2>3 DEF IInv
<1>3. QED
  BY <1>1, <1>2, ClearSteps DEF Next

(* The connection of a pooled transport (transport.go) belongs to whoever  *)
(* holds its authMu, for any number of requests, entries and candidates.   *)
THEOREM PooledIsExclusive == Spec => []PooledExclusive
<1>1. IInv => PooledExclusive
  <2> SUFFICES ASSUME IInv, NEW r \in Requests, rq[r].via # None,
                      rq[r].pc \in {"send", "authSend", "replaySend"}
               PROVE  /\ ent[rq[r].via].lock = r
                      /\ At(r, "authSend") /\ rq[r].chal.token => ent[rq[r].via].conn = r
    BY DEF PooledExclusive
  <2>1. rq[r].via \in Entries /\ Holds(r, rq[r].via)
    BY DEF IInv, Via, Holds, Holding
  <2>2. QED
    BY <2>1 DEF IInv, Locking, TokenKept, At
<1>2. QED
  BY <1>1, InitInv, NextInv, PTL DEF Spec

-----------------------------------------------------------------------------
(* Nobody waits in a circle. *)

(* Where a request has no response left to read ... *)
Clean == {"route", "capture", "try", "lockPooled", "send", "authSend", "replaySend"}

(* ... and an entry that can no longer be found in the cache. *)
Dead(e) == \A k \in Keys(cache) : k[1] = "auth" => cache.entries[k] # e

(* A request that looks for another entry has a response to read only from *)
(* one that it has retired.                                                *)
Src(r) ==
  /\ rq[r].pc \in Clean => rq[r].src = None
  /\ rq[r].pc = "switch" => rq[r].src = rq[r].via
  /\ rq[r].pc \in {"getPool", "buildPool", "lockAuth"} => rq[r].src = None \/ Dead(rq[r].src)

(* r keeps the connection of e and waits for the lock of an entry in C. *)
Crosses(r, e, C) == rq[r].pc = "lockAuth" /\ rq[r].src = e /\ rq[r].via \in C

(* No set of entries is such that each keeps somebody from another. *)
NoCrossing ==
  \A C \in SUBSET Entries : C # {} => \E e \in C : \A r \in Requests : ~Crosses(r, e, C)

WInv == IInv /\ NoCrossing /\ \A r \in Requests : Src(r)

(* What x needs is in the hands of y: authMu of the entry, or its single   *)
(* connection, on which y has not read the last response.                  *)
WaitsFor(x, y) ==
  \/ rq[x].pc \in {"lockPooled", "lockAuth"} /\ ent[rq[x].via].lock = y
  \/ rq[x].pc \in {"send", "authSend", "replaySend"} /\ rq[x].via # None /\ rq[y].src = rq[x].via

(* Whatever requests are under way, one of them waits for none of the      *)
(* others.                                                                 *)
NoWaitCycle == \A W \in SUBSET Requests : W # {} => \E x \in W : \A y \in W : ~WaitsFor(x, y)

(* No entry becomes reachable. *)
Fewer ==
  \A k \in Keys(cache') : k[1] = "auth" => k \in Keys(cache) /\ cache'.entries[k] = cache.entries[k]

LEMMA CacheFewer ==
  ASSUME IInv, NEW x, NEW c,
         \/ cache' \in {cache, EmptyCache, Retired(x)}
         \/ cache' = InsertEntry(cache, RouteKey(c), None)
  PROVE  Fewer
<1>1. CASE cache' \in {cache, EmptyCache}
  BY <1>1 DEF EmptyCache, Fewer, Keys
<1>2. CASE cache' = RemoveEntry(cache, ent[x].key, x)
  <2> DEFINE k == ent[x].key
  <2>1. CASE cache' = [cache EXCEPT !.entries = Restrict(cache.entries, Keys(cache) \ {k})]
    <3> DEFINE f == Restrict(cache.entries, Keys(cache) \ {k})
    <3>1. DOMAIN f = Keys(cache) \ {k} /\ \A y \in DOMAIN f : f[y] = cache.entries[y]
      BY DEF Restrict
    <3> HIDE DEF f
    <3>2. cache'.entries = f
      BY <2>1 DEF IInv, Shape, f
    <3> QED
      BY <3>1, <3>2 DEF Fewer, Keys
  <2> QED
    BY <1>1, <1>2, <2>1 DEF RemoveEntry
<1>3. CASE cache' = InsertEntry(cache, RouteKey(c), None)
  <2> DEFINE k == RouteKey(c)
  <2>1. k[1] = "route"
    BY DEF RouteKey
  <2>2. \A y \in Keys(cache') : y = k \/ (y \in Keys(cache) /\ cache'.entries[y] = cache.entries[y])
    BY <1>3, Inserted
  <2> HIDE DEF k
  <2> QED
    BY <2>1, <2>2 DEF Fewer
<1> QED
  BY <1>1, <1>2, <1>3 DEF Retired

(* A request that is not at the lock of a second entry crosses nobody. *)
LEMMA StaysClear ==
  ASSUME NoCrossing, NEW r \in Requests, Moved(r), rq'[r].pc # "lockAuth"
  PROVE  NoCrossing'
<1>1. ASSUME NEW C \in SUBSET Entries, C # {} PROVE \E e \in C : \A q \in Requests : ~Crosses(q, e, C)'
  <2>1. PICK e \in C : \A q \in Requests : ~Crosses(q, e, C)
    BY <1>1 DEF NoCrossing
  <2>2. \A q \in Requests : ~Crosses(q, e, C)'
    BY <2>1 DEF Crosses, Moved
  <2> QED
    BY <2>2
<1> QED
  BY <1>1 DEF NoCrossing

(* Most steps leave r without a claim on a second entry. *)
Calm(r) ==
  /\ rq'[r].pc \notin {"buildPool", "lockAuth"}
  /\ rq'[r].pc \in Clean \cup {"getPool"} => rq'[r].src = None
  /\ rq'[r].pc = "switch" => rq'[r].src = rq'[r].via

LEMMA CalmSound ==
  ASSUME WInv, NEW r \in Requests, Moved(r), Calm(r), Fewer
  PROVE  NoCrossing' /\ \A q \in Requests : Src(q)'
<1>1. \A e : Dead(e) => Dead(e)'
  BY DEF Dead, Fewer
<1>2. \A q \in Requests : Src(q)'
  BY <1>1 DEF WInv, Moved, Calm, Src, Clean
<1>3. NoCrossing'
  BY StaysClear DEF WInv, Calm
<1> QED
  BY <1>2, <1>3

(* r may join the queue of an entry that can be found: nobody at a lock    *)
(* has a response to read from that one.                                   *)
LEMMA JoinSound ==
  ASSUME WInv, NEW r \in Requests, Moved(r), NEW k \in Keys(cache'), k[1] = "auth",
         NEW v \in Entries, cache'.entries[k] = v, rq'[r].via = v, \A q \in Requests : Src(q)'
  PROVE  NoCrossing'
<1>1. \A q \in Requests : rq'[q].pc = "lockAuth" => rq'[q].src # v
  BY ForwardingAssumption DEF Src, Dead
<1>2. ASSUME NEW C \in SUBSET Entries, C # {} PROVE \E e \in C : \A q \in Requests : ~Crosses(q, e, C)'
  <2>1. CASE v \in C
    BY <1>1, <2>1 DEF Crosses
  <2>2. CASE v \notin C
    <3>1. PICK e \in C : \A q \in Requests : ~Crosses(q, e, C)
      BY <1>2 DEF WInv, NoCrossing
    <3>2. \A q \in Requests : ~Crosses(q, e, C)'
      BY <2>2, <3>1 DEF Crosses, Moved
    <3> QED
      BY <3>2
  <2> QED
    BY <2>1, <2>2
<1> QED
  BY <1>2 DEF NoCrossing

(* A step of r changes the record of r only. *)
LEMMA StepMoves ==
  ASSUME IInv, IInv', NEW r \in Requests, Step(r)
  PROVE  Moved(r)
<1> SUFFICES ASSUME NEW q \in Requests, q # r PROVE rq'[q] = rq[q]
  BY DEF IInv, Shape, Moved
<1> rq = [p \in Requests |-> rq[p]]
  BY DEF IInv, Shape
<1>1. ASSUME NextCandidate(r) \/ Answered(r) \/ \E y : Go(r, y) PROVE rq'[q] = rq[q]
  BY <1>1 DEF NextCandidate, Answered, Go
<1>2. ASSUME NEW c, Again(r, c) \/ \E n : Challenged(r, c, n) PROVE rq'[q] = rq[q]
  BY <1>2 DEF Again, Challenged
<1>3. CASE FindProxy(r) \/ Capture(r) \/ CaptureEnds(r) \/ CaptureError(r) \/ Finish(r)
  BY <1>1, <1>3 DEF FindProxy, Capture, CaptureEnds, CaptureError, Finish
<1>4. CASE Try(r) \/ LockPooled(r) \/ Transport(r) \/ Build(r) \/ Open(r)
  BY <1>1, <1>4 DEF Try, LockPooled, Transport, Build, Open
<1>5. CASE SendFails(r) \/ Response(r) \/ Response407(r)
  BY <1>1, <1>2, <1>5 DEF SendFails, Response, Response407
<1>6. CASE SwitchScheme(r) \/ GetPool(r) \/ BuildPool(r) \/ LockAuth(r)
  BY <1>1, <1>6 DEF SwitchScheme, GetPool, BuildPool, LockAuth
<1>7. CASE Replay(r) \/ ReplayReply(r)
  BY <1>1, <1>2, <1>7 DEF Replay, ReplayReply
<1>8. CASE Header(r) \/ AuthReply(r)
  BY <1>1, <1>2, <1>8 DEF Header, AuthReply
<1>9. CASE Leave(r) \/ CloseSession(r)
  BY <1>9 DEF Leave, CloseSession
<1>10. CASE Dial(r) \/ Handshake(r) \/ ConnectReply(r) \/ Connected(r)
  BY <1>1, <1>10 DEF Dial, Handshake, ConnectReply, Connected
<1> QED
  BY <1>3, <1>4, <1>5, <1>6, <1>7, <1>8, <1>9, <1>10 DEF Step

(* The places that say nothing of a response still to be read. *)
Free == {"transport", "build", "open", "header", "replay", "leave", "close", "handshake", "connectSend",
         "connected", "finish", "done"}

LEMMA CalmSteps ==
  ASSUME WInv, NEW r \in Requests, Step(r), ~(SwitchScheme(r) \/ GetPool(r) \/ BuildPool(r))
  PROVE  Calm(r)
<1>1. /\ rq = [p \in Requests |-> rq[p]] /\ DOMAIN rq[r] = Fields
      /\ Via(r) /\ Src(r)
  BY DEF WInv, IInv, Shape
<1>2. ASSUME rq'[r].pc \in Free PROVE Calm(r)
  BY <1>2 DEF Free, Calm, Clean
<1>3. ASSUME rq'[r].pc \in Clean, rq'[r].src = None PROVE Calm(r)
  BY <1>3 DEF Clean, Calm
<1>4. ASSUME NEW y \in Free, Go(r, y) PROVE Calm(r)
  BY <1>1, <1>2, <1>4 DEF Go, Fields
<1>5. ASSUME NextCandidate(r) \/ Answered(r) PROVE Calm(r)
  <2>1. rq'[r].pc \in Free \/ (rq'[r].pc = "try" /\ rq'[r].src = None)
    BY <1>1, <1>5, ZenonT(30) DEF NextCandidate, Answered, NewRequest, Fields, Free
  <2> QED
    BY <1>2, <1>3, <2>1 DEF Clean
<1>6. ASSUME NEW c, NEW n, Challenged(r, c, n) PROVE Calm(r)
  <2>1. Selected(r, c) \in {"header", "switch"} \/ (Selected(r, c) = "getPool" /\ rq[r].via = None)
    BY DEF Selected
  <2>2. rq'[r].pc = Selected(r, c) /\ rq'[r].src = rq[r].via /\ rq'[r].via = rq[r].via
    BY <1>1, <1>6 DEF Challenged, Fields
  <2> QED
    BY <2>1, <2>2 DEF Calm, Clean
<1>7. ASSUME NEW c, Again(r, c) PROVE Calm(r)
  <2>1. CASE rq' = [rq EXCEPT ![r].pc = "leave", ![r].src = rq[r].via]
    BY <1>1, <1>2, <2>1 DEF Fields, Free
  <2> QED
    BY <1>6, <1>7, <2>1 DEF Again
<1>8. ASSUME NEW y \in Clean, NEW z, rq' = [rq EXCEPT ![r] = [Outbound(r) EXCEPT !.pc = y, !.sess = z]]
      PROVE  Calm(r)
  <2> DEFINE w == Outbound(r)
             x == [w EXCEPT !.pc = y, !.sess = z]
  <2>1. DOMAIN w = Fields /\ w.src = None
    BY <1>1 DEF Outbound, Fields
  <2>2. rq' = [rq EXCEPT ![r] = x]
    BY <1>8
  <2> HIDE DEF w
  <2>3. x.pc = y /\ x.src = None
    BY <2>1 DEF Fields
  <2> HIDE DEF x
  <2> QED
    BY <1>1, <1>3, <2>2, <2>3
<1>9. ASSUME NEW y \in Clean, rq' = [rq EXCEPT ![r] = [Outbound(r) EXCEPT !.pc = y]]
      PROVE  Calm(r)
  <2> DEFINE w == Outbound(r)
             x == [w EXCEPT !.pc = y]
  <2>1. DOMAIN w = Fields /\ w.src = None
    BY <1>1 DEF Outbound, Fields
  <2>2. rq' = [rq EXCEPT ![r] = x]
    BY <1>9
  <2> HIDE DEF w
  <2>3. x.pc = y /\ x.src = None
    BY <2>1 DEF Fields
  <2> HIDE DEF x
  <2> QED
    BY <1>1, <1>3, <2>2, <2>3
<1>10. CASE FindProxy(r)
  <2>1. CASE Go(r, "finish")
    BY <1>4, <2>1 DEF Free
  <2>2. rq[r].src = None
    BY <1>1, <1>10 DEF FindProxy, At, Src, Clean
  <2>3. ASSUME NEW p, NEW y \in {"capture", "try"}, rq' = [rq EXCEPT ![r].plan = p, ![r].pc = y] PROVE Calm(r)
    BY <1>1, <1>3, <2>2, <2>3 DEF Fields, Clean
  <2>4. ASSUME NEW p, rq' = [rq EXCEPT ![r].plan = p, ![r].kind = "connect", ![r].pc = "try"] PROVE Calm(r)
    BY <1>1, <1>3, <2>2, <2>4 DEF Fields, Clean
  <2> QED
    BY <1>10, <2>1, <2>3, <2>4 DEF FindProxy
<1>11. CASE Capture(r)
  BY <1>1, <1>3, <1>11 DEF Capture, At, Src, Clean
<1>12. CASE CaptureEnds(r)
  <2>1. rq[r].src = None
    BY <1>1, <1>12 DEF CaptureEnds, At, Src, Clean
  <2>2. rq'[r].pc = "try" /\ rq'[r].src = rq[r].src
    BY <1>1, <1>12 DEF CaptureEnds, Go, Fields
  <2> QED
    BY <1>3, <2>1, <2>2 DEF Clean
<1>13. CASE Try(r)
  <2>1. rq[r].src = None
    BY <1>1, <1>13 DEF Try, At, Src, Clean
  <2>2. rq'[r].pc \in {"lockPooled", "transport"} /\ rq'[r].src = rq[r].src
    BY <1>1, <1>13, ZenonT(30) DEF Try, Fields
  <2> QED
    BY <1>2, <1>3, <2>1, <2>2 DEF Clean, Free
<1>14. CASE CaptureError(r) \/ Transport(r) \/ Build(r) \/ LockAuth(r)
  BY <1>4, <1>14 DEF CaptureError, Transport, Build, LockAuth, Free
<1>15. CASE LockPooled(r)
  <2>1. CASE rq' = [rq EXCEPT ![r].via = None, ![r].pc = "transport"]
    BY <1>1, <1>2, <2>1 DEF Free, Fields
  <2> QED
    BY <1>4, <1>15, <2>1 DEF LockPooled, Free
<1>16. CASE Finish(r) \/ Connected(r) \/ Leave(r)
  <2>1. CASE Finish(r) \/ Connected(r)
    BY <1>1, <1>2, <2>1 DEF Finish, Connected, NewRequest, Free
  <2>2. CASE Leave(r)
    <3>1. rq'[r].pc \in {"finish", "close"}
      BY <1>1, <2>2 DEF Leave, NewRequest
    <3> QED
      BY <1>2, <3>1 DEF Free
  <2> QED
    BY <1>16, <2>1, <2>2
<1>17. CASE Open(r) \/ SendFails(r) \/ Response(r) \/ Response407(r)
  BY <1>5, <1>6, <1>9, <1>17 DEF Open, SendFails, Response, Response407, Clean
<1>18. ASSUME NEW z, rq' = [rq EXCEPT ![r].pc = "leave", ![r].src = z] PROVE Calm(r)
  BY <1>1, <1>2, <1>18 DEF Free, Fields
<1>19. CASE Replay(r) \/ ReplayReply(r)
  BY <1>4, <1>7, <1>9, <1>18, <1>19 DEF Replay, ReplayReply, Clean, Free
<1>20. CASE Header(r)
  <2>1. ASSUME NEW z, rq' = [rq EXCEPT ![r].pc = "leave", ![r].sess = z, ![r].src = None] PROVE Calm(r)
    BY <1>1, <1>2, <2>1 DEF Free, Fields
  <2> QED
    BY <1>4, <1>8, <1>20, <2>1 DEF Header, Clean, Free
<1>21. CASE AuthReply(r)
  BY <1>4, <1>7, <1>18, <1>21 DEF AuthReply, Free
<1>22. CASE CloseSession(r)
  <2>1. rq'[r].pc = "finish"
    BY <1>1, <1>22 DEF CloseSession, Fields
  <2> QED
    BY <1>2, <2>1 DEF Free
<1>23. CASE Dial(r) \/ Handshake(r) \/ ConnectReply(r)
  <2>1. CASE Dial(r) /\ ~NextCandidate(r)
    <3>1. rq'[r].pc \in {"connected", "handshake"}
      BY <1>1, <2>1 DEF Dial, Fields
    <3> QED
      BY <1>2, <3>1 DEF Free
  <2>2. CASE Handshake(r)
    BY <1>4, <1>5, <2>2 DEF Handshake, Free
  <2>3. CASE ConnectReply(r) /\ ~NextCandidate(r)
    <3>1. rq'[r].pc \in {"connected", "connectSend"}
      BY <1>1, <2>3, ZenonT(30) DEF ConnectReply, At, Fields
    <3> QED
      BY <1>2, <3>1 DEF Free
  <2> QED
    BY <1>5, <1>23, <2>1, <2>2, <2>3
<1> QED
  BY <1>10, <1>11, <1>12, <1>13, <1>14, <1>15, <1>16, <1>17, <1>19, <1>20, <1>21, <1>22, <1>23 DEF Step

(* An entry that is retired is under no key any more. *)
Gone(e) == \A k \in Keys(cache') : k[1] = "auth" => cache'.entries[k] # e

LEMMA RetiredIsGone ==
  ASSUME IInv, NEW e \in Entries, cache' = Retired(e)
  PROVE  Gone(e)
<1> DEFINE k == ent[e].key
<1>1. cache' = RemoveEntry(cache, k, e) /\ Shape /\ CacheSound
  BY ForwardingAssumption DEF Retired, IInv
<1>2. CASE Cached(cache, k) /\ cache.entries[k] = e
  <2> DEFINE f == Restrict(cache.entries, Keys(cache) \ {k})
  <2>1. DOMAIN f = Keys(cache) \ {k} /\ \A y \in DOMAIN f : f[y] = cache.entries[y]
    BY DEF Restrict
  <2>2. cache' = [cache EXCEPT !.entries = f]
    BY <1>1, <1>2 DEF RemoveEntry
  <2> HIDE DEF f
  <2>3. cache'.entries = f
    BY <1>1, <2>2 DEF Shape
  <2> QED
    BY <1>1, <2>1, <2>3 DEF CacheSound, Gone, Keys
<1>3. CASE ~(Cached(cache, k) /\ cache.entries[k] = e)
  BY <1>1, <1>3 DEF RemoveEntry, CacheSound, Cached, Gone
<1> QED
  BY <1>2, <1>3

(* Giving up an entry for another scheme makes it unreachable, and only    *)
(* what is reachable is waited for.                                        *)
LEMMA PoolWaits ==
  ASSUME WInv, IInv', NEW r \in Requests, SwitchScheme(r) \/ GetPool(r) \/ BuildPool(r), Moved(r)
  PROVE  NoCrossing' /\ \A q \in Requests : Src(q)'
<1> DEFINE k == poolKey(r)
<1>1. /\ rq = [p \in Requests |-> rq[p]] /\ DOMAIN rq[r] = Fields
      /\ CacheSound /\ Via(r) /\ Src(r) /\ k[1] = "auth"
  BY DEF WInv, IInv, Shape, poolKey, AuthKey
<1> HIDE DEF k
<1>2. ASSUME NEW v \in Entries, rq'[r].pc = "lockAuth", rq'[r].via = v, rq'[r].src = rq[r].src,
             k \in Keys(cache'), cache'.entries[k] = v, rq[r].src = None \/ Gone(rq[r].src),
             \A q \in Requests : Dead(rq[q].src) => Gone(rq[q].src)
      PROVE  NoCrossing' /\ \A q \in Requests : Src(q)'
  <2>1. \A q \in Requests : Src(q)'
    BY <1>2 DEF WInv, Src, Moved, Clean, Dead, Gone
  <2> QED
    BY <1>1, <1>2, <2>1, JoinSound
<1>3. CASE SwitchScheme(r)
  <2>1. rq'[r].pc = "getPool" /\ rq'[r].src = rq[r].via
    BY <1>1, <1>3 DEF SwitchScheme, At, Src, Fields
  <2>2. Fewer /\ cache' = Retired(rq[r].via)
    BY <1>3, CacheFewer DEF SwitchScheme, WInv
  <2>3. rq[r].via = None \/ Gone(rq[r].via)
    BY <1>1, <2>2, RetiredIsGone DEF Via, WInv
  <2>4. \A e : Dead(e) => Dead(e)'
    BY <2>2 DEF Dead, Fewer
  <2>5. Src(r)'
    BY <2>1, <2>3 DEF Src, Clean, Dead, Gone
  <2>6. ASSUME NEW q \in Requests, q # r PROVE Src(q)'
    BY <2>4, <2>6 DEF WInv, Src, Moved
  <2> QED
    BY <2>1, <2>5, <2>6, StaysClear DEF WInv
<1>4. CASE GetPool(r) /\ ~Cached(cache, k)
  <2>1. rq'[r].pc = "buildPool" /\ rq'[r].src = rq[r].src /\ cache' = cache /\ rq[r].pc = "getPool"
    BY <1>1, <1>4 DEF GetPool, At, Fields, k
  <2>2. \A q \in Requests : Src(q)'
    BY <1>1, <2>1 DEF WInv, Src, Moved, Clean, Dead
  <2> QED
    BY <2>1, <2>2, StaysClear DEF WInv
<1>5. CASE (GetPool(r) \/ BuildPool(r)) /\ Cached(cache, k)
  <2>1. cache' = cache /\ rq' = [rq EXCEPT ![r].via = cache.entries[k], ![r].pc = "lockAuth"]
    BY <1>5 DEF GetPool, BuildPool, k
  <2>2. rq'[r].pc = "lockAuth" /\ rq'[r].via = cache.entries[k] /\ rq'[r].src = rq[r].src
    BY <1>1, <2>1 DEF Fields
  <2>3. rq[r].src = None \/ Dead(rq[r].src)
    BY <1>1, <1>5 DEF GetPool, BuildPool, At, Src
  <2>4. \A e : Dead(e) => Gone(e)
    BY <2>1 DEF Dead, Gone
  <2>5. k \in Keys(cache) /\ cache.entries[k] \in Entries
    BY <1>1, <1>5 DEF Cached, CacheSound
  <2> QED
    BY <1>2, <2>1, <2>2, <2>3, <2>4, <2>5
<1>6. CASE BuildPool(r) /\ ~Cached(cache, k)
  <2>1. PICK e \in Unused : /\ cache' = InsertEntry(cache, k, e)
                            /\ rq' = [rq EXCEPT ![r].via = e, ![r].pc = "lockAuth"]
    BY <1>6 DEF BuildPool, k
  <2>2. e \in Entries /\ \A q \in Requests : rq[q].src # e
    BY DEF Unused
  <2>3. rq'[r].pc = "lockAuth" /\ rq'[r].via = e /\ rq'[r].src = rq[r].src
    BY <1>1, <2>1 DEF Fields
  <2>4. rq[r].src = None \/ Dead(rq[r].src)
    BY <1>1, <1>6 DEF BuildPool, At, Src
  <2>5. /\ k \in Keys(cache') /\ cache'.entries[k] = e
        /\ \A y \in Keys(cache') : y = k \/ (y \in Keys(cache) /\ cache'.entries[y] = cache.entries[y])
    BY <2>1, Inserted
  <2>6. \A q \in Requests : Dead(rq[q].src) => Gone(rq[q].src)
    BY <2>2, <2>5 DEF Dead, Gone
  <2> QED
    BY <1>2, <2>2, <2>3, <2>4, <2>5, <2>6
<1> QED
  BY <1>3, <1>4, <1>5, <1>6

(* What a step does to the cache. *)
LEMMA CacheSteps ==
  ASSUME NEW r \in Requests, Step(r)
  PROVE  \/ cache' \in {cache, Retired(rq[r].via)}
         \/ cache' = InsertEntry(cache, RouteKey(cand(r)), None)
         \/ BuildPool(r) /\ \E e \in Unused : cache' = InsertEntry(cache, poolKey(r), e)
BY DEF Step, FindProxy, Capture, CaptureEnds, CaptureError, Finish, Try, LockPooled, Transport, Build, Open,
  SendFails, Response, Response407, SwitchScheme, GetPool, BuildPool, LockAuth, Replay, ReplayReply, Again,
  Header, AuthReply, Leave, CloseSession, Dial, Handshake, ConnectReply, Connected

LEMMA WaitStep ==
  ASSUME WInv, IInv', [Next]_vars
  PROVE  NoCrossing' /\ \A q \in Requests : Src(q)'
<1>1. ASSUME NEW r \in Requests, Step(r) PROVE NoCrossing' /\ \A q \in Requests : Src(q)'
  <2>1. Moved(r)
    BY <1>1, StepMoves DEF WInv
  <2>2. CASE SwitchScheme(r) \/ GetPool(r) \/ BuildPool(r)
    BY <2>1, <2>2, PoolWaits
  <2>3. CASE ~(SwitchScheme(r) \/ GetPool(r) \/ BuildPool(r))
    <3>1. Calm(r)
      BY <1>1, <2>3, CalmSteps
    <3>2. \/ cache' \in {cache, Retired(rq[r].via)}
          \/ cache' = InsertEntry(cache, RouteKey(cand(r)), None)
      BY <1>1, <2>3, CacheSteps
    <3>3. Fewer
      BY <3>2, CacheFewer DEF WInv
    <3> QED
      BY <2>1, <3>1, <3>3, CalmSound
  <2> QED
    BY <2>2, <2>3
<1>2. CASE rq' = rq /\ cache' \in {cache, EmptyCache}
  <2>1. Fewer
    BY <1>2, CacheFewer DEF WInv
  <2>2. \A e : Dead(e) => Dead(e)'
    BY <2>1 DEF Dead, Fewer
  <2>3. \A q \in Requests : Src(q)'
    BY <1>2, <2>2 DEF WInv, Src
  <2>4. NoCrossing'
    BY <1>2 DEF WInv, NoCrossing, Crosses
  <2> QED
    BY <2>3, <2>4
<1> QED
  BY <1>1, <1>2 DEF Next, ClearTransports, vars

(* Nobody waits in a circle for authMu and the single connections of the   *)
(* pooled transports, for any number of requests and entries: also when no *)
(* timeout ends a round trip, some request can always go on.  A request    *)
(* that keeps the response of one entry while it waits for the lock of     *)
(* another (the scheme of retryHTTPProxyAuthWithPool has changed) has      *)
(* removed the first one from the cache before, so that nobody comes to it *)
(* any more; this order is what the proof needs.                           *)
THEOREM NobodyWaitsInACircle == Spec => []NoWaitCycle
<1>1. WInv => NoWaitCycle
  <2> SUFFICES ASSUME WInv, NEW W \in SUBSET Requests, W # {},
                      \A x \in W : \E y \in W : WaitsFor(x, y)
               PROVE  FALSE
    BY DEF NoWaitCycle
  <2> DEFINE Kept(e) == \E z \in W : rq[z].pc = "lockAuth" /\ rq[z].src = e
             C == {e \in Entries : Kept(e)}
  <2>1. ASSUME NEW e \in Entries, NEW z \in W, rq[z].src = e PROVE e \in C
    <3>1. PICK y \in W : WaitsFor(z, y)
      OBVIOUS
    <3>2. rq[z].pc = "lockAuth"
      BY <2>1, <3>1, ForwardingAssumption DEF WaitsFor, WInv, Src, Clean
    <3> QED
      BY <2>1, <3>2
  <2>2. ASSUME NEW x \in W, rq[x].pc \in {"send", "authSend", "replaySend"} PROVE rq[x].via \in C
    <3>1. PICK z \in W : WaitsFor(x, z)
      OBVIOUS
    <3>2. rq[x].via # None /\ rq[z].src = rq[x].via
      BY <2>2, <3>1 DEF WaitsFor
    <3>3. rq[x].via \in Entries
      BY <3>2 DEF WInv, IInv, Via
    <3> QED
      BY <2>1, <3>2, <3>3
  <2>3. ASSUME NEW x \in W, rq[x].pc \in {"lockPooled", "lockAuth"} PROVE rq[x].via \in C
    <3>1. PICK y \in W : WaitsFor(x, y)
      OBVIOUS
    <3>2. rq[x].via \in Entries /\ ent[rq[x].via].lock = y
      BY <2>3, <3>1 DEF WaitsFor, WInv, IInv, Via
    <3>3. rq[y].via = rq[x].via /\ rq[y].pc \in Holding
      BY <3>2, SMTT(30) DEF WInv, IInv, Locking, Holds
    <3>4. PICK z \in W : WaitsFor(y, z)
      OBVIOUS
    <3>5. rq[y].pc \in {"send", "authSend", "replaySend"}
      BY <3>3, <3>4 DEF WaitsFor, Holding
    <3> QED
      BY <2>2, <3>3, <3>5
  <2>4. C # {}
    <3>1. PICK x \in W : TRUE
      OBVIOUS
    <3>2. PICK y \in W : WaitsFor(x, y)
      OBVIOUS
    <3> HIDE DEF C
    <3> QED
      BY <2>2, <2>3, <3>2 DEF WaitsFor
  <2>5. C \in SUBSET Entries
    OBVIOUS
  <2>6. ASSUME NEW e \in C PROVE \E r \in Requests : Crosses(r, e, C)
    <3>1. PICK z \in W : rq[z].pc = "lockAuth" /\ rq[z].src = e
      BY <2>6
    <3> HIDE DEF C
    <3> QED
      BY <2>3, <3>1 DEF Crosses
  <2> HIDE DEF C
  <2> QED
    BY <2>4, <2>5, <2>6 DEF WInv, NoCrossing
<1>2. Init => WInv
  <2> SUFFICES ASSUME Init PROVE WInv
    OBVIOUS
  <2>1. \A r \in Requests : rq[r].pc = "route" /\ rq[r].src = None
    BY DEF Init, NewRequest
  <2> QED
    BY <2>1, InitInv DEF WInv, Src, NoCrossing, Crosses
<1>3. WInv /\ [Next]_vars => WInv'
  <2> SUFFICES ASSUME WInv, [Next]_vars PROVE WInv'
    OBVIOUS
  <2>1. IInv'
    BY NextInv DEF WInv
  <2> QED
    BY <2>1, WaitStep DEF WInv
<1> QED
  BY <1>1, <1>2, <1>3, PTL DEF Spec
=============================================================================
