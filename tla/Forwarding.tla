----------------------------- MODULE Forwarding -----------------------------
(***************************************************************************)
(* handleHTTP and connectWithProxyFallback: a request goes to its          *)
(* candidates one after the other; a 407 is answered with up to three      *)
(* authentication attempts.  NTLM and Negotiate authenticate a connection: *)
(* their exchanges run over a pooled transport with one connection, shared *)
(* by the requests of one identity under authMu.                           *)
(*                                                                         *)
(* A challenge is its scheme and whether it carries a token.  A connection *)
(* that drops only ends the exchange on it and is left out.  Outcomes are  *)
(* reported to module Supervisor, tunnels go on in module Tunnels; DIRECT  *)
(* and the order of the candidates come from modules RouteDecision and     *)
(* CandidateOrder; a Negotiate challenge that was not met forces a refresh *)
(* of module Kerberos.                                                     *)
(***************************************************************************)
EXTENDS TransportCache, ReplaySpool

CONSTANTS
  Confs,    \* configurations: [plans: lists of candidates, bodies: sizes of bodies, modes: schemes
            \* in order of preference, identity: a reusable one is known, replays: bodies are kept
            \* for a 407, session: its kind, headers: schemes answered without a session]
  Direct,
  Socks,    \* the candidates that are SOCKS proxies
  Entries,  \* pooled transports
  None

ASSUME ForwardingAssumption == None \notin Entries /\ None \notin Requests

Connection == {"NEGOTIATE", "NTLM"}
Attempts == 3

VARIABLES
  conf,        \* fixed
  rq,          \* [pc, kind, plan, i, via, src, att, chal, sess, sock, sent] of each request; src:
               \* the pooled transport whose connection carries a response still to be read
  cache, ent   \* the transports, and [key, auth, lock, conn] of the pooled ones

vars == << conf, rq, cache, ent, spool >>

NoChallenge == [scheme |-> "none", token |-> FALSE]
NewEntry(k) == [key |-> k, auth |-> FALSE, lock |-> None, conn |-> None]
NewRequest == [pc |-> "route", kind |-> "http", plan |-> << >>, i |-> 1, via |-> None, src |-> None,
               att |-> 0, chal |-> NoChallenge, sess |-> "none", sock |-> FALSE, sent |-> 0]

Init ==
  /\ conf \in Confs
  /\ SpoolInit
  /\ rq = [r \in Requests |-> NewRequest]
  /\ cache = EmptyCache /\ ent = [e \in Entries |-> NewEntry(None)]

-----------------------------------------------------------------------------
At(r, pc) == rq[r].pc = pc
Go(r, pc) == rq' = [rq EXCEPT ![r].pc = pc]
cand(r) == rq[r].plan[rq[r].i]
kind(r) == rq[r].kind

RouteKey(c) == << "route", c >>
AuthKey(c, s) == << "auth", c, s >>

(* The entry e that r goes through, after r has unlocked it ... *)
Released(e, r, auth) ==
  IF e # None /\ ent[e].lock = r THEN [ent EXCEPT ![e].lock = None, ![e].auth = @ /\ auth] ELSE ent
(* ... and the cache after e has been retired; its idle connection closes. *)
Retired(e) == IF e = None THEN cache ELSE RemoveEntry(cache, ent[e].key, e)

(* The candidate failed: its socket and session are closed; the next one   *)
(* is tried, unless none is left or the client is gone, which it may be    *)
(* wherever the code looks.                                                *)
NextCandidate(r) ==
  \/ rq' = [rq EXCEPT ![r] = [NewRequest EXCEPT !.pc = "finish", !.sent = rq[r].sent]]
  \/ /\ rq[r].i < Len(rq[r].plan)
     /\ rq' = [rq EXCEPT ![r] = [NewRequest EXCEPT !.pc = "try", !.kind = kind(r), !.plan = rq[r].plan,
                                                   !.i = rq[r].i + 1, !.sent = rq[r].sent]]

-----------------------------------------------------------------------------
(* handleHTTP and handleCONNECT up to the first candidate; the lookup may  *)
(* fail.                                                                   *)
NeedsReplayableBody(n, plan) == n > 0 /\ (Len(plan) > 1 \/ (plan[1] # Direct /\ conf.replays))
Streamed(r) == body[r].left > 0

FindProxy(r) ==
  /\ At(r, "route")
  /\ \/ Go(r, "finish") /\ UNCHANGED spool
     \/ \E p \in conf.plans, n \in conf.bodies :
          /\ Arrives(r, n)
          /\ rq' = [rq EXCEPT ![r].plan = p, ![r].pc = IF NeedsReplayableBody(n, p) THEN "capture" ELSE "try"]
     \/ \E p \in conf.plans :
          rq' = [rq EXCEPT ![r].plan = p, ![r].kind = "connect", ![r].pc = "try"] /\ UNCHANGED spool
  /\ UNCHANGED << conf, cache, ent >>

Capture(r) ==
  /\ At(r, "capture")
  /\ CaptureInMemory(r) \/ CaptureToFile(r)
  /\ UNCHANGED << conf, rq, cache, ent >>

CaptureEnds(r) ==
  /\ At(r, "capture") /\ Captured(r)
  /\ Go(r, "try")
  /\ UNCHANGED << conf, cache, ent, spool >>

CaptureError(r) ==
  /\ At(r, "capture")
  /\ CaptureFails(r)
  /\ Go(r, "finish")
  /\ UNCHANGED << conf, cache, ent >>

(* The answer is written to the client; deferred Close of the bodies. *)
Finish(r) ==
  /\ At(r, "finish")
  /\ Abandon(r)
  /\ rq' = [rq EXCEPT ![r] = [NewRequest EXCEPT !.pc = "done"]]
  /\ UNCHANGED << conf, cache, ent >>

-----------------------------------------------------------------------------
(* One candidate of roundTripHTTPWithProxyFallback: a pooled transport     *)
(* that is authenticated, or else the transport of the route.              *)
PoolSchemes(r) ==
  IF conf.identity /\ cand(r) # Direct
  THEN {i \in DOMAIN conf.modes : conf.modes[i] \in Connection /\ Cached(cache, AuthKey(cand(r), conf.modes[i]))} ELSE {}
PooledFor(r, i) == cache.entries[AuthKey(cand(r), conf.modes[i])]

Try(r) ==
  /\ At(r, "try") /\ kind(r) = "http"
  /\ \/ \E i \in PoolSchemes(r) :
          /\ \A j \in PoolSchemes(r) : i <= j
          /\ rq' = [rq EXCEPT ![r].via = PooledFor(r, i), ![r].pc = "lockPooled"]
     \/ PoolSchemes(r) = {} /\ rq' = [rq EXCEPT ![r].via = None, ![r].pc = "transport"]
  /\ UNCHANGED << conf, cache, ent, spool >>

(* Mutant of TakeLock: nobody waits for authMu. *)
TakeLockAnyway(r) == ent' = [ent EXCEPT ![rq[r].via].lock = r]

TakeLock(r) == ent[rq[r].via].lock = None /\ ent' = [ent EXCEPT ![rq[r].via].lock = r]

LockPooled(r) ==
  /\ At(r, "lockPooled")
  /\ \/ ent[rq[r].via].auth /\ TakeLock(r) /\ Go(r, "open")
     \/ /\ ent[rq[r].via].lock = None /\ ~ent[rq[r].via].auth
        /\ rq' = [rq EXCEPT ![r].via = None, ![r].pc = "transport"] /\ ent' = ent
  /\ UNCHANGED << conf, cache, spool >>

(* httpTransportForProxy: getOrCreate builds outside the mutex. *)
Transport(r) ==
  /\ At(r, "transport")
  /\ Go(r, IF Cached(cache, RouteKey(cand(r))) THEN "open" ELSE "build")
  /\ UNCHANGED << conf, cache, ent, spool >>

Build(r) ==
  /\ At(r, "build")
  /\ cache' = IF Cached(cache, RouteKey(cand(r))) THEN cache ELSE InsertEntry(cache, RouteKey(cand(r)), None)
  /\ Go(r, "open")
  /\ UNCHANGED << conf, ent, spool >>

(* newOutboundRequest: the body is sent once more. *)
Outbound(r) == [rq[r] EXCEPT !.src = None, !.sent = IF Streamed(r) THEN @ + 1 ELSE @]

Open(r) ==
  /\ At(r, "open")
  /\ \/ rq' = [rq EXCEPT ![r] = [Outbound(r) EXCEPT !.pc = "send"]] /\ ent' = ent
     \/ MayNotOpen(r) /\ ent' = Released(rq[r].via, r, TRUE) /\ NextCandidate(r)
  /\ UNCHANGED << conf, cache, spool >>

(* The connection of a pooled transport answered: authenticated or not. *)
Demoted(e) == IF e = None THEN ent ELSE [ent EXCEPT ![e].auth = FALSE]

Challenges == {[scheme |-> s, token |-> FALSE] : s \in Range(conf.modes) \cup {"none"}}

(* MaxConnsPerHost = 1: a round trip waits until the last response is read. *)
Idle(e) == e = None \/ \A r \in Requests : rq[r].src # e

(* Mutant of Selected: the lock inherited from the caller is taken again. *)
SelectedLocks(r, c) ==
  IF c.scheme \notin Connection \/ ~conf.identity THEN "header"
  ELSE IF rq[r].via = None THEN "getPool"
  ELSE IF ent[rq[r].via].key = AuthKey(cand(r), c.scheme) THEN "lockAuth" ELSE "switch"

(* The head of the loop: which transport takes the next attempt. *)
Selected(r, c) ==
  IF c.scheme \notin Connection \/ ~conf.identity THEN "header"
  ELSE IF rq[r].via = None THEN "getPool"
  ELSE IF ent[rq[r].via].key = AuthKey(cand(r), c.scheme) THEN "header" ELSE "switch"
Challenged(r, c, n) ==
  rq' = [rq EXCEPT ![r].pc = Selected(r, c), ![r].att = n, ![r].chal = c, ![r].src = rq[r].via]

(* The response is for the client; its body is still to be read. *)
Answered(r) ==
  rq' = [rq EXCEPT ![r] = [NewRequest EXCEPT !.pc = "finish", !.src = rq[r].via, !.sent = rq[r].sent]]

SendFails(r) ==
  /\ At(r, "send")
  /\ ent' = Released(rq[r].via, r, FALSE) /\ cache' = Retired(rq[r].via)
  /\ NextCandidate(r)
  /\ UNCHANGED << conf, spool >>

Response(r) ==
  /\ At(r, "send") /\ Idle(rq[r].via)
  /\ ent' = Released(rq[r].via, r, TRUE)
  /\ Answered(r)
  /\ UNCHANGED << conf, cache, spool >>

(* A 407 through a pooled connection ends its authentication.  It is       *)
(* passed to the client if the body was streamed, answered otherwise.      *)
Response407(r) ==
  /\ At(r, "send") /\ cand(r) # Direct /\ Idle(rq[r].via)
  /\ IF Streamed(r)
     THEN /\ ent' = Released(rq[r].via, r, FALSE) /\ cache' = Retired(rq[r].via)
          /\ Answered(r)
     ELSE /\ ent' = Demoted(rq[r].via) /\ cache' = cache
          /\ \E c \in Challenges : Challenged(r, c, 0)
  /\ UNCHANGED << conf, spool >>

-----------------------------------------------------------------------------
(* retryHTTPProxyAuthWithPool, entered with the lock of via held.  When    *)
(* the scheme has changed, the pooled connection of the old one is dropped.*)
SwitchScheme(r) ==
  /\ At(r, "switch")
  /\ cache' = Retired(rq[r].via) /\ ent' = Released(rq[r].via, r, TRUE)
  /\ rq' = [rq EXCEPT ![r].via = None, ![r].pc = "getPool"]
  /\ UNCHANGED << conf, spool >>

poolKey(r) == AuthKey(cand(r), rq[r].chal.scheme)

GetPool(r) ==
  /\ At(r, "getPool")
  /\ rq' = IF Cached(cache, poolKey(r))
           THEN [rq EXCEPT ![r].via = cache.entries[poolKey(r)], ![r].pc = "lockAuth"]
           ELSE [rq EXCEPT ![r].pc = "buildPool"]
  /\ UNCHANGED << conf, cache, ent, spool >>

(* An entry nobody can reach any more stands for the one being built. *)
Unused == {e \in Entries : e \notin Range(cache.entries) /\ \A r \in Requests : e \notin {rq[r].via, rq[r].src}}

BuildPool(r) ==
  /\ At(r, "buildPool")
  /\ IF Cached(cache, poolKey(r))
     THEN rq' = [rq EXCEPT ![r].via = cache.entries[poolKey(r)], ![r].pc = "lockAuth"] /\ UNCHANGED << cache, ent >>
     ELSE \E e \in Unused :
            /\ \A x \in Unused : e <= x
            /\ ent' = [ent EXCEPT ![e] = NewEntry(poolKey(r))]
            /\ cache' = InsertEntry(cache, poolKey(r), e)
            /\ rq' = [rq EXCEPT ![r].via = e, ![r].pc = "lockAuth"]
  /\ UNCHANGED << conf, spool >>

(* Authenticated meanwhile by another request: replay through it. *)
LockAuth(r) ==
  /\ At(r, "lockAuth")
  /\ TakeLock(r)
  /\ Go(r, IF ent[rq[r].via].auth THEN "replay" ELSE "header")
  /\ UNCHANGED << conf, cache, spool >>

(* drainUpstream407Body, then newOutboundRequest: when the body cannot be  *)
(* opened, only this replay keeps the entry.                               *)
Replay(r) ==
  /\ At(r, "replay")
  /\ \/ rq' = [rq EXCEPT ![r] = [Outbound(r) EXCEPT !.pc = "replaySend"]] /\ cache' = cache
     \/ /\ rq' = [rq EXCEPT ![r].pc = "leave", ![r].src = None]
        /\ cache' \in {Retired(rq[r].via)} \cup (IF MayNotOpen(r) THEN {cache} ELSE {})
  /\ UNCHANGED << conf, ent, spool >>

(* Another 407: the loop goes on, at most Attempts times. *)
Again(r, c) ==
  IF rq[r].att + 1 < Attempts
  THEN Challenged(r, c, rq[r].att + 1) /\ cache' = cache
  ELSE /\ rq' = [rq EXCEPT ![r].pc = "leave", ![r].src = rq[r].via] /\ cache' = Retired(rq[r].via)

ReplayReply(r) ==
  /\ At(r, "replaySend")
  /\ \/ Go(r, "leave") /\ cache' = Retired(rq[r].via) /\ ent' = ent
     \/ /\ Idle(rq[r].via)
        /\ rq' = [rq EXCEPT ![r].pc = "leave", ![r].src = rq[r].via] /\ UNCHANGED << cache, ent >>
     \/ Idle(rq[r].via) /\ ent' = Demoted(rq[r].via) /\ \E c \in Challenges : Again(r, c)
  /\ UNCHANGED << conf, spool >>

(* startUpstreamAuthSession and upstreamProxyAuthHeader: a session is kept *)
(* for the whole exchange.  Its initial token can be sent once, and only   *)
(* an SSPI session answers a token.                                        *)
SessionSchemes ==
  IF conf.session = "sspi" THEN Connection ELSE IF conf.session = "kerberos" THEN {"NEGOTIATE"} ELSE {}

Starts(r, c) == rq[r].sess = "none" /\ c.scheme \in SessionSchemes
Answers(r, c) ==
  \/ Starts(r, c) /\ ~c.token
  \/ rq[r].sess = "none" /\ c.scheme \notin SessionSchemes /\ c.scheme \in conf.headers
  \/ rq[r].sess = "sspi" /\ c.token
Session(r, c) == IF Starts(r, c) THEN conf.session ELSE rq[r].sess

(* The rest of one attempt.  Without a header the 407 is the answer; a     *)
(* session that cannot start or go on, a failing drain or Open are errors. *)
Header(r) ==
  LET c == rq[r].chal
  IN /\ At(r, "header")
     /\ \/ /\ Answers(r, c)
           /\ rq' = [rq EXCEPT ![r] = [Outbound(r) EXCEPT !.pc = "authSend", !.sess = Session(r, c)]]
           /\ cache' = cache
        \/ /\ \/ \E x \in {rq[r].sess, Session(r, c)} :
                   rq' = [rq EXCEPT ![r].pc = "leave", ![r].sess = x, ![r].src = None]
              \/ rq[r].sess = "none" /\ ~Starts(r, c) /\ Go(r, "leave")
           /\ cache' = Retired(rq[r].via)
  /\ UNCHANGED << conf, ent, spool >>

Tokens(r) == {[scheme |-> x, token |-> TRUE] : x \in {rq[r].chal.scheme} \cap Connection}
AuthResult(e, auth, conn) ==
  IF e = None THEN ent ELSE [ent EXCEPT ![e].auth = auth, ![e].conn = conn]

AuthReply(r) ==
  /\ At(r, "authSend")
  /\ \/ Go(r, "leave") /\ cache' = Retired(rq[r].via) /\ ent' = ent
     \/ /\ Idle(rq[r].via)
        /\ rq' = [rq EXCEPT ![r].pc = "leave", ![r].src = rq[r].via]
        /\ ent' = AuthResult(rq[r].via, TRUE, None) /\ cache' = cache
     \/ /\ Idle(rq[r].via)
        /\ \E c \in Challenges \cup Tokens(r) :
             Again(r, c) /\ ent' = AuthResult(rq[r].via, FALSE, IF c.token THEN r ELSE None)
  /\ UNCHANGED << conf, spool >>

(* The deferred function: unlock first, then close the session; if that    *)
(* fails, the entry is retired, even if somebody has locked it meanwhile.  *)
Leave(r) ==
  /\ At(r, "leave")
  /\ ent' = Released(rq[r].via, r, TRUE)
  /\ rq' = [rq EXCEPT ![r] = [NewRequest EXCEPT !.pc = IF rq[r].sess = "none" THEN "finish" ELSE "close",
                                                !.sess = rq[r].sess, !.src = rq[r].src,
                                                !.via = IF rq[r].sess = "none" THEN None ELSE rq[r].via]]
  /\ UNCHANGED << conf, cache, spool >>

CloseSession(r) ==
  /\ At(r, "close")
  /\ rq' = [rq EXCEPT ![r].pc = "finish", ![r].sess = "none", ![r].via = None]
  /\ \/ cache' = cache
     \/ rq[r].sess = "sspi" /\ cache' = Retired(rq[r].via)
  /\ UNCHANGED << conf, ent, spool >>

-----------------------------------------------------------------------------
(* One candidate of connectWithProxyFallback. *)
Dial(r) ==
  /\ At(r, "try") /\ kind(r) = "connect"
  /\ \/ rq' = [rq EXCEPT ![r].pc = IF cand(r) = Direct THEN "connected" ELSE "handshake", ![r].sock = TRUE]
     \/ NextCandidate(r)
  /\ UNCHANGED << conf, cache, ent, spool >>

(* TLS to an https proxy, or the whole SOCKS exchange. *)
Handshake(r) ==
  /\ At(r, "handshake")
  /\ \/ Go(r, IF cand(r) \in Socks THEN "connected" ELSE "connectSend")
     \/ NextCandidate(r)
  /\ UNCHANGED << conf, cache, ent, spool >>

(* CONNECT answers schemes that are not allowed as well, if none is. *)
ConnectChallenges(r) == Challenges \cup Tokens(r) \cup {[scheme |-> x, token |-> FALSE] : x \in Connection}

ConnectReply(r) ==
  /\ At(r, "connectSend")
  /\ \/ rq' = [rq EXCEPT ![r].pc = "connected", ![r].sess = "none"]
     \/ /\ rq[r].att < Attempts
        /\ \E c \in ConnectChallenges(r) :
             Answers(r, c) /\ rq' = [rq EXCEPT ![r].att = @ + 1, ![r].chal = c, ![r].sess = Session(r, c)]
     \/ NextCandidate(r)
  /\ UNCHANGED << conf, cache, ent, spool >>

(* The socket is handed to the tunnel, unless the client is gone. *)
Connected(r) ==
  /\ At(r, "connected")
  /\ rq' = [rq EXCEPT ![r] = [NewRequest EXCEPT !.pc = "finish"]]
  /\ UNCHANGED << conf, cache, ent, spool >>

-----------------------------------------------------------------------------
(* clearTransports, on a reload and on a new network. *)
ClearTransports ==
  /\ cache # EmptyCache
  /\ cache' = EmptyCache
  /\ UNCHANGED << conf, rq, ent, spool >>

Step(r) ==
  \/ FindProxy(r) \/ Capture(r) \/ CaptureEnds(r) \/ CaptureError(r) \/ Finish(r)
  \/ Try(r) \/ LockPooled(r) \/ Transport(r) \/ Build(r) \/ Open(r)
  \/ SendFails(r) \/ Response(r) \/ Response407(r)
  \/ SwitchScheme(r) \/ GetPool(r) \/ BuildPool(r) \/ LockAuth(r)
  \/ Replay(r) \/ ReplayReply(r) \/ Header(r) \/ AuthReply(r) \/ Leave(r) \/ CloseSession(r)
  \/ Dial(r) \/ Handshake(r) \/ ConnectReply(r) \/ Connected(r)

Next == ClearTransports \/ \E r \in Requests : Step(r)

(* Round trips, dials and clients have timeouts, mutexes are granted. *)
Spec == Init /\ [][Next]_vars /\ WF_vars(\E r \in Requests : Step(r))

-----------------------------------------------------------------------------
(* Nothing is left behind, whichever way a request ends: the budget of the *)
(* temporary files counts exactly the files on disk, and a request that is *)
(* done holds no transport, lock, session or socket.  A body that is       *)
(* streamed is sent once, whatever is answered.                            *)
ResourcesAccounted ==
  /\ SpoolAccounted
  /\ \A r \in Requests :
       /\ rq[r].sent <= 1
       /\ At(r, "done") => /\ rq[r].via = None /\ rq[r].sess = "none" /\ ~rq[r].sock /\ ~body[r].file
                           /\ \A e \in Entries : ent[e].lock # r

(* The connection of a pooled transport belongs to one request at a time:  *)
(* whoever sends through it holds authMu, even if the entry has been       *)
(* retired or evicted, and a token is answered on the connection and by    *)
(* the request that it was issued to.                                      *)
PooledExclusive ==
  \A r \in Requests : rq[r].via # None /\ rq[r].pc \in {"send", "authSend", "replaySend"} =>
    /\ ent[rq[r].via].lock = r
    /\ At(r, "authSend") /\ rq[r].chal.token => ent[rq[r].via].conn = r

(* No request waits forever: authMu, inherited by the authentication loop, *)
(* and the single connection of a pooled transport are always given back.  *)
RequestsComplete == <>(\A r \in Requests : At(r, "done"))
=============================================================================
