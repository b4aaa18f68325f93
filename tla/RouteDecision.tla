-------------------------- MODULE RouteDecision ---------------------------
(***************************************************************************)
(* internal/wproxy, internal/pac and the policy of internal/dnsresolver:   *)
(* how the mode of a route follows from configuration, system and          *)
(* environment, and what FindProxyForURL and the direct dial after it do   *)
(* for requests that share one PAC runtime.  The life of the route itself  *)
(* is module RouteLifecycle, the cache before the resolver DnsCache.       *)
(*                                                                         *)
(* Texts are taken apart already: a no-proxy list is a sequence of tokens, *)
(* a proxy list a sequence of items <<scheme, host>> with host "bad" if it *)
(* does not parse, a PAC result a sequence of directives <<kind, target>>; *)
(* items and directives may be blank.  The JavaScript engine is external.  *)
(***************************************************************************)
EXTENDS Resolver

CONSTANTS
  Requests, Targets,  \* who asks, and for what: [host, port, scheme]
  Configs,            \* what NewWithDNS is given and discovers
  Answers, OsAnswers, \* what the endpoints, the operating system may say
  Scripts,            \* what a PAC script may return, Error if it throws
  SystemResults,      \* what the system's resolver may return, or Error
  MaxCandidates,      \* maxPACCandidates
  NoTarget, NoOne, Error

Direct == <<"direct", "DIRECT">>
Blank(item) == item[1] = "BLANK"
BadTarget == [host |-> [labels |-> <<>>, ip |-> NoIP], port |-> 0, scheme |-> "bad"]

IsMessage(m) ==
  /\ m.addrs \in Seq(STRING \X (V4 \cup V6) \X Nat)
  /\ \A c \in m.cnames : c[3] \in Nat

Lists == Seq(STRING \X STRING)

ASSUME DecisionAssumption ==
  /\ NoOne \notin Requests /\ Error # <<>>
  /\ \A a \in Answers : \A f \in {"A", "AAAA"} : IsMessage(a[f].first) /\ IsMessage(a[f].retry)
  /\ \A result \in Scripts \cup SystemResults : result # Error => result \in Lists
  /\ \A c \in Configs :
       /\ c.mode \in {"none", "config", "configPAC"} /\ c.servers \in Lists
       /\ c.env.found => \A s \in {"http", "https", "all"} : c.env[s] \in Lists
       /\ c.sys.found => "all" \in DOMAIN c.sys.manual /\ \A s \in DOMAIN c.sys.manual : c.sys.manual[s] \in Lists
       /\ \A t \in Targets : LET to == Resolves(c.policy, t.host)
                             IN to.kind = "endpoints" => to.eps \in Seq(STRING)

VARIABLES
  conf,   \* one of Configs: fixed
  req,    \* the requests
  timer,  \* of each request: the time.AfterFunc of runPACBounded
  vmMu,   \* who holds pacRuntime.vmMu
  flag    \* an interrupt is pending in the JavaScript engine

vars == << conf, req, timer, vmMu, flag >>

-----------------------------------------------------------------------------
(* Parsing, and the route that NewWithDNS makes. *)
ParseProxy(servers) ==
  IF \E i \in DOMAIN servers : servers[i][2] = "bad" THEN Error
  ELSE Sift(servers, {i \in DOMAIN servers : /\ ~Blank(servers[i])
                                             /\ \A j \in 1..(i - 1) : servers[j] # servers[i]})

(* A no-proxy token becomes addresses, a matcher, both ("<local>") or an error. *)
ParseNoProxy(tokens) ==
  IF \E i \in DOMAIN tokens : tokens[i].kind = "bad" THEN Error
  ELSE [ips |-> UNION {tokens[i].ips : i \in DOMAIN tokens},
        matchers |-> {t \in Range(tokens) : t.kind \in {"local", "any", "host", "sub"}}]

SystemMode(sys) == IF sys.auto THEN "auto" ELSE IF sys.pac THEN "pac" ELSE "manual"

(* The whole of discovery: the mode, and which bypass list is merged in. *)
Mode(c) ==
  IF c.mode # "none" THEN c.mode
  ELSE IF c.sys.found THEN SystemMode(c.sys)
  ELSE IF c.env.found THEN "env" ELSE "none"

Bypass(c) ==
  IF c.mode # "none" THEN c.noproxy
  ELSE IF c.sys.found THEN c.noproxy \o c.sys.bypass
  ELSE IF c.env.found THEN c.noproxy \o c.env.noproxy ELSE c.noproxy

EnvParses(c) == \A s \in {"http", "https", "all"} : ParseProxy(c.env[s]) # Error

(* Reading, decoding, compiling and running the PAC script for the first   *)
(* time: whether that succeeds is up to the script.                        *)
Load(c) == c.pacLoads

NewWithDNS(c) ==
  LET np == ParseNoProxy(Bypass(c))
  IN IF \/ np = Error
        \/ Mode(c) = "env" /\ ~EnvParses(c)
        \/ Mode(c) = "configPAC" /\ ~Load(c)
     THEN Error
     ELSE [mode |-> Mode(c), ips |-> np.ips, matchers |-> np.matchers]

(* buildWproxy: the configured servers are parsed before. *)
BuildWproxy(c) ==
  IF c.mode = "config" /\ ParseProxy(c.servers) = Error THEN Error ELSE NewWithDNS(c)

route == BuildWproxy(conf)

-----------------------------------------------------------------------------
(* No-proxy rules. *)
HostMatches(m, t) ==
  LET labels == t.host.labels
  IN CASE m.kind = "local" -> Len(labels) = 1
       [] m.kind = "any"   -> TRUE
       [] m.kind = "sub"   -> EndsWith(labels, m.base) /\ labels # m.base
       [] m.kind = "host"  -> m.port \in {0, t.port} /\ EndsWith(labels, m.base)

HostMatchesNoProxy(t) == \E m \in route.matchers : HostMatches(m, t)

NeedsLookup(t) == ~HostMatchesNoProxy(t) /\ route.ips # {} /\ t.host.ip = NoIP

(* IPSet: networks and ranges are the set of their addresses. *)
InNoProxy(ip) == ip \in route.ips

BypassedByName(t) == HostMatchesNoProxy(t) \/ InNoProxy(t.host.ip)

(* The lists that depend on the scheme of the target. *)
ForScheme(lists, scheme) ==
  IF scheme \in DOMAIN lists /\ lists[scheme] # <<>> THEN lists[scheme] ELSE lists["all"]

-----------------------------------------------------------------------------
(* PAC results. *)
SchemeOf(kind) ==
  CASE kind \in {"PROXY", "HTTP"} -> "http" [] kind = "HTTPS" -> "https"
    [] kind \in {"SOCKS", "SOCKS5"} -> "socks5"
    [] kind = "SOCKS4" -> "socks4" [] kind = "SOCKS4A" -> "socks4a"

Directives == {"PROXY", "HTTP", "HTTPS", "SOCKS", "SOCKS5", "SOCKS4", "SOCKS4A"}

(* Mutant of NormalizeResult: directives it does not know are left out,    *)
(* and nothing left means DIRECT.                                          *)
NormalizeLeniently(result) ==
  LET known == Sift(result, {i \in DOMAIN result : result[i][1] \in Directives})
  IN IF known = <<>> THEN << Direct >>
     ELSE [i \in DOMAIN known |-> <<SchemeOf(known[i][1]), known[i][2]>>]

NormalizeResult(result) ==
  LET said == Sift(result, {i \in DOMAIN result : ~Blank(result[i])})
  IN IF \/ said = <<>> \/ Len(said) > MaxCandidates
        \/ \E i \in DOMAIN said : said[i][1] \notin Directives \cup {"DIRECT"}
     THEN Error
     ELSE [i \in DOMAIN said |-> IF said[i][1] = "DIRECT" THEN Direct
                                 ELSE <<SchemeOf(said[i][1]), said[i][2]>>]

ValidateCanonicalResult(servers) ==
  Cardinality({i \in DOMAIN servers : ~Blank(servers[i])}) \in 1..MaxCandidates

(* What FindProxyForURL makes of a result. *)
PacServers(result) ==
  IF result = Error \/ NormalizeResult(result) = Error THEN Error
  ELSE ParseProxy(NormalizeResult(result))

SystemServers(result) ==
  IF result = Error \/ ~ValidateCanonicalResult(result) THEN Error ELSE ParseProxy(result)

(* The modes that need no one else. *)
StaticServers(t) ==
  LET orDirect(s) == IF s = <<>> THEN << Direct >> ELSE s
  IN CASE route.mode = "env" -> orDirect(ForScheme([s \in {"http", "https", "all"} |-> ParseProxy(conf.env[s])], t.scheme))
       [] route.mode = "manual" -> LET raw == ForScheme(conf.sys.manual, t.scheme)
                                   IN IF raw = <<>> THEN << Direct >> ELSE ParseProxy(raw)
       [] route.mode = "config" -> ParseProxy(conf.servers)

-----------------------------------------------------------------------------
(* A request: its target, what it has learnt, and what came out. *)
NoLook == [ok |-> FALSE, terminal |-> FALSE, ips |-> <<>>, ttl |-> 0, by |-> "none"]
Idle == [pc |-> "idle", t |-> NoTarget, said |-> <<>>, cut |-> 0, look |-> NoLook,
         result |-> <<>>, out |-> <<>>, conn |-> NoIP]

Init ==
  /\ conf \in Configs /\ route # Error
  /\ req = [r \in Requests |-> Idle]
  /\ timer = [r \in Requests |-> "off"]
  /\ vmMu = NoOne /\ flag = FALSE

(* The decision is made: DIRECT is dialled next, anything else is left to  *)
(* the round trip.                                                         *)
Decided(q, out) ==
  [q EXCEPT !.out = out, !.pc = IF out \notin {Error, <<>>} /\ Head(out) = Direct THEN "dial" ELSE "done"]

FindProxyForURL(r) ==
  /\ r \in conf.requests /\ req[r].pc = "idle"
  /\ \E t \in Targets \cup {BadTarget} :
       LET q == [Idle EXCEPT !.t = t]
       IN req' = [req EXCEPT ![r] =
            IF t = BadTarget THEN Decided(q, Error)
            ELSE IF route.mode = "none" \/ BypassedByName(t) THEN Decided(q, << Direct >>)
            ELSE [q EXCEPT !.pc = IF NeedsLookup(t) THEN "lookup" ELSE "route"]]
  /\ UNCHANGED << conf, timer, vmMu, flag >>

(* The request after a lookup under the policy; said is kept until the     *)
(* decision.  cut is the endpoint during whose last question the caller's  *)
(* context ends.                                                           *)
Lookup(r) ==
  LET to == Resolves(conf.policy, req[r].t.host)
      eps == IF to.kind = "endpoints" THEN to.eps ELSE <<>>
      os == IF eps = <<>> THEN OsAnswers ELSE {<<>>}
      heard == {a \in [DOMAIN eps -> Answers] \X (0..Len(eps)) \X os :
                  a[2] > 0 => a[1][a[2]]["AAAA"].first.code = "io"}
  IN {[req[r] EXCEPT !.said = a[1], !.cut = a[2],
                     !.look = LookupIPTTL(conf.policy, req[r].t.host, a[1], a[3], a[2])] : a \in heard}

IsNoProxy(r) ==
  /\ req[r].pc = "lookup"
  /\ \E q \in Lookup(r) :
       req' = [req EXCEPT ![r] =
         IF \E i \in DOMAIN q.look.ips : InNoProxy(q.look.ips[i])
         THEN Decided([q EXCEPT !.said = <<>>], << Direct >>) ELSE [q EXCEPT !.pc = "route"]]
  /\ UNCHANGED << conf, timer, vmMu, flag >>

RouteStatic(r) ==
  /\ req[r].pc = "route" /\ route.mode \in {"env", "manual", "config"}
  /\ req' = [req EXCEPT ![r] = Decided(@, StaticServers(@.t))]
  /\ UNCHANGED << conf, timer, vmMu, flag >>

RouteSystem(r) ==
  /\ req[r].pc = "route" /\ route.mode \in {"auto", "pac"}
  /\ \E result \in SystemResults :
       req' = [req EXCEPT ![r] = Decided([@ EXCEPT !.result = result], SystemServers(result))]
  /\ UNCHANGED << conf, timer, vmMu, flag >>

-----------------------------------------------------------------------------
(* FindProxyForURLWithError: one evaluation at a time, bounded by a timer. *)
LockVM(r) ==
  /\ req[r].pc = "route" /\ route.mode = "configPAC" /\ vmMu = NoOne
  /\ vmMu' = r
  /\ timer' = [timer EXCEPT ![r] = "armed"]
  /\ req' = [req EXCEPT ![r].pc = "eval"]
  /\ UNCHANGED << conf, flag >>

ScriptReturns(r) ==
  /\ req[r].pc = "eval" /\ ~flag
  /\ \E result \in Scripts : req' = [req EXCEPT ![r].pc = "stop", ![r].result = result]
  /\ UNCHANGED << conf, timer, vmMu, flag >>

ScriptInterrupted(r) ==
  /\ req[r].pc = "eval" /\ flag
  /\ req' = [req EXCEPT ![r].pc = "stop", ![r].result = Error]
  /\ UNCHANGED << conf, timer, vmMu, flag >>

TimerStarts(r) ==
  /\ timer[r] = "armed"
  /\ timer' = [timer EXCEPT ![r] = "started"]
  /\ UNCHANGED << conf, req, vmMu, flag >>

Interrupt(r) ==
  /\ timer[r] = "started"
  /\ timer' = [timer EXCEPT ![r] = "fired"]
  /\ flag' = TRUE
  /\ UNCHANGED << conf, req, vmMu >>

(* Mutant of TimerSettled: the interrupt that is under way is not awaited. *)
TimerIgnored(r) == TRUE

(* timer.Stop succeeded, or the interrupt has been delivered. *)
TimerSettled(r) == timer[r] # "started"

StopTimer(r) ==
  /\ req[r].pc = "stop" /\ TimerSettled(r)
  /\ timer' = [timer EXCEPT ![r] = IF @ = "started" THEN @ ELSE "off"]
  /\ flag' = FALSE
  /\ vmMu' = NoOne
  /\ req' = [req EXCEPT ![r] = Decided(@, PacServers(@.result))]
  /\ UNCHANGED conf

-----------------------------------------------------------------------------
(* dialContext for a target that is routed DIRECT. *)
Dial(r) ==
  /\ req[r].pc = "dial"
  /\ LET t == req[r].t
     IN IF DialsByName(conf.policy, t.host)
        THEN req' = [req EXCEPT ![r].pc = "done",
                       ![r].look = IF t.host.ip = NoIP THEN OsVerdict(<<>>) ELSE Literal(t.host)]
        ELSE \E up \in SUBSET (V4 \cup V6), q \in Lookup(r) :
               req' = [req EXCEPT ![r] = [q EXCEPT !.pc = "done", !.conn = FirstUp(q.look.ips, up)]]
  /\ UNCHANGED << conf, timer, vmMu, flag >>

Return(r) ==
  /\ req[r].pc = "done"
  /\ req' = [req EXCEPT ![r] = Idle]
  /\ UNCHANGED << conf, timer, vmMu, flag >>

Next == \E r \in Requests :
  \/ FindProxyForURL(r) \/ IsNoProxy(r) \/ RouteStatic(r) \/ RouteSystem(r)
  \/ LockVM(r) \/ ScriptReturns(r) \/ ScriptInterrupted(r)
  \/ TimerStarts(r) \/ Interrupt(r) \/ StopTimer(r) \/ Dial(r) \/ Return(r)

Spec == Init /\ [][Next]_vars

-----------------------------------------------------------------------------
(* What the endpoints have said, read without the algorithm. *)
Final(eps, said, i, f) == Exchange(eps[i], said[i][f])
HasAddress(m, f) ==
  m.code = "ok" /\ \E i \in DOMAIN m.addrs : m.addrs[i][2] \in FamilyIPs(f) /\ m.addrs[i][1] \in Allowed(m)
Denies(m, f) == m.code = "nx" \/ (m.code = "ok" /\ ~HasAddress(m, f))
Offers(eps, said, i) == \E f \in Range(Families) : HasAddress(Final(eps, said, i, f), f)
Settles(eps, said, i) ==
  Offers(eps, said, i) \/ \A f \in Range(Families) : Denies(Final(eps, said, i, f), f)

(* The DNS policy.  A name that explicit endpoints are responsible for is  *)
(* never given to the operating system's resolver, whatever becomes of the *)
(* endpoints (the comment on Policy).  Its lookup ends with the first      *)
(* endpoint that offers an address or denies both families (LookupIPTTL):  *)
(* only addresses of that endpoint are returned, with a TTL no record      *)
(* exceeds (parseResponseTTL), and a lookup fails only if no endpoint that *)
(* was reached before the caller gave up offers one.                       *)
LookupSound == \A r \in Requests :
  LET q == req[r]
      to == Resolves(conf.policy, q.t.host)
      settling == {i \in DOMAIN to.eps : /\ Settles(to.eps, q.said, i)
                                         /\ \A j \in 1..(i - 1) : ~Settles(to.eps, q.said, j) /\ j # q.cut}
      records(i) == UNION {IF HasAddress(Final(to.eps, q.said, i, f), f)
                           THEN Range(Final(to.eps, q.said, i, f).addrs) ELSE {} : f \in Range(Families)}
  IN q.pc # "idle" /\ q.t.host.ip = NoIP /\ to.kind = "endpoints" =>
       /\ q.look.by # "os"
       /\ q.said # <<>> =>
            /\ q.look.ok <=> \E i \in settling : Offers(to.eps, q.said, i)
            /\ q.look.ok => \E i \in settling : \A k \in DOMAIN q.look.ips :
                 \E rec \in records(i) : rec[2] = q.look.ips[k] /\ q.look.ttl <= rec[3]
       /\ q.conn # NoIP => q.conn \in Range(q.look.ips)

(* A request goes out DIRECT only because something said so: the mode, a   *)
(* no-proxy rule, a PAC or system result with DIRECT in it, or a source    *)
(* that lists DIRECT or nothing for the scheme.  A PAC script that throws, *)
(* is interrupted or returns something malformed, and a failed lookup of   *)
(* the target, never do (FindProxyForURLWithError, isNoProxy).  No proxy   *)
(* is tried twice, and only a configured or manual list of blanks leaves   *)
(* nothing to try (ParseProxy).                                            *)
NoImplicitDirect == \A r \in Requests :
  LET q == req[r]
      items(list) == {x \in Range(list) : ~Blank(x)}
      lists == IF route.mode = "env" THEN [s \in {"http", "https", "all"} |-> conf.env[s]]
               ELSE conf.sys.manual
      own == IF q.t.scheme \in DOMAIN lists THEN items(lists[q.t.scheme]) ELSE {}
      listed == IF own # {} THEN own ELSE items(lists["all"])
  IN /\ q.pc = "done" /\ q.out = <<>> => route.mode \in {"config", "manual"}
     /\ (q.pc = "dial" \/ (q.pc = "done" /\ q.out \notin {Error, <<>>} /\ Head(q.out) # Direct)) =>
        /\ \A i, j \in DOMAIN q.out : q.out[i] = q.out[j] => i = j
        /\ Direct \in Range(q.out) =>
            \/ route.mode = "none" \/ BypassedByName(q.t)
            \/ Range(q.look.ips) \cap route.ips # {}
            \/ route.mode = "configPAC" /\ q.result # Error /\ \E i \in DOMAIN q.result : q.result[i][1] = "DIRECT"
            \/ route.mode \in {"auto", "pac"} /\ q.result # Error /\ Direct \in Range(q.result)
            \/ route.mode \in {"env", "manual"} /\ (listed = {} \/ Direct \in listed)
            \/ route.mode = "config" /\ Direct \in Range(conf.servers)

(* An interrupt in the shared JavaScript engine belongs to the evaluation  *)
(* that holds it and has used up its own time: the timer of an evaluation  *)
(* that is over never stops the next one (runPACBounded).                  *)
InterruptIsolated == flag => vmMu # NoOne /\ timer[vmMu] = "fired"
=============================================================================
