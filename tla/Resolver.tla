----------------------------- MODULE Resolver -----------------------------
(***************************************************************************)
(* internal/dnsresolver/resolver.go: what a lookup under a DNS policy      *)
(* returns, given what the endpoints answer.  A lookup touches no shared   *)
(* state but the last error shown in the status, so it is an operator.     *)
(*                                                                         *)
(* A host is [labels, ip]: a name, outermost label last, or a literal      *)
(* address with no labels.  A policy is [kind |-> "system"],               *)
(* [kind |-> "endpoints", eps |-> schemes] or [kind |-> "rules", rules],   *)
(* a rule being [only, bypass, to]; domain patterns are [base, wild].      *)
(* What an endpoint says to one question is [first, retry]: its answer,    *)
(* and the one over TCP should the first have been cut short.              *)
(***************************************************************************)
EXTENDS Naturals, Sequences, FiniteSets, FiniteSetsExt, Functions, Subsequences

CONSTANTS NoIP, V4, V6   \* no address; the addresses of the two families

(* dnsmessage names in answers: the name asked for, and aliases. *)
Asked == "asked"

Families == <<"A", "AAAA">>
FamilyIPs(f) == IF f = "A" THEN V4 ELSE V6

-----------------------------------------------------------------------------
(* Rules. *)
EndsWith(labels, base) ==
  Len(base) <= Len(labels) /\ SubSeq(labels, Len(labels) - Len(base) + 1, Len(labels)) = base

MatchDomain(labels, p) ==
  /\ labels # <<>>
  /\ EndsWith(labels, p.base)
  /\ p.wild => labels # p.base

MatchesAny(host, patterns) == \E p \in patterns : MatchDomain(host.labels, p)

(* The first rule that has a say about the host. *)
Applies(rule, host) ==
  \/ MatchesAny(host, rule.bypass)
  \/ rule.only = {}
  \/ MatchesAny(host, rule.only)

System == [kind |-> "system"]

Resolves(policy, host) ==
  IF policy.kind # "rules" THEN policy
  ELSE LET said == {i \in DOMAIN policy.rules : Applies(policy.rules[i], host)}
       IN IF said = {} THEN System
          ELSE LET rule == policy.rules[Min(said)]
               IN IF MatchesAny(host, rule.bypass) THEN System ELSE rule.to

-----------------------------------------------------------------------------
(* One question to one endpoint.  An answer is [code, cnames, addrs].  The *)
(* code is "io" (no answer within the timeout, a failed connection, a      *)
(* status other than 200), "malformed" (it does not parse, or belongs to   *)
(* another query), "servfail" (any other code), "nx", "cut" (truncated) or *)
(* "ok"; the records are aliases <<owner, target, ttl>> and addresses      *)
(* <<owner, address, ttl>>.                                                *)
Exchange(scheme, said) ==
  IF scheme = "udp" /\ said.first.code = "cut" THEN said.retry ELSE said.first

Failed(terminal) ==
  [ok |-> FALSE, terminal |-> terminal, ips |-> <<>>, ttl |-> 0, by |-> "endpoint"]

Found(ips, ttl) == [ok |-> TRUE, terminal |-> FALSE, ips |-> ips, ttl |-> ttl, by |-> "endpoint"]

(* The first occurrence of every element. *)
Dedupe(s) == Sift(s, {i \in DOMAIN s : \A j \in 1..(i - 1) : s[j] # s[i]})

(* The names that the aliases lead to: every pass over the answers adds    *)
(* the targets of the names known so far.                                  *)
Allowed(m) ==
  LET pass(c, names) == names \cup {d[2] : d \in {e \in m.cnames : e[1] \in names}}
  IN FoldSet(pass, {Asked}, m.cnames)

ParseResponseTTL(m, f) ==
  LET names == Allowed(m)
      mine == Sift(m.addrs, {i \in DOMAIN m.addrs : /\ m.addrs[i][1] \in names
                                                    /\ m.addrs[i][2] \in FamilyIPs(f)})
  IN IF mine = <<>> THEN Failed(TRUE)
     ELSE Found([i \in DOMAIN mine |-> mine[i][2]],
                Min({mine[i][3] : i \in DOMAIN mine}
                    \cup {c[3] : c \in {d \in m.cnames : d[1] \in names}}))

Family(scheme, f, said) ==
  LET m == Exchange(scheme, said)
  IN IF m.code = "ok" THEN ParseResponseTTL(m, f) ELSE Failed(m.code = "nx")

(* Mutant of LookupEndpoint: one family's denial speaks for both. *)
LookupEndpointEitherDenies(scheme, said) ==
  LET v == [i \in 1..2 |-> Family(scheme, Families[i], said[Families[i]])]
      good == {i \in 1..2 : v[i].ok}
  IN IF good = {} THEN Failed(\E i \in 1..2 : v[i].terminal)
     ELSE Found(Dedupe(v[1].ips \o v[2].ips), Min({v[i].ttl : i \in good}))

(* Both families in turn: any address is a success, whatever became of the *)
(* other family; a denial is final if both families were denied.           *)
LookupEndpoint(scheme, said) ==
  LET v == [i \in 1..2 |-> Family(scheme, Families[i], said[Families[i]])]
      good == {i \in 1..2 : v[i].ok}
  IN IF good = {} THEN Failed(\A i \in 1..2 : v[i].terminal)
     ELSE Found(Dedupe(v[1].ips \o v[2].ips), Min({v[i].ttl : i \in good}))

-----------------------------------------------------------------------------
(* The endpoints in order.  said[i] is what the i-th one answers, os what  *)
(* the operating system would; the caller's context ends while endpoint    *)
(* number cut is asked (its last question has failed then), or never: 0.   *)
Endpoints(eps, said, cut) ==
  LET verdict(i) == LookupEndpoint(eps[i], said[i])
      ends == {i \in DOMAIN eps : verdict(i).ok \/ verdict(i).terminal \/ i = cut}
  IN IF eps = <<>> THEN Failed(FALSE)
     ELSE verdict(IF ends = {} THEN Len(eps) ELSE Min(ends))

Literal(host) == [ok |-> TRUE, terminal |-> FALSE, ips |-> <<host.ip>>, ttl |-> 0, by |-> "literal"]

OsVerdict(os) == [ok |-> os # <<>>, terminal |-> FALSE, ips |-> os, ttl |-> 0, by |-> "os"]

LookupIPTTL(policy, host, said, os, cut) ==
  LET to == Resolves(policy, host)
  IN IF host.ip # NoIP THEN Literal(host)
     ELSE IF to.kind = "system" THEN OsVerdict(os)
     ELSE Endpoints(to.eps, said, cut)

(* DialContext: who resolves the name of a connection, and the address     *)
(* that is connected to when those of `up` can be reached.                 *)
DialsByName(policy, host) == policy.kind = "system" \/ host.ip # NoIP

FirstUp(ips, up) ==
  LET reached == {i \in DOMAIN ips : ips[i] \in up}
  IN IF reached = {} THEN NoIP ELSE ips[Min(reached)]
=============================================================================
