------------------------- MODULE MCRouteDecision --------------------------
(* RouteDecision for one request over two DNS endpoints in every mode, and *)
(* for two requests that share a PAC runtime.                              *)
EXTENDS RouteDecision

Name(labels) == [labels |-> labels, ip |-> NoIP]
Corp == Name(<<"a", "corp">>)
Solo == Name(<<"box">>)
Lit  == [labels |-> <<>>, ip |-> "v4a"]

MCTargets == { [host |-> Corp, port |-> 1, scheme |-> "http"],
               [host |-> Corp, port |-> 2, scheme |-> ""],
               [host |-> Solo, port |-> 1, scheme |-> "https"],
               [host |-> Lit,  port |-> 1, scheme |-> "http"] }

Code(c) == [code |-> c, cnames |-> {}, addrs |-> <<>>]
Say(m) == [first |-> m, retry |-> Code("io")]
Plain(ip, ttl) == [code |-> "ok", cnames |-> {}, addrs |-> << <<Asked, ip, ttl>> >>]
Aliased == [code |-> "ok", cnames |-> {<<Asked, "b", 1>>, <<"b", "c", 3>>, <<"c", "b", 3>>},
            addrs |-> << <<"c", "v4a", 2>>, <<"d", "v4b", 0>> >>]
Stray   == [code |-> "ok", cnames |-> {}, addrs |-> << <<"d", "v4a", 1>> >>]

FirstSaid  == {Say(Code("io")), Say(Code("nx")), Say(Plain("v4a", 2)), Say(Aliased), Say(Stray),
               [first |-> Code("cut"), retry |-> Plain("v4b", 1)]}
SecondSaid == {Say(Code("io")), Say(Code("servfail")), Say(Code("nx")), Say(Plain("v6a", 1))}
MCAnswers == {[f \in {"A", "AAAA"} |-> IF f = "A" THEN a ELSE b] : a \in FirstSaid, b \in SecondSaid}

Proxy(h) == <<"http", h>>
Nothing == <<"BLANK", "">>
NoSys == [found |-> FALSE]
NoEnv == [found |-> FALSE]
Env(h, s, a) == [found |-> TRUE, http |-> h, https |-> s, all |-> a, noproxy |-> <<>>]
Sys(auto, pac, h, a) ==
  [found |-> TRUE, auto |-> auto, pac |-> pac, bypass |-> << [kind |-> "local", ips |-> {}] >>,
   manual |-> [http |-> h, all |-> a]]

Host(base, port) == [kind |-> "host", ips |-> {}, base |-> base, port |-> port]
Sub(base) == [kind |-> "sub", ips |-> {}, base |-> base]
Net(ips)  == [kind |-> "ip", ips |-> ips]

Two == [kind |-> "endpoints", eps |-> <<"udp", "doh">>]
Pat(base, wild) == [base |-> base, wild |-> wild]
Ruled == [kind |-> "rules", rules |->
           << [only |-> {Pat(<<"corp">>, TRUE)}, bypass |-> {Pat(<<"b", "corp">>, FALSE)}, to |-> Two],
              [only |-> {Pat(<<"none">>, FALSE)}, bypass |-> {}, to |-> Two] >>]

Base == [mode |-> "none", servers |-> <<>>, noproxy |-> <<>>, sys |-> NoSys, env |-> NoEnv,
         pacLoads |-> TRUE, policy |-> Two, requests |-> {"r1"}]

MCConfigs ==
  { Base,
    [Base EXCEPT !.mode = "config", !.servers = <<Proxy("p")>>, !.noproxy = <<Net({"v4a"})>>],
    [Base EXCEPT !.mode = "config", !.servers = <<Proxy("p"), Direct>>, !.policy = Ruled,
                 !.noproxy = <<Sub(<<"corp">>), Net({"v4b"})>>],
    [Base EXCEPT !.mode = "config", !.servers = <<Nothing>>],
    [Base EXCEPT !.mode = "config", !.servers = <<Proxy("bad")>>],
    [Base EXCEPT !.mode = "config", !.noproxy = << [kind |-> "bad", ips |-> {}] >>],
    [Base EXCEPT !.env = Env(<<Proxy("p"), Proxy("p")>>, <<>>, <<>>), !.policy = System,
                 !.noproxy = <<Host(<<"corp">>, 2)>>],
    [Base EXCEPT !.env = Env(<<Nothing>>, <<Nothing, Direct>>, <<Proxy("q")>>), !.policy = System],
    [Base EXCEPT !.env = Env(<<>>, <<Proxy("bad")>>, <<>>)],
    [Base EXCEPT !.sys = Sys(FALSE, FALSE, <<Nothing>>, <<>>), !.policy = System],
    [Base EXCEPT !.sys = Sys(FALSE, FALSE, <<>>, <<Proxy("q"), Direct>>), !.policy = System],
    [Base EXCEPT !.sys = Sys(TRUE, FALSE, <<>>, <<>>), !.policy = System, !.noproxy = <<Net({"v6a"})>>],
    [Base EXCEPT !.sys = Sys(FALSE, TRUE, <<>>, <<>>), !.policy = System],
    [Base EXCEPT !.mode = "configPAC", !.pacLoads = FALSE],
    [Base EXCEPT !.mode = "configPAC", !.policy = System, !.requests = {"r1", "r2"}] }

MCScripts == { Error, <<>>, << <<"BLANK", "">>, <<"DIRECT", "">> >>,
               << <<"PROXY", "p">>, <<"HTTP", "p">>, <<"DIRECT", "">> >>,
               << <<"PROXY", "p">>, <<"JUNK", "p">> >>, << <<"SOCKS", "bad">> >>,
               << <<"PROXY", "p">>, <<"PROXY", "q">>, <<"HTTPS", "q">>, <<"SOCKS", "q">> >> }
MCSystemResults == { Error, <<>>, <<Direct>>, <<Proxy("p"), Proxy("p"), Direct>>, <<Proxy("bad")>>, <<Nothing>>,
                     <<Nothing, Proxy("p"), Proxy("q"), Proxy("p")>>, <<Proxy("p"), Proxy("q"), Proxy("p"), Proxy("q")>> }
MCOsAnswers == { <<>>, <<"v4a">>, <<"v6a">> }
=============================================================================
