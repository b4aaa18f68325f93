---------------------------- MODULE MCForwarding ----------------------------
(***************************************************************************)
(* Two requests compete for the pooled transports of one proxy, and for a  *)
(* budget that is too small for the bodies of both.                        *)
(***************************************************************************)
EXTENDS Forwarding

CONSTANTS P, S

Creds == [plans |-> {<< P, Direct >>}, bodies |-> {0, 2}, modes |-> << "NTLM", "BASIC" >>,
          identity |-> TRUE, replays |-> TRUE, session |-> "none", headers |-> {"NTLM", "BASIC"}]
Sspi == [plans |-> {<< P >>}, bodies |-> {0}, modes |-> << "NEGOTIATE", "NTLM" >>,
         identity |-> TRUE, replays |-> TRUE, session |-> "sspi", headers |-> {}]
Kerberos == [plans |-> {<< P >>}, bodies |-> {0}, modes |-> << "NEGOTIATE", "BASIC" >>,
             identity |-> TRUE, replays |-> TRUE, session |-> "kerberos", headers |-> {"BASIC"}]
PassThrough == [plans |-> {<< P >>, << S, Direct >>}, bodies |-> {0, 2}, modes |-> << >>,
                identity |-> FALSE, replays |-> FALSE, session |-> "none", headers |-> {"none"}]
MCConfs == {Creds, Sspi, Kerberos, PassThrough}
=============================================================================
