------------------------------ MODULE Kerberos ------------------------------
(***************************************************************************)
(* kerberos.go: the ticket manager.  Check starts a refresh in a goroutine *)
(* of its own, which renews or acquires the ticket with klist and kinit;   *)
(* Cleanup may come at any step of it.                                     *)
(*                                                                         *)
(* Instants are kept as the time left until them, 0 once they have passed  *)
(* or when the code has the zero time.                                     *)
(***************************************************************************)
EXTENDS Naturals

CONSTANTS
  CheckInterval, RetryInterval, RenewalMargin,
  Lifetime,    \* of a new ticket
  MaxRefresh   \* how long one refresh takes at most, by the timeouts of its commands

ASSUME KerberosAssumption ==
  /\ CheckInterval \in Nat \ {0} /\ RetryInterval \in Nat \ {0}
  /\ RenewalMargin \in Nat /\ Lifetime \in Nat \ {0} /\ MaxRefresh \in Nat

VARIABLES
  closed, refreshing,
  expiry, nextCheck, backoff,  \* TicketExpiry, NextCheck, Backoff
  file, life,                  \* the credential cache exists; how long its ticket lasts
  rf,                          \* [pc, force, expiry, age] of the refresh; age: of its reading of the clock
  cleanup                      \* "none", "remove" or "done"

manager == << closed, refreshing, expiry, nextCheck, backoff >>
ticketVars == << manager, file, life, rf, cleanup >>

Left(n, age) == IF n > age THEN n - age ELSE 0
Valid == file /\ life > 0

Idle == [pc |-> "none", force |-> FALSE, expiry |-> 0, age |-> 0]

TicketTypeOK ==
  /\ closed \in BOOLEAN /\ refreshing \in BOOLEAN /\ file \in BOOLEAN
  /\ expiry \in 0..Lifetime /\ nextCheck \in Nat /\ backoff \in {0, RetryInterval, CheckInterval}
  /\ life \in 0..Lifetime
  /\ rf \in [pc : {"none", "begin", "klist", "renew", "acquire", "kinit", "clear", "update", "end"},
             force : BOOLEAN, expiry : 0..Lifetime, age : 0..MaxRefresh]
  /\ cleanup \in {"none", "remove", "done"}

TicketInit ==
  /\ closed = FALSE /\ refreshing = FALSE
  /\ expiry = 0 /\ nextCheck = 0 /\ backoff = 0
  /\ file = FALSE /\ life = 0
  /\ rf = Idle /\ cleanup = "none"

-----------------------------------------------------------------------------
(* Check, forced by New, recovery and unmet challenges, unforced by the    *)
(* maintenance loop.                                                       *)
Check(force) ==
  /\ ~closed /\ ~refreshing
  /\ force \/ nextCheck = 0
  /\ refreshing' = TRUE
  /\ rf' = [Idle EXCEPT !.pc = "begin", !.force = force]
  /\ UNCHANGED << closed, expiry, nextCheck, backoff, file, life, cleanup >>

At(pc) == rf.pc = pc
Go(pc) == rf' = [rf EXCEPT !.pc = pc]

(* refresh: now and expirySnapshot, then what the ticket needs. *)
Needed(left) ==
  IF left > RenewalMargin THEN "klist" ELSE IF left > 0 THEN "renew" ELSE "acquire"

Begin ==
  /\ At("begin")
  /\ rf' = [rf EXCEPT !.pc = Needed(expiry), !.expiry = expiry, !.age = 0]
  /\ UNCHANGED << manager, file, life, cleanup >>

(* nextCheckFor, with now read age ago. *)
NextCheckFor(left, age) ==
  Left(IF CheckInterval > Left(left, RenewalMargin) THEN Left(left, RenewalMargin) ELSE CheckInterval, age)

Klist ==
  /\ At("klist")
  /\ \/ Valid /\ nextCheck' = NextCheckFor(rf.expiry, rf.age) /\ Go("end")
     \/ ~Valid /\ Go("renew") /\ UNCHANGED nextCheck
  /\ UNCHANGED << closed, refreshing, expiry, backoff, file, life, cleanup >>

KinitRenew ==
  /\ At("renew")
  /\ \/ Valid /\ life' = Lifetime /\ Go("update")
     \/ Go("acquire") /\ life' = life
  /\ UNCHANGED << manager, file, cleanup >>

(* Mutant of ConsumeBackoff: the backoff is spent again and again. *)
KeepBackoff ==
  IF ~rf.force /\ backoff > 0
  THEN nextCheck' = Left(backoff, rf.age) /\ Go("end") /\ UNCHANGED backoff
  ELSE Go("kinit") /\ UNCHANGED << nextCheck, backoff >>

ConsumeBackoff ==
  IF ~rf.force /\ backoff > 0
  THEN nextCheck' = Left(backoff, rf.age) /\ backoff' = 0 /\ Go("end")
  ELSE Go("kinit") /\ UNCHANGED << nextCheck, backoff >>

Acquire ==
  /\ At("acquire")
  /\ ConsumeBackoff
  /\ UNCHANGED << closed, refreshing, expiry, file, life, cleanup >>

(* KinitWithPassword.  An error may come after kinit has done its work.    *)
KinitSucceeds ==
  /\ At("kinit")
  /\ file' = TRUE /\ life' = Lifetime
  /\ Go("clear")
  /\ UNCHANGED << manager, cleanup >>

KinitFails ==
  /\ At("kinit")
  /\ \/ UNCHANGED << file, life >>
     \/ file' = TRUE /\ life' = Lifetime
  /\ backoff' \in {RetryInterval, CheckInterval}
  /\ Go("end")
  /\ UNCHANGED << closed, refreshing, expiry, nextCheck, cleanup >>

NoPassword ==
  /\ At("kinit")
  /\ Go("end")
  /\ UNCHANGED << manager, file, life, cleanup >>

ClearBackoff ==
  /\ At("clear")
  /\ backoff' = 0
  /\ Go("update")
  /\ UNCHANGED << closed, refreshing, expiry, nextCheck, file, life, cleanup >>

(* UpdateExpiry and commitExpiry; klist may fail or not be understood. *)
UpdateExpiry ==
  /\ At("update")
  /\ \/ file /\ expiry' = life /\ nextCheck' = NextCheckFor(life, 0)
     \/ expiry' = 0 /\ nextCheck' = RetryInterval
  /\ Go("end")
  /\ UNCHANGED << closed, refreshing, backoff, file, life, cleanup >>

(* Mutant of End: a refresh that Cleanup overtook leaves its ticket. *)
EndKeepingCache ==
  /\ At("end")
  /\ refreshing' = FALSE
  /\ rf' = Idle
  /\ UNCHANGED << closed, expiry, nextCheck, backoff, file, life, cleanup >>

(* The deferred function of refresh. *)
End ==
  /\ At("end")
  /\ file' = (file /\ ~closed)
  /\ refreshing' = FALSE
  /\ rf' = Idle
  /\ UNCHANGED << closed, expiry, nextCheck, backoff, life, cleanup >>

Refresh ==
  \/ Begin \/ Klist \/ KinitRenew \/ Acquire \/ KinitSucceeds \/ KinitFails \/ NoPassword
  \/ ClearBackoff \/ UpdateExpiry \/ End

-----------------------------------------------------------------------------
(* Cleanup. *)
CleanupBegins ==
  /\ cleanup = "none"
  /\ closed' = TRUE /\ cleanup' = "remove"
  /\ UNCHANGED << refreshing, expiry, nextCheck, backoff, file, life, rf >>

RemoveCCache ==
  /\ cleanup = "remove"
  /\ file' = FALSE /\ cleanup' = "done"
  /\ UNCHANGED << manager, life, rf >>

(* The file is removed by somebody else. *)
Vanish ==
  /\ file /\ ~closed
  /\ file' = FALSE
  /\ UNCHANGED << manager, life, rf, cleanup >>

TimePasses ==
  /\ refreshing => rf.age < MaxRefresh
  /\ expiry' = Left(expiry, 1) /\ nextCheck' = Left(nextCheck, 1) /\ life' = Left(life, 1)
  /\ rf' = IF refreshing THEN [rf EXCEPT !.age = @ + 1] ELSE rf
  /\ UNCHANGED << closed, refreshing, backoff, file, cleanup >>

TicketNext ==
  \/ \E force \in BOOLEAN : Check(force)
  \/ Refresh \/ CleanupBegins \/ RemoveCCache \/ Vanish \/ TimePasses

TicketSpec == TicketInit /\ [][TicketNext]_ticketVars

(* The maintenance loop keeps checking, commands end by their timeouts,    *)
(* and an acquisition that is tried again and again succeeds at some time. *)
TicketFairSpec ==
  /\ TicketSpec
  /\ WF_ticketVars(TimePasses) /\ WF_ticketVars(Check(FALSE))
  /\ WF_ticketVars(Refresh) /\ SF_ticketVars(KinitSucceeds)

-----------------------------------------------------------------------------
(* Once Cleanup has returned and no refresh is seen running, no credential *)
(* cache is left, however the two overlapped.                              *)
NoCacheLeft == cleanup = "done" /\ ~refreshing => ~file

(* A ticket that was lost, ran out or could not be had is there again some *)
(* time later: no backoff, check time or refresh in flight keeps the       *)
(* manager from trying.                                                    *)
TicketReturns == []<>(closed \/ Valid)
=============================================================================
