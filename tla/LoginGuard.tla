----------------------------- MODULE LoginGuard -----------------------------
(***************************************************************************)
(* Logging in to one account: the sliding-window rate limits, the failure  *)
(* counter and the lock it leads to, password check, second factor.  Every *)
(* Redis command is a step of its own; requests run concurrently on any    *)
(* number of replicas.  Time is the expiry of keys.                        *)
(***************************************************************************)
EXTENDS Integers, FiniteSets

CONSTANTS
  Logins,       \* requests in progress at a time
  Threshold,    \* failures that lock the account
  PerIP, PerAccount,   \* attempts allowed per window
  MaxHits,      \* bound on the attempts recorded in one window
  MaxFails,     \* bound on the failure counter
  MaxLapses     \* bound on failed Redis calls and abandoned requests

ASSUME LoginAssumption ==
  /\ {PerIP, PerAccount, MaxHits, MaxFails, MaxLapses} \subseteq Nat /\ Threshold \in Nat \ {0}
  /\ IsFiniteSet(Logins) /\ Logins # {}

VARIABLES
  account,   \* the users row: archived, mustChange, totp
  fails,     \* auth:lk:fails, 0 when absent
  failsTtl,  \* the counter has an expiry
  until,     \* auth:lk:until exists
  hits,      \* sorted-set sizes of the two rate keys
  login,     \* the requests
  partial,   \* a partial token has been handed out
  guesses,   \* wrong passwords compared since the last reset or expiry
  allowed,   \* attempts allowed in the current window, per rate key
  lapses     \* failed calls so far

loginVars == <<account, fails, failsTtl, until, hits, login, partial, guesses, allowed, lapses>>
lockVars == <<fails, failsTtl, until>>
ghosts == <<guesses, allowed>>

Keys == {"ip", "user"}
Account == [archived: BOOLEAN, mustChange: BOOLEAN, totp: BOOLEAN]
atMostOne(a) == Cardinality({f \in DOMAIN a : a[f]}) <= 1
Idle == [pc |-> "idle", seen |-> 0]
Login == [pc: {"idle", "ip", "preflight", "account", "accountAdd", "verify",
               "incr", "expire", "lock", "reset"},
          seen: 0..MaxHits]
limit(k) == IF k = "ip" THEN PerIP ELSE PerAccount

LoginInit ==
  /\ account \in {a \in Account : atMostOne(a)}
  /\ fails = 0 /\ failsTtl = FALSE /\ until = FALSE
  /\ hits = [k \in Keys |-> 0] /\ allowed = [k \in Keys |-> 0]
  /\ login = [p \in Logins |-> Idle]
  /\ partial = FALSE /\ guesses = 0 /\ lapses = 0

goto(p, pc) == login' = [login EXCEPT ![p] = [pc |-> pc, seen |-> 0]]

-----------------------------------------------------------------------------
(* allow: ZCARD, then ZADD, in one pipeline that is not a transaction: the *)
(* commands of two requests may alternate.                                 *)
Count(p, k, from, to) ==
  /\ login[p].pc = from
  /\ hits[k] < MaxHits
  /\ login' = [login EXCEPT ![p] = [pc |-> to, seen |-> hits[k]]]
  /\ UNCHANGED <<account, lockVars, hits, partial, ghosts, lapses>>

(* The attempt is compared with the limit after it was counted in.         *)
FaultOffByOne(k, seen) == seen <= limit(k)

underLimit(k, seen) == seen < limit(k)

Add(p, k, from, to) ==
  /\ login[p].pc = from
  /\ hits' = [hits EXCEPT ![k] = @ + 1]
  /\ IF underLimit(k, login[p].seen)
     THEN goto(p, to) /\ allowed' = [allowed EXCEPT ![k] = @ + 1]
     ELSE goto(p, "idle") /\ UNCHANGED allowed
  /\ UNCHANGED <<account, lockVars, partial, guesses, lapses>>

AllowIP(p) == Count(p, "ip", "idle", "ip") \/ Add(p, "ip", "ip", "preflight")
AllowAccount(p) == Count(p, "user", "account", "accountAdd") \/ Add(p, "user", "accountAdd", "verify")

(* IsLocked is not asked.                                                  *)
FaultUnguarded == FALSE

IsLocked == until

(* loginPreflight between the two limits: an unknown organisation or       *)
(* login, an archived account and a locked one end the request.            *)
loginPreflight(p, known) ==
  /\ login[p].pc = "preflight"
  /\ goto(p, IF known /\ ~account.archived /\ ~IsLocked THEN "account" ELSE "idle")
  /\ UNCHANGED <<account, lockVars, hits, partial, ghosts, lapses>>

(* verifyPassword: a hasher error ends the request without a failure.      *)
verifyPassword(p, verdict) ==
  /\ login[p].pc = "verify"
  /\ CASE verdict = "wrong" -> goto(p, "incr") /\ guesses' = guesses + 1
       [] verdict = "right" -> goto(p, "reset") /\ UNCHANGED guesses
       [] verdict = "error" -> goto(p, "idle") /\ UNCHANGED guesses
  /\ UNCHANGED <<account, lockVars, hits, partial, allowed, lapses>>

(* RegisterFailure: INCR, EXPIRE on the first failure, SET until.          *)
afterIncr(n) == IF n < Threshold THEN "idle" ELSE "lock"
Incr(p) ==
  /\ login[p].pc = "incr"
  /\ fails < MaxFails
  /\ fails' = fails + 1
  /\ goto(p, IF fails + 1 = 1 THEN "expire" ELSE afterIncr(fails + 1))
  /\ UNCHANGED <<account, failsTtl, until, hits, partial, ghosts, lapses>>
ExpireCounter(p) ==
  /\ login[p].pc = "expire"
  /\ failsTtl' = (fails > 0)
  /\ goto(p, afterIncr(1))
  /\ UNCHANGED <<account, fails, until, hits, partial, ghosts, lapses>>
SetUntil(p) ==
  /\ login[p].pc = "lock"
  /\ until' = TRUE
  /\ goto(p, "idle")
  /\ UNCHANGED <<account, fails, failsTtl, hits, partial, ghosts, lapses>>

(* Reset after a right password; its failure is only audited.  Then the    *)
(* password may be expired, or a second factor due.                        *)
Reset(p, ok) ==
  /\ login[p].pc = "reset"
  /\ ok \/ lapses < MaxLapses
  /\ IF ok THEN fails' = 0 /\ failsTtl' = FALSE /\ until' = FALSE /\ guesses' = 0 /\ UNCHANGED lapses
     ELSE UNCHANGED <<lockVars, guesses>> /\ lapses' = lapses + 1
  /\ partial' = (partial \/ (account.totp /\ ~account.mustChange))
  /\ goto(p, "idle")
  /\ UNCHANGED <<account, hits, allowed>>

(* LoginTOTP: the partial token is checked, then the code; a wrong code    *)
(* counts as a failure.                                                    *)
LoginTOTP(p, right) ==
  /\ login[p].pc = "idle" /\ partial
  /\ goto(p, IF right THEN "idle" ELSE "incr")
  /\ UNCHANGED <<account, lockVars, hits, partial, ghosts, lapses>>

(* A Redis call fails, or the request is abandoned.                        *)
Abandon(p) ==
  /\ login[p].pc # "idle" /\ lapses < MaxLapses
  /\ lapses' = lapses + 1
  /\ goto(p, "idle")
  /\ UNCHANGED <<account, lockVars, hits, partial, ghosts>>

-----------------------------------------------------------------------------
(* Expiry in Redis: the lock, the counter (if it has a TTL), the window.   *)
LockExpires ==
  /\ until /\ until' = FALSE /\ guesses' = 0
  /\ UNCHANGED <<account, fails, failsTtl, hits, login, partial, allowed, lapses>>
CounterExpires ==
  /\ failsTtl /\ fails' = 0 /\ failsTtl' = FALSE /\ guesses' = 0
  /\ UNCHANGED <<account, until, hits, login, partial, allowed, lapses>>
WindowPasses ==
  /\ \E k \in Keys : hits[k] > 0
  /\ hits' = [k \in Keys |-> 0] /\ allowed' = [k \in Keys |-> 0]
  /\ UNCHANGED <<account, lockVars, login, partial, guesses, lapses>>

LoginStep(p) ==
  \/ AllowIP(p) \/ AllowAccount(p)
  \/ \E known \in BOOLEAN : loginPreflight(p, known)
  \/ \E verdict \in {"wrong", "right", "error"} : verifyPassword(p, verdict)
  \/ Incr(p) \/ ExpireCounter(p) \/ SetUntil(p)
  \/ \E ok \in BOOLEAN : Reset(p, ok)
  \/ \E right \in BOOLEAN : LoginTOTP(p, right)
  \/ Abandon(p)
LoginNext == (\E p \in Logins : LoginStep(p)) \/ LockExpires \/ CounterExpires \/ WindowPasses

LoginSpec == LoginInit /\ [][LoginNext]_loginVars

-----------------------------------------------------------------------------
LoginTypeOK ==
  /\ account \in Account /\ fails \in 0..MaxFails /\ {failsTtl, until, partial} \subseteq BOOLEAN
  /\ hits \in [Keys -> 0..MaxHits + Cardinality(Logins)] /\ login \in [Logins -> Login]
  /\ lapses \in 0..MaxLapses

(* However the requests interleave, no more wrong passwords are compared   *)
(* than the threshold, one for each other request already past the lock    *)
(* check, and one for each Redis call that failed (lockout.go).            *)
BoundedGuesses == guesses <= Threshold + Cardinality(Logins) - 1 + lapses

(* A window admits the configured number of attempts, exceeded by at most  *)
(* the requests that counted before another was added (ratelimit.go).      *)
RateIsBounded == \A k \in Keys : allowed[k] <= limit(k) + Cardinality(Logins) - 1

(* The lockout and the rate limit together bound what a password can be    *)
(* tried (lockout.go, ratelimit.go).                                       *)
LoginsAreBounded == LoginTypeOK /\ BoundedGuesses /\ RateIsBounded
=============================================================================
