------------------------------ MODULE MCConsole ------------------------------
(***************************************************************************)
(* What serves the operators' browsers, for TLC: one realtime connection   *)
(* in detail, the hub with three sockets on two replicas and users of two  *)
(* tenants, the resolver caches, login, refresh tokens, user accounts, the *)
(* key cache and onboarding.  The parts share no variable, so a behaviour  *)
(* moves one of them and scenario says which.  The hub has three kinds of  *)
(* behaviour: broadcasts to two sockets of one replica while Redis works;  *)
(* the same to one socket whose claims are exchanged, for those of the     *)
(* other tenant too; and a failing Redis with sockets on both replicas     *)
(* while nobody broadcasts.                                                *)
(***************************************************************************)
EXTENDS RealtimeHub, ResolverCache, LoginGuard, RefreshTokens, Accounts, KeyCache, Tenants

CONSTANTS c1, c2, c3, r1, r2, u1, u2, t1, t2, call1, Scenarios

VARIABLE scenario

twoReplicas == [c \in {c1, c2, c3} |-> IF c = c3 THEN r2 ELSE r1]
mcClaims == {[tenant |-> t1, user |-> u1, roles |-> {"operator", "admin"}],
             [tenant |-> t2, user |-> u2, roles |-> {"operator"}]}
mcFilters == {[project |-> Nil, operator |-> Nil, call |-> call1]}
mcTenantOf == [x \in {u1, u2, call1} |-> IF x = u2 THEN t2 ELSE t1]
mcCallers == {[roles |-> {"admin"}, org |-> "own"], [roles |-> {"operator"}, org |-> "own"],
              [roles |-> {"admin"}, org |-> "other"]}

realtimeVars == <<link, rtVars, cacheVars>>
officeVars == <<loginVars, tokenVars, accountVars, keyVars, tenantVars>>
vars == <<scenario, realtimeVars, officeVars>>

Init ==
  /\ scenario \in Scenarios
  /\ ConnInit /\ HubInit /\ CacheInit
  /\ LoginInit /\ TokenInit /\ AccountInit /\ KeyInit /\ TenantInit
  /\ scenario # "login" => account = [archived |-> FALSE, mustChange |-> FALSE, totp |-> FALSE]
  /\ scenario # "keys" => flavour = "dek"
  /\ scenario # "cache" => kind = "user"

(* c1 and c2 are alike: whichever connects first is called c1, and it is   *)
(* the one that may follow the health of the trunks.                       *)
InTurn ==
  /\ ws'[c1].pc = "idle" => ws'[c2].pc = "idle"
  /\ ws'[c2].req # Nil => ws'[c2].req.topic = "op.commands"

RealtimeNext ==
  \/ scenario = "connection" /\ ConnNext /\ UNCHANGED <<rtVars, cacheVars>>
  \/ /\ scenario = "registry" /\ HubNext /\ InTurn
     /\ faults' = 0 /\ ws'[c3].pc = "idle"
     /\ byTenant'[t2] = {} /\ \A c \in Conns : ~ws'[c].moved /\ UNCHANGED <<link, cacheVars>>
  \/ /\ scenario = "refreshed" /\ HubNext
     /\ faults' = 0 /\ ws'[c2].pc = "idle" /\ ws'[c3].pc = "idle" /\ UNCHANGED <<link, cacheVars>>
  \/ /\ scenario = "presence" /\ HubNext /\ InTurn
     /\ byTenant'[t2] = {} /\ \A c \in Conns : ~ws'[c].moved
     /\ UNCHANGED <<link, cacheVars, cast, victims, subs>>
  \/ scenario = "cache" /\ CacheNext /\ UNCHANGED <<link, rtVars>>

(* An account that is archived or must change its password has one login   *)
(* at a time, the others race.                                             *)
Queues ==
  account.archived \/ account.mustChange =>
    \E p \in Logins : \A q \in Logins \ {p} : login'[q] = Idle

OfficeNext ==
  \/ scenario = "login" /\ LoginNext /\ Queues /\ UNCHANGED <<tokenVars, accountVars, keyVars, tenantVars>>
  \/ scenario = "tokens" /\ TokenNext /\ UNCHANGED <<loginVars, accountVars, keyVars, tenantVars>>
  \/ scenario = "users" /\ AccountNext /\ UNCHANGED <<loginVars, tokenVars, keyVars, tenantVars>>
  \/ scenario = "keys" /\ KeyNext /\ UNCHANGED <<loginVars, tokenVars, accountVars, tenantVars>>
  \/ scenario = "tenants" /\ TenantNext /\ UNCHANGED <<loginVars, tokenVars, accountVars, keyVars>>

Next ==
  /\ UNCHANGED scenario
  /\ \/ RealtimeNext /\ UNCHANGED officeVars
     \/ OfficeNext /\ UNCHANGED realtimeVars

(* ConnFairness, in the behaviours that move the connection.               *)
connected == scenario = "connection"

Fairness ==
  /\ WF_link(connected /\ Run) /\ WF_link(connected /\ RunReturns)
  /\ WF_link(connected /\ ReaderEnds /\ link.closed # "no")
  /\ WF_link(connected /\ WriterEnds)
  /\ WF_link(connected /\ PingTick) /\ WF_link(connected /\ PingerEnds)

SafetySpec == Init /\ [][Next]_vars
Spec == SafetySpec /\ Fairness

-----------------------------------------------------------------------------
(* What a connection delivers (internal/realtime/service/connection.go):   *)
(* no gap in the critical frames, and none held up by telemetry.           *)
EventsAreKept == connected => ConnTypeOK /\ NoCriticalGap /\ CriticalFirst

(* What is kept of something else agrees with it: the hub's indexes and    *)
(* presence in Redis with the sockets, the resolver caches with the rows   *)
(* (internal/realtime/service), and the cache of data keys, which serves a *)
(* tenant its own key and none it has already wiped                        *)
(* (internal/tenancy/service/kms_cache.go).  The properties of the other   *)
(* parts are stated in their modules: LoginsAreBounded, TokensAreSafe,     *)
(* UsersAreConsistent and TenantsAreAccounted.                             *)
CopiesAreTrue ==
  /\ scenario \in {"registry", "refreshed", "presence"} => HubTypeOK /\ HubIndexesAgree /\ QuietMeansOffline
  /\ scenario = "cache" => CacheTypeOK /\ StaleAtMostTtl
  /\ scenario = "keys" => KeyTypeOK /\ CacheHoldsLiveKeys /\ RightKeyIsUsed
=============================================================================
