---------------------------- MODULE RealtimeHub ----------------------------
(***************************************************************************)
(* The hubs of the API replicas and the handlers of their WebSocket        *)
(* connections: registration, subscriptions and their access rules, the    *)
(* two-phase broadcast, closing, and the presence key that connections of  *)
(* one user share in Redis across replicas.  What happens inside one       *)
(* connection is RealtimeConnection; here a send either succeeds or        *)
(* overflows and closes.  A refresh frame may replace the claims of a      *)
(* connection; the handler's presence calls keep those of the handshake.   *)
(***************************************************************************)
EXTENDS RealtimeConnection, FiniteSets

CONSTANTS
  Conns, Replicas, replicaOf,  \* sockets, and the replica that accepted each
  ClaimSet,                    \* identities [tenant, user, roles] a token may carry
  Filters,                     \* subscription filters [project, operator, call]
  HubTopics,                   \* topics in use, of the six
  TenantOf,                    \* owner of every user, project and call id
  SubIds,                      \* supply of subscription ids
  Casters,                     \* goroutines that broadcast
  Nil

ASSUME HubAssumption ==
  /\ replicaOf \in [Conns -> Replicas] /\ HubTopics \subseteq Topics
  /\ \A c \in ClaimSet : c.user \in DOMAIN TenantOf /\ TenantOf[c.user] = c.tenant

VARIABLES
  ws,         \* per socket: the wsHandler goroutine and the Connection's close state
  flat,       \* connections registered with the hub of their replica
  byTenant,   \* the same, by the tenant of their claims when they were attached
  subs,       \* subscription id -> [conn, topic, filter], or Nil
  bySubConn,  \* connection -> ids of its subscriptions
  cast,       \* broadcasts in progress: connections still to be sent to
  victims,    \* per replica: connections Shutdown or DisconnectByUser still has to close
  refcount,   \* per replica and user: open connections
  presence,   \* Redis: the replica that announced the user, or Nil
  faults      \* Redis failures and lapses so far, at most MaxFaults

hubVars == <<flat, byTenant, subs, bySubConn>>
presenceVars == <<refcount, presence, faults>>
rtVars == <<ws, flat, byTenant, subs, bySubConn, cast, victims, refcount, presence, faults>>

MaxFaults == 1
Users == {c.user : c \in ClaimSet}
Tenants == {c.tenant : c \in ClaimSet}

Handler ==
  [pc: {"idle", "indexed", "wired", "counted", "running", "uncounted", "gone"},
   first: ClaimSet \cup {Nil},              \* what AuthHandshake returned
   claims: ClaimSet \cup {Nil},             \* Connection.claims
   moved: BOOLEAN,                          \* a refresh has put it under another tenant
   closed: BOOLEAN,
   hook: {"unset", "set", "due", "done"},   \* Connection.onClose
   edge: BOOLEAN,                           \* this handler saw the count leave or reach zero
   req: [topic: Topics, filter: Filters] \cup {Nil}]

userOf(c) == ws[c].claims.user
tenantOf(c) == ws[c].claims.tenant
peerOf(c) == ws[c].first.user   \* the user of the handler's presence calls

-----------------------------------------------------------------------------
(* Access rules of the topics.                                             *)
Staff == {"admin", "supervisor"}
Anyone == {"operator", "admin", "supervisor"}

topicRules ==
  [t \in Topics |->
     [allowedRoles  |-> CASE t \in {"operators.state", "dialer.queue"} -> Staff
                          [] t = "trunks.health" -> {"admin"}
                          [] OTHER -> Anyone,
      requireCallID |-> t = "call.events",
      selfOnly      |-> t \in {"notifications.user", "op.commands"}]]

hasAnyRole(have, want) == have \cap want # {}

checkSelfOnly(rule, claims, filter) ==
  rule.selfOnly => filter.operator \in {Nil, claims.user}

(* A resolver that fails, or does not know the id, denies.                 *)
verifyTenant(id, tenant) == id \in DOMAIN TenantOf /\ TenantOf[id] = tenant

checkCrossTenant(rule, claims, filter) ==
  /\ \/ filter.operator = Nil
     \/ rule.selfOnly /\ filter.operator = claims.user
     \/ verifyTenant(filter.operator, claims.tenant)
  /\ filter.project # Nil => verifyTenant(filter.project, claims.tenant)
  /\ filter.call # Nil => verifyTenant(filter.call, claims.tenant)

AllowTopic(claims, topic, filter) ==
  /\ topic \in Topics
  /\ LET rule == topicRules[topic]
     IN  /\ hasAnyRole(claims.roles, rule.allowedRoles)
         /\ rule.requireCallID => filter.call # Nil
         /\ checkSelfOnly(rule, claims, filter)
         /\ checkCrossTenant(rule, claims, filter)

(* What a bus subject narrows a broadcast to.                              *)
toTenant(t) == [tenant |-> t, user |-> Nil, project |-> Nil, call |-> Nil]
patterns(topic, tenant, key) ==
  CASE topic \in {"notifications.user", "op.commands"} -> [toTenant(tenant) EXCEPT !.user = key]
    [] topic = "call.events"                           -> [toTenant(tenant) EXCEPT !.call = key]
    [] OTHER                                           -> toTenant(tenant)

(* The topics the dispatcher subscribes to; trunks.health has a path of    *)
(* its own.                                                                *)
DispatchedTopics == Topics \ {"trunks.health"}

subFilterMatches(filter, b) ==
  /\ b.project = Nil \/ filter.project = Nil \/ filter.project = b.project
  /\ b.call = Nil \/ filter.call = Nil \/ filter.call = b.call

-----------------------------------------------------------------------------
HubInit ==
  /\ ws = [c \in Conns |-> [pc |-> "idle", first |-> Nil, claims |-> Nil, moved |-> FALSE,
                            closed |-> FALSE, hook |-> "unset", edge |-> FALSE, req |-> Nil]]
  /\ flat = {} /\ byTenant = [t \in Tenants |-> {}]
  /\ subs = [s \in SubIds |-> Nil] /\ bySubConn = [c \in Conns |-> {}]
  /\ cast = [b \in Casters |-> Nil] /\ victims = [r \in Replicas |-> {}]
  /\ refcount = [r \in Replicas |-> [u \in Users |-> 0]]
  /\ presence = [u \in Users |-> Nil] /\ faults = 0

(* The handshake stored the token's claims; attach writes the indexes      *)
(* under the lock ...                                                      *)
Attach(c, claims) ==
  /\ ws[c].pc = "idle"
  /\ flat' = flat \cup {c}
  /\ byTenant' = [byTenant EXCEPT ![claims.tenant] = @ \cup {c}]
  /\ ws' = [ws EXCEPT ![c].pc = "indexed", ![c].first = claims, ![c].claims = claims]
  /\ UNCHANGED <<subs, bySubConn, cast, victims, presenceVars>>

(* ... and the callbacks are set after it.                                 *)
WireCallbacks(c) ==
  /\ ws[c].pc = "indexed"
  /\ ws' = [ws EXCEPT ![c].pc = "wired", ![c].hook = "set"]
  /\ UNCHANGED <<hubVars, cast, victims, presenceVars>>

(* markConnect: the count under refMu, then OnConnect outside it.          *)
CountConnect(c) ==
  /\ ws[c].pc = "wired"
  /\ refcount' = [refcount EXCEPT ![replicaOf[c]][peerOf(c)] = @ + 1]
  /\ ws' = [ws EXCEPT ![c].pc = "counted", ![c].edge = (refcount[replicaOf[c]][peerOf(c)] = 0)]
  /\ UNCHANGED <<hubVars, cast, victims, presence, faults>>

OnConnect(c, ok) ==
  /\ ws[c].pc = "counted"
  /\ ok \/ (ws[c].edge /\ faults < MaxFaults)
  /\ presence' = IF ws[c].edge /\ ok THEN [presence EXCEPT ![peerOf(c)] = replicaOf[c]] ELSE presence
  /\ faults' = IF ok THEN faults ELSE faults + 1
  /\ ws' = [ws EXCEPT ![c].pc = "running", ![c].edge = FALSE]
  /\ UNCHANGED <<hubVars, cast, victims, refcount>>

-----------------------------------------------------------------------------
(* Connection.Subscribe and the rules; registration follows under the lock.*)
CheckSubscribe(c, topic, filter) ==
  /\ ws[c].pc = "running" /\ ~ws[c].closed /\ ws[c].req = Nil
  /\ AllowTopic(ws[c].claims, topic, filter)
  /\ ws' = [ws EXCEPT ![c].req = [topic |-> topic, filter |-> filter]]
  /\ UNCHANGED <<hubVars, cast, victims, presenceVars>>

(* Registration without looking the connection up again.                   *)
FaultRegistersClosed(c) ==
  /\ ws[c].req # Nil
  /\ \E s \in SubIds :
       /\ subs[s] = Nil
       /\ subs' = [subs EXCEPT ![s] = [conn |-> c, topic |-> ws[c].req.topic, filter |-> ws[c].req.filter]]
       /\ bySubConn' = [bySubConn EXCEPT ![c] = @ \cup {s}]
  /\ ws' = [ws EXCEPT ![c].req = Nil]
  /\ UNCHANGED <<flat, byTenant, cast, victims, presenceVars>>

subscribeForConn(c) ==
  /\ ws[c].req # Nil
  /\ ws' = [ws EXCEPT ![c].req = Nil]
  /\ \/ /\ c \notin flat
        /\ UNCHANGED hubVars
     \/ /\ c \in flat
        /\ \E s \in SubIds :
             /\ subs[s] = Nil
             /\ subs' = [subs EXCEPT ![s] = [conn |-> c, topic |-> ws[c].req.topic, filter |-> ws[c].req.filter]]
             /\ bySubConn' = [bySubConn EXCEPT ![c] = @ \cup {s}]
        /\ UNCHANGED <<flat, byTenant>>
  /\ UNCHANGED <<cast, victims, presenceVars>>

(* handleRefresh with a valid token, on the reader like Subscribe: future   *)
(* checks see the new claims, registration and subscriptions stay.  A      *)
(* refresh under way when the connection closes still stores its claims.   *)
SwapClaims(c, claims) ==
  /\ ws[c].pc = "running" /\ ws[c].req = Nil
  /\ ws' = [ws EXCEPT ![c].claims = claims,
                      ![c].moved = @ \/ claims.tenant # ws[c].first.tenant]
  /\ UNCHANGED <<hubVars, cast, victims, presenceVars>>

(* removeSubLocked: only the owner's subscription goes.                    *)
Unsubscribe(c, s) ==
  /\ ws[c].pc = "running" /\ ~ws[c].closed /\ ws[c].req = Nil
  /\ subs[s] # Nil /\ subs[s].conn = c
  /\ subs' = [subs EXCEPT ![s] = Nil]
  /\ bySubConn' = [bySubConn EXCEPT ![c] = @ \ {s}]
  /\ UNCHANGED <<ws, flat, byTenant, cast, victims, presenceVars>>

-----------------------------------------------------------------------------
(* Connection.Close: the first caller runs the callback, if it is set.     *)
closedConn(h) ==
  IF h.closed THEN h
  ELSE [h EXCEPT !.closed = TRUE, !.hook = IF @ = "set" THEN "due" ELSE @]

CloseConn(c) ==
  /\ ws[c].pc = "running" /\ ~ws[c].closed
  /\ ws' = [ws EXCEPT ![c] = closedConn(@)]
  /\ UNCHANGED <<hubVars, cast, victims, presenceVars>>

(* The tenant's entry is looked up by the claims the connection has now.   *)
onConnClose(c) ==
  /\ ws[c].hook = "due"
  /\ ws' = [ws EXCEPT ![c].hook = "done"]
  /\ subs' = [s \in SubIds |-> IF s \in bySubConn[c] THEN Nil ELSE subs[s]]
  /\ bySubConn' = [bySubConn EXCEPT ![c] = {}]
  /\ byTenant' = [byTenant EXCEPT ![tenantOf(c)] = @ \ {c}]
  /\ flat' = flat \ {c}
  /\ UNCHANGED <<cast, victims, presenceVars>>

(* Hub.Shutdown and DisconnectByUser: collect under the lock, close after. *)
Collect(r, who) ==
  /\ victims[r] = {} /\ who # {} /\ who \subseteq flat
  /\ victims' = [victims EXCEPT ![r] = who]
  /\ UNCHANGED <<ws, hubVars, cast, presenceVars>>
Shutdown(r) == Collect(r, {c \in flat : replicaOf[c] = r})
DisconnectByUser(r, t, u) ==
  Collect(r, {c \in byTenant[t] : replicaOf[c] = r /\ userOf(c) = u})
CloseVictim(r, c) ==
  /\ c \in victims[r]
  /\ victims' = [victims EXCEPT ![r] = @ \ {c}]
  /\ ws' = [ws EXCEPT ![c] = closedConn(@)]
  /\ UNCHANGED <<hubVars, cast, presenceVars>>

(* Broadcast: the targets under the read lock, one frame per connection.   *)
(* A broadcast that reaches nobody changes nothing.                        *)
targets(r, topic, b) ==
  {c \in byTenant[b.tenant] :
     /\ replicaOf[c] = r
     /\ b.user # Nil => userOf(c) = b.user
     /\ \E s \in bySubConn[c] :
          subs[s] # Nil /\ subs[s].topic = topic /\ subFilterMatches(subs[s].filter, b)}

StartCast(b, r, topic, filter, rest) ==
  /\ cast[b] = Nil
  /\ targets(r, topic, filter) # {} \/ rest # {}
  /\ cast' = [cast EXCEPT ![b] = [replica |-> r, topic |-> topic, rest |-> rest,
                                  to |-> targets(r, topic, filter)]]
  /\ UNCHANGED <<ws, hubVars, victims, presenceVars>>

(* NATSSubscriber.dispatch, the force endpoint and the trunks replicator.  *)
Dispatch(b, r, topic, tenant, key) ==
  /\ topic \in DispatchedTopics
  /\ StartCast(b, r, topic, patterns(topic, tenant, key), {})
ForceCommand(b, r, claims, operator) ==
  /\ hasAnyRole(claims.roles, Staff)
  /\ StartCast(b, r, "op.commands", [toTenant(claims.tenant) EXCEPT !.user = operator], {})
DispatchTrunks(b, r, tenants) ==
  \E t \in tenants :
    StartCast(b, r, "trunks.health", toTenant(t), tenants \ {t})

(* The delivery loop runs without the lock; a full critical queue closes.  *)
DeliverTo(b, c, overflow) ==
  /\ cast[b] # Nil /\ c \in cast[b].to
  /\ overflow => TopicClass(cast[b].topic) = "critical"
  /\ cast' = [cast EXCEPT ![b].to = @ \ {c}]
  /\ ws' = IF overflow THEN [ws EXCEPT ![c] = closedConn(@)] ELSE ws
  /\ UNCHANGED <<hubVars, victims, presenceVars>>

EndCast(b) ==
  /\ cast[b] # Nil /\ cast[b].to = {}
  /\ \/ /\ cast[b].rest = {}
        /\ cast' = [cast EXCEPT ![b] = Nil]
     \/ \E t \in cast[b].rest :
          cast' = [cast EXCEPT ![b].rest = @ \ {t},
                     ![b].to = targets(cast[b].replica, cast[b].topic, toTenant(t))]
  /\ UNCHANGED <<ws, hubVars, victims, presenceVars>>

-----------------------------------------------------------------------------
(* The touch loop: a lapsed key closes the connection.                     *)
Touch(c) ==
  /\ ws[c].pc = "running" /\ ~ws[c].closed /\ presence[peerOf(c)] = Nil
  /\ ws' = [ws EXCEPT ![c] = closedConn(@)]
  /\ UNCHANGED <<hubVars, cast, victims, presenceVars>>

(* Run has returned: the socket's goroutines, a pending subscribe with     *)
(* them, and the touch loop have ended.                                    *)
runEnded(c) == ws[c].pc = "running" /\ ws[c].closed /\ ws[c].req = Nil

(* The count is never returned.                                            *)
FaultKeepsCount(c) ==
  /\ runEnded(c)
  /\ ws' = [ws EXCEPT ![c].pc = "uncounted", ![c].edge = refcount[replicaOf[c]][peerOf(c)] <= 0]
  /\ UNCHANGED <<hubVars, cast, victims, refcount, presence, faults>>

(* markDisconnect: the count under refMu, then OnDisconnect outside it.    *)
CountDisconnect(c) ==
  /\ runEnded(c)
  /\ LET count == refcount[replicaOf[c]][peerOf(c)] - 1
     IN  /\ refcount' = [refcount EXCEPT ![replicaOf[c]][peerOf(c)] = IF count <= 0 THEN 0 ELSE count]
         /\ ws' = [ws EXCEPT ![c].pc = "uncounted", ![c].edge = count <= 0]
  /\ UNCHANGED <<hubVars, cast, victims, presence, faults>>

OnDisconnect(c, ok) ==
  /\ ws[c].pc = "uncounted"
  /\ ok \/ (ws[c].edge /\ faults < MaxFaults)
  /\ presence' = IF ws[c].edge /\ ok THEN [presence EXCEPT ![peerOf(c)] = Nil] ELSE presence
  /\ faults' = IF ok THEN faults ELSE faults + 1
  /\ ws' = [ws EXCEPT ![c].pc = "gone", ![c].edge = FALSE]
  /\ UNCHANGED <<hubVars, cast, victims, refcount>>

(* The key's TTL runs out: its touches failed, or its replica died.        *)
PresenceLapses(u) ==
  /\ presence[u] # Nil /\ faults < MaxFaults
  /\ presence' = [presence EXCEPT ![u] = Nil]
  /\ faults' = faults + 1
  /\ UNCHANGED <<ws, hubVars, cast, victims, refcount>>

-----------------------------------------------------------------------------
HandlerStep(c) ==
  \/ \E claims \in ClaimSet : Attach(c, claims)
  \/ WireCallbacks(c) \/ CountConnect(c)
  \/ \E ok \in BOOLEAN : OnConnect(c, ok) \/ OnDisconnect(c, ok)
  \/ \E topic \in HubTopics, filter \in Filters : CheckSubscribe(c, topic, filter)
  \/ subscribeForConn(c)
  \/ \E claims \in ClaimSet : SwapClaims(c, claims)
  \/ \E s \in SubIds : Unsubscribe(c, s)
  \/ CloseConn(c) \/ onConnClose(c) \/ Touch(c) \/ CountDisconnect(c)

CastStep(b) ==
  \/ \E r \in Replicas, topic \in HubTopics, t \in Tenants, key \in DOMAIN TenantOf :
       Dispatch(b, r, topic, t, key)
  \/ \E r \in Replicas, claims \in ClaimSet, u \in Users : ForceCommand(b, r, claims, u)
  \/ \E r \in Replicas : DispatchTrunks(b, r, Tenants)
  \/ \E c \in Conns, overflow \in BOOLEAN : DeliverTo(b, c, overflow)
  \/ EndCast(b)

HubNext ==
  \/ \E c \in Conns : HandlerStep(c)
  \/ \E b \in Casters : CastStep(b)
  \/ \E r \in Replicas :
       \/ Shutdown(r)
       \/ \E t \in Tenants, u \in Users : DisconnectByUser(r, t, u)
       \/ \E c \in Conns : CloseVictim(r, c)
  \/ \E u \in Users : PresenceLapses(u)

-----------------------------------------------------------------------------
Subscription == [conn: Conns, topic: Topics, filter: Filters]
HubTypeOK ==
  /\ ws \in [Conns -> Handler]
  /\ flat \subseteq Conns /\ byTenant \in [Tenants -> SUBSET Conns]
  /\ subs \in [SubIds -> Subscription \cup {Nil}]
  /\ bySubConn \in [Conns -> SUBSET SubIds]
  /\ victims \in [Replicas -> SUBSET Conns]
  /\ refcount \in [Replicas -> [Users -> 0..Cardinality(Conns)]]
  /\ presence \in [Users -> Replicas \cup {Nil}]
  /\ faults \in 0..MaxFaults

(* The four indexes of the hub agree whatever subscribe, unsubscribe,      *)
(* refresh and close interleave: a subscription belongs to a registered    *)
(* connection and is listed under it and nowhere else; a registered        *)
(* connection is under the tenant it was attached with and no other; and   *)
(* once its close callback has run nothing of it is left, except that a    *)
(* connection which a refresh had moved to another tenant may stay under   *)
(* the old one (hub.go: attach files it by the claims of that moment,      *)
(* onConnClose looks for it under the claims of this one).                 *)
HubIndexesAgree ==
  /\ \A s \in SubIds : subs[s] # Nil => subs[s].conn \in flat
  /\ \A c \in Conns : bySubConn[c] = {s \in SubIds : subs[s] # Nil /\ subs[s].conn = c}
  /\ \A c \in flat, t \in Tenants : c \in byTenant[t] <=> t = ws[c].first.tenant
  /\ \A c \in Conns \ flat, t \in Tenants :
       c \in byTenant[t] => ws[c].moved /\ t = ws[c].first.tenant
  /\ \A c \in Conns : ws[c].hook = "done" => c \notin flat

(* Once every handler has ended no presence key is left behind, in any     *)
(* order of the counts and of the Redis calls made outside refMu, unless   *)
(* Redis failed (ws_handler.go: markConnect, markDisconnect).              *)
QuietMeansOffline ==
  (faults = 0 /\ \A c \in Conns : ws[c].pc \in {"idle", "gone"}) =>
    /\ \A u \in Users : presence[u] = Nil
    /\ \A r \in Replicas, u \in Users : refcount[r][u] = 0
=============================================================================
