--------------------------- MODULE ResolverCache ---------------------------
(***************************************************************************)
(* The caching resolvers of the realtime module (user, project and call to *)
(* tenant): a map with a TTL in front of a singleflight lookup, one per    *)
(* replica, and the bus-driven invalidator that all replicas share.  Ids   *)
(* do not interact, so a behaviour follows one id, of the kind chosen at   *)
(* the start.  Its owner never changes; what changes is that it is deleted.*)
(***************************************************************************)
EXTENDS Integers, FiniteSets

CONSTANTS
  CacheReplicas,   \* API replicas
  Ttl, InnerTimeout,   \* resolver TTL and the bound on one inner lookup, in clock units
  MaxClock,        \* bound on the clock
  MaxFlights       \* bound on the lookups in progress, forgotten ones included

ASSUME CacheAssumption ==
  {Ttl, InnerTimeout, MaxClock, MaxFlights} \subseteq Nat \ {0}

VARIABLES
  kind,       \* which of the three resolvers
  clock,
  deletedAt,  \* when the entity was deleted, or Never
  bus,        \* its deletion (or status) event waits for delivery
  entry,      \* per replica: expiry of the cached tenant, or Absent
  flights,    \* inner lookups in progress
  served      \* per replica: last answer of Get, the tenant with its time

cacheVars == <<kind, clock, deletedAt, bus, entry, flights, served>>

Kinds == {"user", "project", "call"}
Never == -1
Absent == -1

(* A lookup: found is what the inner resolver answered ("no" before it     *)
(* did); current says whether the singleflight group still hands it out,   *)
(* waited whether a caller of Get waits for it.                            *)
Flight == [r: CacheReplicas, start: 0..MaxClock, found: {"no", "tenant", "error"},
           current: BOOLEAN, waited: BOOLEAN]
inGroup(r) == {f \in flights : f.r = r /\ f.current}
waiting(r) == {f \in flights : f.r = r /\ f.waited}
stillExists == deletedAt = Never

CacheInit ==
  /\ kind \in Kinds /\ clock = 0 /\ deletedAt = Never /\ bus = FALSE
  /\ entry = [r \in CacheReplicas |-> Absent]
  /\ flights = {}
  /\ served = [r \in CacheReplicas |-> [what |-> "none", at |-> 0]]

-----------------------------------------------------------------------------
respond(r, what) ==
  served' = [served EXCEPT ![r] = [what |-> what, at |-> IF what = "tenant" THEN clock ELSE 0]]

(* The entry is served whatever its age.                                   *)
FaultServesExpired(r) == entry[r] # Absent

unexpired(r) == entry[r] # Absent /\ clock < entry[r]

(* Get: an unexpired entry is served; otherwise the caller joins the lookup in *)
(* the group, or starts one.                                               *)
Get(r) ==
  /\ waiting(r) = {}
  /\ \/ /\ unexpired(r)
        /\ respond(r, "tenant")
        /\ UNCHANGED flights
     \/ /\ ~unexpired(r)
        /\ \/ /\ inGroup(r) = {} /\ Cardinality(flights) < MaxFlights
              /\ flights' = flights \cup {[r |-> r, start |-> clock, found |-> "no",
                                           current |-> TRUE, waited |-> TRUE]}
           \/ \E f \in inGroup(r) : flights' = (flights \ {f}) \cup {[f EXCEPT !.waited = TRUE]}
        /\ UNCHANGED served
  /\ UNCHANGED <<kind, clock, deletedAt, bus, entry>>
GetUser(r) == kind = "user" /\ Get(r)
GetProject(r) == kind = "project" /\ Get(r)
GetCall(r) == kind = "call" /\ Get(r)

(* The inner resolver answers from the database, which may also fail.      *)
InnerAnswers(f, fails) ==
  /\ f \in flights /\ f.found = "no"
  /\ flights' = (flights \ {f}) \cup
       {[f EXCEPT !.found = IF fails \/ ~stillExists THEN "error" ELSE "tenant"]}
  /\ UNCHANGED <<kind, clock, deletedAt, bus, entry, served>>

(* The lookup returns: a success is stored, the callers that wait for it   *)
(* get its result.  A forgotten lookup also stores its result.             *)
FlightReturns(f) ==
  /\ f \in flights /\ f.found # "no"
  /\ flights' = flights \ {f}
  /\ entry' = IF f.found = "tenant" THEN [entry EXCEPT ![f.r] = clock + Ttl] ELSE entry
  /\ IF f.waited THEN respond(f.r, f.found) ELSE UNCHANGED served
  /\ UNCHANGED <<kind, clock, deletedAt, bus>>

forget(r, fs) == {IF f.r = r THEN [f EXCEPT !.current = FALSE] ELSE f : f \in fs}

(* The caller's context ends: it forgets the lookup and reports an error.  *)
GetCancelled(r) ==
  /\ \E f \in waiting(r) :
       flights' = forget(r, (flights \ {f}) \cup {[f EXCEPT !.waited = FALSE]})
  /\ respond(r, "error")
  /\ UNCHANGED <<kind, clock, deletedAt, bus, entry>>

Invalidate(r) ==
  /\ entry' = [entry EXCEPT ![r] = Absent]
  /\ flights' = forget(r, flights)

(* The invalidator's handlers: the bus hands the event to one replica of   *)
(* the queue group, which invalidates its own cache.                       *)
handleEvent(r) ==
  /\ bus
  /\ bus' = FALSE
  /\ Invalidate(r)
  /\ UNCHANGED <<kind, clock, deletedAt, served>>
handleUser(r) == kind = "user" /\ handleEvent(r)
handleProject(r) == kind = "project" /\ handleEvent(r)
handleCall(r) == kind = "call" /\ handleEvent(r)

(* The entity is deleted and its event published.                          *)
DeleteRow ==
  /\ stillExists
  /\ deletedAt' = clock
  /\ bus' = TRUE
  /\ UNCHANGED <<kind, clock, entry, flights, served>>

(* A malformed event, or one without an id, is acknowledged and dropped;   *)
(* so is, for the replicas modelled, one that another replica receives.    *)
EventDropped ==
  /\ bus
  /\ bus' = FALSE
  /\ UNCHANGED <<kind, clock, deletedAt, entry, flights, served>>

(* An inner lookup does not outlive its timeout.                           *)
Tick ==
  /\ clock < MaxClock
  /\ \A f \in flights : clock < f.start + InnerTimeout
  /\ clock' = clock + 1
  /\ UNCHANGED <<kind, deletedAt, bus, entry, flights, served>>

CacheNext ==
  \/ \E r \in CacheReplicas :
       \/ GetUser(r) \/ GetProject(r) \/ GetCall(r)
       \/ handleUser(r) \/ handleProject(r) \/ handleCall(r)
       \/ GetCancelled(r)
  \/ \E f \in flights : FlightReturns(f) \/ \E fails \in BOOLEAN : InnerAnswers(f, fails)
  \/ DeleteRow \/ EventDropped
  \/ Tick

-----------------------------------------------------------------------------
CacheTypeOK ==
  /\ kind \in Kinds /\ clock \in 0..MaxClock /\ deletedAt \in 0..MaxClock \cup {Never}
  /\ bus \in BOOLEAN /\ flights \subseteq Flight
  /\ entry \in [CacheReplicas -> 0..MaxClock + Ttl \cup {Absent}]
  /\ served \in [CacheReplicas -> [what: {"none", "error", "tenant"}, at: 0..MaxClock]]

(* No replica answers with the tenant of a deleted entity longer than one  *)
(* lookup and one TTL after the deletion, whether or not the event reached *)
(* it and however late a forgotten lookup stored its result                *)
(* (resolver_cache.go: Get, Invalidate).                                   *)
StaleAtMostTtl ==
  \A r \in CacheReplicas :
    (served[r].what = "tenant" /\ deletedAt # Never) =>
      served[r].at < deletedAt + InnerTimeout + Ttl
=============================================================================
