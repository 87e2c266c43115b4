---------------------------- MODULE ChannelRouter ----------------------------
(***************************************************************************)
(* internal/telephony/router and internal/dialer/capacity: the choice of a *)
(* trunk and a FreeSWITCH node for a call, the Redis counter of channels   *)
(* per node that bounds it, and the reconciler that sets the counter to    *)
(* what FreeSWITCH reports.  Callers take a slot through the router or the *)
(* tracker, start and end a channel, and give the slot back; they, the     *)
(* node and Redis are external.                                            *)
(***************************************************************************)
EXTENDS Integers, Sequences, FiniteSets, SequencesExt, FiniteSetsExt

CONSTANTS
  FsNodes,       \* FreeSWITCH nodes, numbered in the order of their addresses
  TrunkConfigs,  \* the trunk catalog, a sequence
  DefaultStrategy,
  RouteRequests, \* requests for a slot, each made once
  NodeCap,       \* channels per node, 60 in production
  MaxRouteFaults \* bound: Redis errors, lost and repeated releases, expiries,
                 \* nodes going down or up

VARIABLES
  active,     \* op:active_channels:{node}
  channels,   \* the channels FreeSWITCH has on each node
  healthyFs,  \* the nodes the ESL pool considers healthy
  slots,      \* per request: what it holds
  rr,         \* RoundRobin.counter and Tracker.rrCounter, alike
  sweep,      \* the reconciler
  forgotten,  \* history: slots the counter lost other than by their release
  routeFaults

routerVars == <<active, channels, healthyFs, slots, rr, sweep, forgotten, routeFaults>>

NoSlot == [pc |-> "idle", left |-> <<>>, node |-> 0]
NoSweep == [pc |-> "idle", left |-> <<>>, truth |-> 0]

RouterInit ==
  /\ active = [n \in FsNodes |-> 0]
  /\ channels = [n \in FsNodes |-> 0]
  /\ healthyFs = FsNodes
  /\ slots = [q \in RouteRequests |-> NoSlot]
  /\ rr = 0
  /\ sweep = NoSweep
  /\ forgotten = [n \in FsNodes |-> 0]
  /\ routeFaults = 0

routeFault == routeFaults < MaxRouteFaults /\ routeFaults' = routeFaults + 1

-----------------------------------------------------------------------------
(* The catalog and the strategies.  A strategy is the set of trunks it may *)
(* pick: one, except for the weighted draw; none is ErrNoTrunkAvailable.   *)

(* A trunk without a gateway or without channels is not routed to.  New    *)
(* leaves every failure rate 0 and every node list empty.                  *)
materialise(tc) ==
  [id |-> tc.id, cost |-> tc.cost, weight |-> tc.weight, nodes |-> {},
   failure |-> 0, on |-> tc.gateway # "" /\ tc.capacity > 0]

catalog == [i \in DOMAIN TrunkConfigs |-> materialise(TrunkConfigs[i])]

activeOf(ts) == SelectSeq(ts, LAMBDA t : t.on)

(* The first of the cheapest.                                              *)
LeastCost(ts) ==
  LET on == activeOf(ts)
      best == {i \in DOMAIN on : \A j \in DOMAIN on : on[i].cost <= on[j].cost}
  IN IF best = {} THEN {} ELSE {on[Min(best)]}

LeastCostWithFallback(ts, threshold) ==
  LET fit == SelectSeq(ts, LAMBDA t : t.on /\ t.failure <= threshold)
  IN IF fit = <<>> THEN LeastCost(ts) ELSE LeastCost(fit)

(* Active trunks in the order of their ids, the counter's turn.            *)
RoundRobin(ts, n) ==
  LET on == SortSeq(activeOf(ts), LAMBDA a, b : a.id < b.id)
  IN IF on = <<>> THEN {} ELSE {on[(n % Len(on)) + 1]}

Weighted(ts) == {t \in ToSet(ts) : t.on /\ t.weight > 0}

Strategies == {"least_cost", "least_cost_fallback", "round_robin", "weighted"}

resolveStrategyName(asked) ==
  LET name == IF asked # "" THEN asked ELSE DefaultStrategy
  IN IF name \in Strategies THEN name ELSE "least_cost"

Pick(name) ==
  CASE name = "least_cost" -> LeastCost(catalog)
    [] name = "least_cost_fallback" -> LeastCostWithFallback(catalog, 1)
    [] name = "round_robin" -> RoundRobin(catalog, rr)
    [] name = "weighted" -> Weighted(catalog)

HealthyNodes == SetToSortSeq(healthyFs, LAMBDA a, b : a < b)

(* The trunk's nodes that are healthy, or every healthy node.              *)
candidateNodes(t) ==
  IF t.nodes = {} THEN HealthyNodes ELSE SelectSeq(HealthyNodes, LAMBDA n : n \in t.nodes)

-----------------------------------------------------------------------------
(* The counter.                                                            *)

FaultOffByOne(n) == active[n] <= NodeCap

underCap(n) == active[n] < NodeCap

(* tryAcquireScript: one slot when the node is below the cap.              *)
tryAcquireScript(n) ==
  active' = IF underCap(n) THEN [active EXCEPT ![n] = @ + 1] ELSE active

(* releaseScript never goes below zero.                                    *)
releaseScript(n) == active' = [active EXCEPT ![n] = IF @ > 0 THEN @ - 1 ELSE 0]

SetActiveChannels(n, v) == active' = [active EXCEPT ![n] = v]

(* Slots that are no longer counted though nobody gave them back.          *)
forgets(n, k) == forgotten' = [forgotten EXCEPT ![n] = @ + k]

-----------------------------------------------------------------------------
(* Taking and giving back a slot.                                          *)

walk(q, nodes) ==
  slots' = [slots EXCEPT ![q] = [pc |-> IF nodes = <<>> THEN "refused" ELSE "walk", left |-> nodes, node |-> 0]]

(* The trunk is picked and the candidates are read.                        *)
Select(q, asked) ==
  LET name == resolveStrategyName(asked)
  IN /\ slots[q].pc = "idle"
     /\ IF Pick(name) = {} THEN walk(q, <<>>)
        ELSE \E t \in Pick(name) : walk(q, candidateNodes(t))
     /\ rr' = IF name = "round_robin" /\ Pick(name) # {} THEN rr + 1 ELSE rr
     /\ UNCHANGED <<active, channels, healthyFs, sweep, forgotten, routeFaults>>

(* The tracker begins its walk at the counter's turn.                      *)
AcquireSlot(q) ==
  LET nodes == HealthyNodes
      start == IF nodes = <<>> THEN 0 ELSE rr % Len(nodes)
  IN /\ slots[q].pc = "idle"
     /\ walk(q, SubSeq(nodes, start + 1, Len(nodes)) \o SubSeq(nodes, 1, start))
     /\ rr' = IF nodes = <<>> THEN rr ELSE rr + 1
     /\ UNCHANGED <<active, channels, healthyFs, sweep, forgotten, routeFaults>>

skip(q) == walk(q, Tail(slots[q].left))

(* The first node that is below the cap; a node at the cap, or one Redis   *)
(* fails for, is passed over.                                              *)
acquireFirstHealthy(q) ==
  LET n == Head(slots[q].left)
  IN /\ slots[q].pc = "walk"
     /\ \/ /\ tryAcquireScript(n) /\ UNCHANGED routeFaults
           /\ IF underCap(n)
              THEN slots' = [slots EXCEPT ![q] = [pc |-> "held", left |-> <<>>, node |-> n]]
              ELSE skip(q)
        \/ routeFault /\ skip(q) /\ UNCHANGED active
     /\ UNCHANGED <<channels, healthyFs, rr, sweep, forgotten>>

(* The holder's originate reaches the node.                                *)
Originate(q) ==
  /\ slots[q].pc = "held"
  /\ channels' = [channels EXCEPT ![slots[q].node] = @ + 1]
  /\ slots' = [slots EXCEPT ![q].pc = "talking"]
  /\ UNCHANGED <<active, healthyFs, rr, sweep, forgotten, routeFaults>>

(* The call ends, or never started.                                        *)
Hangup(q) ==
  /\ slots[q].pc \in {"held", "talking"}
  /\ channels' = IF slots[q].pc = "talking"
                 THEN [channels EXCEPT ![slots[q].node] = @ - 1] ELSE channels
  /\ slots' = [slots EXCEPT ![q].pc = "ended"]
  /\ UNCHANGED <<active, healthyFs, rr, sweep, forgotten, routeFaults>>

(* The slot is given back once; the release may be lost, or repeated, and  *)
(* a repeated one takes a slot that is somebody else's.                    *)
Release(q) ==
  LET n == slots[q].node
  IN /\ \/ /\ slots[q].pc = "ended"
           /\ slots' = [slots EXCEPT ![q].pc = "released"]
           /\ \/ releaseScript(n) /\ UNCHANGED routeFaults
              \/ routeFault /\ UNCHANGED active
           /\ UNCHANGED forgotten
        \/ /\ slots[q].pc = "released" /\ routeFault
           /\ releaseScript(n) /\ forgets(n, 1)
           /\ slots' = [slots EXCEPT ![q].pc = "repeated"]
     /\ UNCHANGED <<channels, healthyFs, rr, sweep>>

-----------------------------------------------------------------------------
(* The reconciler: what the node reports, then the counter, then a write,  *)
(* one node after the other.                                               *)

Sweep ==
  /\ sweep.pc = "idle" /\ healthyFs # {}
  /\ sweep' = [pc |-> "fetch", left |-> HealthyNodes, truth |-> 0]
  /\ UNCHANGED <<active, channels, healthyFs, slots, rr, forgotten, routeFaults>>

nextNode ==
  IF Len(sweep.left) = 1 THEN NoSweep ELSE [pc |-> "fetch", left |-> Tail(sweep.left), truth |-> 0]

(* A node that does not answer is left for the next sweep.                 *)
ActiveChannels ==
  LET n == Head(sweep.left)
  IN /\ sweep.pc = "fetch"
     /\ \/ /\ n \in healthyFs /\ UNCHANGED routeFaults
           /\ sweep' = [sweep EXCEPT !.pc = "read", !.truth = channels[n]]
        \/ /\ IF n \in healthyFs THEN routeFault ELSE UNCHANGED routeFaults
           /\ sweep' = nextNode
     /\ UNCHANGED <<active, channels, healthyFs, slots, rr, forgotten>>

FaultOnlyLogs ==
  /\ sweep.pc = "read" /\ sweep' = nextNode
  /\ UNCHANGED <<active, channels, healthyFs, slots, rr, forgotten, routeFaults>>

sweepNode ==
  LET n == Head(sweep.left)
  IN /\ sweep.pc = "read"
     /\ \/ active[n] = sweep.truth /\ sweep' = nextNode
        \/ active[n] # sweep.truth /\ sweep' = [sweep EXCEPT !.pc = "write"]
     /\ UNCHANGED <<active, channels, healthyFs, slots, rr, forgotten, routeFaults>>

SweepWrites ==
  LET n == Head(sweep.left)
  IN /\ sweep.pc = "write"
     /\ \/ /\ SetActiveChannels(n, sweep.truth) /\ UNCHANGED routeFaults
           /\ forgets(n, IF active[n] > sweep.truth THEN active[n] - sweep.truth ELSE 0)
        \/ routeFault /\ UNCHANGED <<active, forgotten>>
     /\ sweep' = nextNode
     /\ UNCHANGED <<channels, healthyFs, slots, rr>>

-----------------------------------------------------------------------------
(* The key of a node expires an hour after the last acquire or release.    *)
Expire(n) ==
  /\ routeFault /\ active[n] > 0
  /\ active' = [active EXCEPT ![n] = 0]
  /\ forgets(n, active[n])
  /\ UNCHANGED <<channels, healthyFs, slots, rr, sweep>>

(* The supervisor of a node loses or regains its connection.               *)
Flap(n) ==
  /\ \/ n \in healthyFs /\ routeFault /\ healthyFs' = healthyFs \ {n}
     \/ n \notin healthyFs /\ healthyFs' = healthyFs \cup {n} /\ UNCHANGED routeFaults
  /\ UNCHANGED <<active, channels, slots, rr, sweep, forgotten>>

Reconciles == Sweep \/ ActiveChannels \/ sweepNode \/ SweepWrites

RouterNext ==
  \/ \E q \in RouteRequests :
       \/ \E asked \in Strategies \cup {""} : Select(q, asked)
       \/ AcquireSlot(q) \/ acquireFirstHealthy(q) \/ Originate(q) \/ Hangup(q) \/ Release(q)
  \/ Reconciles
  \/ \E n \in FsNodes : Expire(n) \/ Flap(n)

(* A walk goes on, a call ends and its release is attempted.               *)
GoesOn(q) ==
  acquireFirstHealthy(q) \/ Hangup(q) \/ (Release(q) /\ slots[q].pc = "ended")

Recovers(n) == Flap(n) /\ n \notin healthyFs

(* The sweep has its ticker, requests go on, and a node comes back.        *)
RouterFairness ==
  /\ WF_routerVars(Reconciles)
  /\ \A q \in RouteRequests : WF_routerVars(GoesOn(q))
  /\ \A n \in FsNodes : WF_routerVars(Recovers(n))

RouterTypeOK ==
  /\ active \in [FsNodes -> 0..(NodeCap + Cardinality(RouteRequests))]
  /\ channels \in [FsNodes -> 0..Cardinality(RouteRequests)]
  /\ healthyFs \subseteq FsNodes /\ rr \in 0..Cardinality(RouteRequests)
  /\ \A q \in RouteRequests : ToSet(slots[q].left) \subseteq FsNodes

held(n) == Cardinality({q \in RouteRequests : slots[q].node = n /\ slots[q].pc \in {"held", "talking"}})

(* Slots are conserved: through walks, lost and repeated releases and      *)
(* sweeps that overwrite the counter, every slot in use is counted or was  *)
(* forgotten, and a node is given beyond its cap only the slots the        *)
(* counter was made to forget - by a report older than the acquires it     *)
(* overwrites, an expired key or a repeated release.                       *)
SlotsAreConserved ==
  \A n \in FsNodes :
    /\ held(n) <= active[n] + forgotten[n]
    /\ held(n) <= NodeCap + forgotten[n]
    /\ channels[n] <= held(n)

(* Whatever the counter lost or kept too long, once the calls are over the *)
(* reconciler brings every healthy node's counter back to what FreeSWITCH  *)
(* reports.                                                                *)
DriftIsRepaired ==
  <>[](\A n \in healthyFs : active[n] = channels[n])
=============================================================================
