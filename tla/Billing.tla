------------------------------- MODULE Billing -------------------------------
(***************************************************************************)
(* internal/billing: a tenant's tariffs, the cost row each finalized call  *)
(* gets, and the finance reports over those rows.                          *)
(*                                                                         *)
(* The tariffs are rows of tenant_settings, one per key, written together  *)
(* in one transaction and read one transaction per key: a reader may mix   *)
(* two versions.  dialer.call.finalized reaches the subscriber through a   *)
(* durable JetStream queue: a message is delivered again after an error, a *)
(* crash or a lost ack.                                                    *)
(***************************************************************************)
EXTENDS Integers, FiniteSets, Sequences, FiniteSetsExt

CONSTANTS
  FinCalls,       \* the calls that are finalized
  FinInfo,        \* per call: project, trunk, seconds, status, bytes, at, sound
  BillProjects,   \* the tenant's projects
  ProjectFee,     \* contract_fee_per_completed_minor of each project
  Imported,       \* respondents imported on each day
  Trunks,         \* trunk ids
  Defaults,       \* BillingConfig.Defaults, a tariff
  Patches,        \* PATCH bodies: a value for some of the rate keys
  Admins,         \* PATCH requests in flight at one time
  Subscribers,    \* deliveries handled at one time
  BytesPerGB,     \* bytesPerGB
  MonthDays,      \* days of a month, the same for all
  LastDay,        \* reports are asked for on days 0..LastDay
  MaxAckPending,  \* JetStream's bound on unacknowledged messages
  MaxVersion,     \* bound: tariff versions
  MaxBillFaults   \* bound: failed statements, crashes and lost acks

VARIABLES
  settings,  \* tenant_settings, the billing keys present
  costs,     \* call_costs
  stream,    \* the finalized messages: none, stored, pending (delivered), acked
  subs,      \* the subscriber's handlers
  patches,   \* the PATCH requests
  billAudit, \* audit.event rows written for tariff updates
  billFaults

billingVars == <<settings, costs, stream, subs, patches, billAudit, billFaults>>

(* The order in which Get reads; version is the last.                      *)
ReadOrder == <<"trunks", "wage", "bases", "storage", "fixed", "version">>
RateKeys == {"trunks", "wage", "bases", "storage", "fixed"}
NoTariffs == <<>>

NoCost == [total |-> -1]
Waiting == [pc |-> "idle", got |-> <<>>]

BillingInit ==
  /\ settings = NoTariffs
  /\ costs = [c \in FinCalls |-> NoCost]
  /\ stream = [c \in FinCalls |-> "none"]
  /\ subs = [s \in Subscribers |-> Waiting]
  /\ patches = [a \in Admins |-> Waiting]
  /\ billAudit = 0
  /\ billFaults = 0

billFault == billFaults < MaxBillFaults /\ billFaults' = billFaults + 1

-----------------------------------------------------------------------------
(* Tariffs.                                                                *)

(* The row of a key, or pgx.ErrNoRows: a set of at most one value.         *)
GetSetting(key) == {settings[k] : k \in {key} \cap DOMAIN settings}

orDefault(row, key) == IF row = {} THEN Defaults[key] ELSE CHOOSE v \in row : TRUE

(* What Get returns from the values it read: a key that is not set has its *)
(* default, and with no key at all the tenant has no tariffs.              *)
overlay(got) ==
  [k \in DOMAIN Defaults |-> orDefault(got[CHOOSE i \in DOMAIN ReadOrder : ReadOrder[i] = k], k)]

(* ErrNoTariffs: the callers fall back to the defaults.                    *)
readTariffs(got) ==
  IF \A i \in DOMAIN got : got[i] = {} THEN Defaults ELSE overlay(got)

(* Get, one key per transaction.                                           *)
ReadKey(r) == [r EXCEPT !.got = Append(@, GetSetting(ReadOrder[Len(@) + 1]))]
reading(r) == Len(r.got) < Len(ReadOrder)

FaultTakesAnything(t) == TRUE

(* No negative amount, no empty trunk id.                                  *)
Validate(t) ==
  /\ \A k \in RateKeys \ {"trunks"} : t[k] >= 0
  /\ \A x \in DOMAIN t["trunks"] : t["trunks"][x] >= 0

(* The fields of the body replace the current ones; the rest is kept as    *)
(* it was read.                                                            *)
applyPatch(t, body) == [k \in DOMAIN t |-> IF k \in DOMAIN body THEN body[k] ELSE t[k]]

(* Admins and supervisors see the finances, admins change the tariffs; the *)
(* matrix behind the fast path grants nobody more.                         *)
requireRBAC(roles, action) ==
  roles \cap (IF action = "view" THEN {"admin", "supervisor"} ELSE {"admin"}) # {}

PatchBegins(a, roles, body) ==
  /\ patches[a].pc = "idle"
  /\ requireRBAC(roles, "tariff_update")
  /\ patches' = [patches EXCEPT ![a] = [pc |-> "read", got |-> <<>>, body |-> body]]
  /\ UNCHANGED <<settings, costs, stream, subs, billAudit, billFaults>>

PatchReads(a) ==
  /\ patches[a].pc = "read" /\ reading(patches[a])
  /\ patches' = [patches EXCEPT ![a] = ReadKey(@)]
  /\ UNCHANGED <<settings, costs, stream, subs, billAudit, billFaults>>

(* The patched tariff is valid, or the request is refused; Update reads    *)
(* the version its own will follow.                                        *)
PatchTariffs(a) ==
  LET t == applyPatch(readTariffs(patches[a].got), patches[a].body)
      v == orDefault(GetSetting("version"), "version")
  IN /\ patches[a].pc = "read" /\ ~reading(patches[a])
     /\ patches' = [patches EXCEPT ![a] =
          IF ~Validate(t) THEN Waiting
          ELSE [pc |-> "write", got |-> <<>>, body |-> @.body,
                tariff |-> [t EXCEPT !["version"] = v + 1]]]
     /\ UNCHANGED <<settings, costs, stream, subs, billAudit, billFaults>>

UpsertSettings(t) == settings' = t

(* Update writes every key in one transaction, or fails.                   *)
Update(a) ==
  /\ patches[a].pc = "write" /\ patches[a].tariff["version"] <= MaxVersion
  /\ \/ /\ UpsertSettings(patches[a].tariff) /\ UNCHANGED billFaults
        /\ patches' = [patches EXCEPT ![a] =
             IF DOMAIN @.body = {} THEN Waiting ELSE [@ EXCEPT !.pc = "audit"]]
     \/ /\ billFault /\ UNCHANGED settings
        /\ patches' = [patches EXCEPT ![a] = Waiting]
  /\ UNCHANGED <<costs, stream, subs, billAudit>>

(* The audit event has a transaction of its own; a failure is only logged. *)
EmitTariffUpdated(a) ==
  /\ patches[a].pc = "audit"
  /\ \/ billAudit' = billAudit + 1 /\ UNCHANGED billFaults
     \/ billFault /\ UNCHANGED billAudit
  /\ patches' = [patches EXCEPT ![a] = Waiting]
  /\ UNCHANGED <<settings, costs, stream, subs>>

-----------------------------------------------------------------------------
(* The queue (JetStream, external).                                        *)

Finalize(c) ==
  /\ stream[c] = "none"
  /\ stream' = [stream EXCEPT ![c] = "stored"]
  /\ UNCHANGED <<settings, costs, subs, patches, billAudit, billFaults>>

unacked == {c \in FinCalls : stream[c] = "pending"}

(* A new message needs room under MaxAckPending.  One that is not acked is *)
(* delivered again, after its nak delay or its ack wait, even while an     *)
(* earlier delivery is still being handled.                                *)
DeliverFinalized(s, c) ==
  /\ subs[s].pc = "idle"
  /\ \/ stream[c] = "stored" /\ Cardinality(unacked) < MaxAckPending
     \/ stream[c] = "pending"
  /\ stream' = [stream EXCEPT ![c] = "pending"]
  /\ subs' = [subs EXCEPT ![s] = [pc |-> "handle", got |-> <<>>, call |-> c]]
  /\ UNCHANGED <<settings, costs, patches, billAudit, billFaults>>

(* The ack reaches the server, or it is lost; after a nak the message      *)
(* stays pending.                                                          *)
ack(c) == \/ stream' = [stream EXCEPT ![c] = "acked"] /\ UNCHANGED billFaults
          \/ UNCHANGED stream /\ billFault
nak == UNCHANGED stream

-----------------------------------------------------------------------------
(* Charging a call.                                                        *)

rounded(n, d) == (2 * n + d) \div (2 * d)

TrunkCostMinor(t, x) == IF x \in DOMAIN t["trunks"] THEN t["trunks"][x] ELSE 0

CallCost(in, t) ==
  LET telecom == rounded(TrunkCostMinor(t, in.trunk) * in.seconds, 60)
      wages   == IF in.status = "success" THEN t["wage"] ELSE 0
      storage == rounded(t["storage"] * in.bytes, BytesPerGB)
  IN [telecom |-> telecom, wages |-> wages, storage |-> storage,
      total |-> telecom + wages + storage, version |-> t["version"]]

FaultRecharges(c, row) == costs' = [costs EXCEPT ![c] = row]

(* INSERT .. ON CONFLICT (call_id) DO NOTHING.                             *)
InsertCallCostTx(c, row) ==
  costs' = IF costs[c] = NoCost THEN [costs EXCEPT ![c] = row] ELSE costs

(* A payload that does not decode, or lacks its ids, is an error on every  *)
(* delivery.                                                               *)
decoded(c) == FinInfo[c].sound

handle(s) ==
  /\ subs[s].pc = "handle" /\ ~decoded(subs[s].call)
  /\ nak
  /\ subs' = [subs EXCEPT ![s] = Waiting]
  /\ UNCHANGED <<settings, costs, patches, billAudit, billFaults>>

ReadsTariff(s) ==
  /\ subs[s].pc = "handle" /\ decoded(subs[s].call) /\ reading(subs[s])
  /\ subs' = [subs EXCEPT ![s] = ReadKey(@)]
  /\ UNCHANGED <<settings, costs, stream, patches, billAudit, billFaults>>

FaultAcksErrors(c) == stream' = [stream EXCEPT ![c] = "acked"] /\ billFault

(* A statement fails: the error goes back to the bus, which naks.          *)
failed(c) == nak /\ billFault

(* The row is computed from what was read and inserted, and the message is *)
(* acked; an error puts it back.  A negative duration always is one.       *)
OnCallFinalized(s) ==
  LET c == subs[s].call
  IN /\ subs[s].pc = "handle" /\ decoded(c) /\ ~reading(subs[s])
     /\ \/ IF FinInfo[c].seconds >= 0
           THEN InsertCallCostTx(c, CallCost(FinInfo[c], readTariffs(subs[s].got))) /\ ack(c)
           ELSE nak /\ UNCHANGED <<costs, billFaults>>
        \/ UNCHANGED costs /\ failed(c)
     /\ subs' = [subs EXCEPT ![s] = Waiting]
     /\ UNCHANGED <<settings, patches, billAudit>>

-----------------------------------------------------------------------------
(* Reports.  Every period is half-open.                                    *)

charged == {c \in FinCalls : costs[c] # NoCost}

FaultClosedPeriod(c, p) == FinInfo[c].at >= p.from /\ FinInfo[c].at <= p.to

finalizedIn(c, p) == FinInfo[c].at >= p.from /\ FinInfo[c].at < p.to

SumCallCosts(projects, p) ==
  LET rows == {c \in charged : FinInfo[c].project \in projects /\ finalizedIn(c, p)}
  IN [telecom |-> MapThenSumSet(LAMBDA c : costs[c].telecom, rows),
      wages   |-> MapThenSumSet(LAMBDA c : costs[c].wages, rows),
      storage |-> MapThenSumSet(LAMBDA c : costs[c].storage, rows),
      surveys |-> Cardinality({c \in rows : FinInfo[c].status = "success"}),
      seconds |-> MapThenSumSet(LAMBDA c : FinInfo[c].seconds, rows)]

CountImportedRecords(p) ==
  MapThenSumSet(LAMBDA d : Imported[d], {d \in DOMAIN Imported : d >= p.from /\ d < p.to})

(* The tariffs in force when nobody is writing.                            *)
currentTariffs == IF settings = NoTariffs THEN Defaults ELSE settings

MonthSpend(p) ==
  LET agg == SumCallCosts(BillProjects, p)
      t   == currentTariffs
      bases == CountImportedRecords(p) * t["bases"]
  IN [telecom |-> agg.telecom, wages |-> agg.wages, storage |-> agg.storage,
      bases |-> bases, fixed |-> t["fixed"], surveys |-> agg.surveys,
      seconds |-> agg.seconds,
      total |-> agg.telecom + agg.wages + agg.storage + bases + t["fixed"]]

Month(m) == [from |-> m * MonthDays, to |-> (m + 1) * MonthDays]

(* The last count months up to the current one, oldest first.              *)
SpendByMonth(now, count) ==
  [i \in 1..count |-> MonthSpend(Month((now \div MonthDays) - count + i))]

ProjectFeePerCompleted(project) ==
  IF project \in BillProjects THEN ProjectFee[project] ELSE 0

CountSuccessfulCalls(project, p) ==
  Cardinality({c \in charged : /\ FinInfo[c].project = project
                               /\ FinInfo[c].status = "success"
                               /\ finalizedIn(c, p)})

MonthRevenue(project, p) ==
  ProjectFeePerCompleted(project) * CountSuccessfulCalls(project, p)

(* Projects without any cost in the period are left out.                   *)
ListProjectsForPeriod(p) ==
  LET rows(j) == {c \in charged : FinInfo[c].project = j /\ finalizedIn(c, p)}
      cost(j) == MapThenSumSet(LAMBDA c : costs[c].total, rows(j))
  IN {row \in {[project |-> j, total |-> cost(j)] : j \in BillProjects} : row.total > 0}

Margin(p) ==
  {[project |-> r.project, total |-> r.total, revenue |-> MonthRevenue(r.project, p),
    margin |-> MonthRevenue(r.project, p) - r.total] : r \in ListProjectsForPeriod(p)}

previousSameLength(p) == [from |-> p.from - (p.to - p.from), to |-> p.from]

parsePeriod(kind, now) ==
  LET m    == now \div MonthDays
      q    == (m \div 3) * 3
      year == (m \div 12) * 12
      wd   == IF now % 7 = 0 THEN 7 ELSE now % 7
  IN CASE kind = "month"   -> Month(m)
       [] kind = "week"    -> [from |-> now - (wd - 1), to |-> now - (wd - 1) + 7]
       [] kind = "quarter" -> [from |-> q * MonthDays, to |-> (q + 3) * MonthDays]
       [] kind = "year"    -> [from |-> year * MonthDays, to |-> (year + 12) * MonthDays]

CostPerSurveyMinor(b) == IF b.surveys = 0 THEN 0 ELSE b.total \div b.surveys
AvgCostPerMinuteMinor(b) == IF b.seconds = 0 THEN 0 ELSE (b.total * 60) \div b.seconds

buildBreakdown(b) == <<b.telecom, b.wages, b.bases, b.storage, b.fixed>>

Dashboard(now, kind) ==
  LET p    == parsePeriod(kind, now)
      curr == MonthSpend(p)
      rows == Margin(p)
      revenue == MapThenSumSet(LAMBDA r : r.revenue, rows)
  IN [period |-> p, spend |-> curr.total,
      prev |-> MonthSpend(previousSameLength(p)).total,
      perSurvey |-> CostPerSurveyMinor(curr), perMinute |-> AvgCostPerMinuteMinor(curr),
      revenue |-> revenue, margin |-> revenue - curr.total,
      breakdown |-> buildBreakdown(curr), projects |-> rows]

(* The other GET routes of the finance pages.                              *)
Breakdown(now, kind) == buildBreakdown(MonthSpend(parsePeriod(kind, now)))
Projects(now, kind) == Margin(parsePeriod(kind, now))
parsePositiveInt(n) == n >= 1 /\ n <= 24
ByMonth(now, count) == IF parsePositiveInt(count) THEN SpendByMonth(now, count) ELSE <<>>
GetTariffs == [tariffs |-> currentTariffs, isDefault |-> settings = NoTariffs]

-----------------------------------------------------------------------------
BillingNext ==
  \/ \E a \in Admins :
       \/ \E roles \in SUBSET {"admin", "supervisor"}, body \in Patches :
            PatchBegins(a, roles, body)
       \/ PatchReads(a) \/ PatchTariffs(a) \/ Update(a) \/ EmitTariffUpdated(a)
  \/ \E c \in FinCalls : Finalize(c)
  \/ \E s \in Subscribers :
       \/ \E c \in FinCalls : DeliverFinalized(s, c)
       \/ handle(s) \/ ReadsTariff(s) \/ OnCallFinalized(s)

(* JetStream delivers what is queued, and a handler that has begun goes    *)
(* on.                                                                     *)
BillingFairness ==
  /\ \A c \in FinCalls : SF_billingVars(\E s \in Subscribers : DeliverFinalized(s, c))
  /\ \A s \in Subscribers : WF_billingVars(handle(s) \/ ReadsTariff(s) \/ OnCallFinalized(s))

BillingTypeOK ==
  /\ settings # NoTariffs =>
       /\ DOMAIN settings = RateKeys \cup {"version"}
       /\ \A k \in RateKeys \ {"trunks"} : settings[k] \in Nat
       /\ \A x \in DOMAIN settings["trunks"] : x \in Trunks /\ settings["trunks"][x] \in Nat
       /\ settings["version"] \in 1..MaxVersion
  /\ \A c \in FinCalls : costs[c] # NoCost => costs[c].total >= 0
  /\ Cardinality(unacked) <= MaxAckPending

chargeable(c) == decoded(c) /\ FinInfo[c].seconds >= 0

(* A call is charged once: whatever is delivered again, and however the    *)
(* tariffs change in between, a cost row is never rewritten or lost, and   *)
(* only a finalized call has one.                                          *)
ChargedOnce ==
  [][\A c \in FinCalls :
       /\ costs[c] # NoCost => costs'[c] = costs[c]
       /\ costs'[c] # NoCost => stream[c] # "none" /\ chargeable(c)]_costs

quiet == /\ \A a \in Admins : patches[a] = Waiting
         /\ \A s \in Subscribers : subs[s] = Waiting

(* The reports agree with one another on every day, whenever no request is *)
(* half done: consecutive months count every cost row once, the projects'  *)
(* costs add up to the call costs of the tenant, the breakdown adds up to  *)
(* the spend, and the period that is asked for contains the day.           *)
ReportsAgree ==
  quiet => \A now \in 0..LastDay :
    LET months == (now \div MonthDays) + 1
        series == ByMonth(now, months)
        past   == {c \in charged : FinInfo[c].at < months * MonthDays}
        t      == GetTariffs.tariffs
    IN /\ \A kind \in {"month", "week", "quarter", "year"} :
            LET d == Dashboard(now, kind)
                b == d.breakdown
            IN /\ now >= d.period.from /\ now < d.period.to
               /\ d.spend = b[1] + b[2] + b[3] + b[4] + b[5]
               /\ b = Breakdown(now, kind) /\ d.projects = Projects(now, kind)
               /\ MapThenSumSet(LAMBDA r : r.total, d.projects) = b[1] + b[2] + b[4]
       /\ MapThenSumSet(LAMBDA i : series[i].total - series[i].bases, 1..months)
            = MapThenSumSet(LAMBDA c : costs[c].total, past) + months * t["fixed"]

(* Every well-formed finalized call is charged in the end, through errors, *)
(* lost acks and a message no handler can decode, as long as fewer such    *)
(* messages than MaxAckPending are about.                                  *)
FinalizedIsCharged ==
  \A c \in FinCalls : (stream[c] # "none" /\ chargeable(c)) ~> (costs[c] # NoCost)
=============================================================================
