----------------------------- MODULE RddGenerator -----------------------------
(* internal/dialer/rdd: synthesising respondents by random digit dialling.  *)
(*                                                                         *)
(* Several Generate calls of one tenant run at once, in one process or in  *)
(* two.  They share the tenant's token bucket and SET of seen phones in    *)
(* Redis, the CRM rows and the call queue; each process has its own Bloom  *)
(* filter.  The draw of a region, a prefix and a subscriber is a choice of *)
(* a phone or of a region without a prefix.  The CRM service and the queue *)
(* are modelled by the answers the generator tells apart.                  *)
EXTENDS Integers, FiniteSets, FiniteSetsExt

CONSTANTS GenRuns,      \* the Generate calls
          GenProcess,   \* call -> process it runs in
          GenProject,   \* call -> project it generates for
          GenWanted,    \* call -> req.N
          GenQuotas,    \* call -> region -> weight
          RegionPhones, \* known region -> the numbers its prefixes give
          OnDnc,        \* numbers on the do-not-call list
          CrmRefuses,   \* numbers crm.Create refuses as invalid
          NoPhone,      \* no number drawn
          BucketRate,   \* PerTenantPerSec: capacity and tokens per second
          SeenTtl,      \* SetTTL, in the clock's units
          GenSkew,      \* how far behind the clock of a caller may be
          MaxGenTime,   \* bound on the clock
          MaxGenFaults  \* bound on transport errors

VARIABLES gen,        \* call -> where it stands
          bloom,      \* process -> its filter: [loaded, members]
          seen,       \* the durable SET: [members, dies]
          bucket,     \* the tenant's bucket: [tokens, updated]
          genRows,    \* CRM rows, as <<project, phone>>
          dialList,   \* what reached the call queue
          granted,    \* history: tokens handed out so far
          setBack,    \* history: by how much callers moved bucket.updated back, in all
          genTime,
          genFaults

rddVars == <<gen, bloom, seen, bucket, genRows, dialList, granted, setBack, genTime, genFaults>>

Processes == {GenProcess[g] : g \in GenRuns}

RddPhones == UNION {RegionPhones[r] : r \in DOMAIN RegionPhones}

NothingYet == [generated |-> 0, dnc |-> 0, duplicates |-> 0, invalid |-> 0]

RddInit ==
    /\ gen = [g \in GenRuns |-> [pc |-> "idle", phone |-> NoPhone, left |-> 0,
                                 out |-> NothingYet, answer |-> "none"]]
    /\ bloom = [p \in Processes |-> [loaded |-> FALSE, members |-> {}]]
    /\ seen = [members |-> {}, dies |-> 0]
    /\ bucket = [tokens |-> BucketRate, updated |-> -1]     \* not touched yet
    /\ genRows = {} /\ dialList = {} /\ granted = 0 /\ setBack = 0 /\ genTime = 0 /\ genFaults = 0

(* A transport error may strike any call to Redis, the CRM or the queue.   *)
breaks == genFaults < MaxGenFaults /\ genFaults' = genFaults + 1

works == UNCHANGED genFaults

finish(g, answer) == gen' = [gen EXCEPT ![g].pc = "done", ![g].answer = answer]

(* The attempt ended as expected: count it and go round the loop.          *)
count(g, field) ==
    gen' = [gen EXCEPT ![g].pc = "turn", ![g].out[field] = @ + 1,
                       ![g].left = @ - 1]

target(g) == <<GenProject[g], gen[g].phone>>

(***************************************************************************)
(* Generate: a request for nothing is answered at once, one whose quotas   *)
(* give no region a positive weight is refused.                            *)
(***************************************************************************)
FaultKeepsZeroWeights(g) == DOMAIN GenQuotas[g]

buildRegionPicker(g) == {r \in DOMAIN GenQuotas[g] : GenQuotas[g][r] > 0}

Generate(g) ==
    /\ gen[g].pc = "idle"
    /\ IF GenWanted[g] <= 0
       THEN finish(g, "ok")
       ELSE IF buildRegionPicker(g) = {}
       THEN finish(g, "error")
       ELSE gen' = [gen EXCEPT ![g].pc = "turn", ![g].left = GenWanted[g]]
    /\ UNCHANGED <<bloom, seen, bucket, genRows, dialList, granted, setBack, genTime, genFaults>>

(* leak_bucket.lua: refill for the time elapsed by the clock of the caller, *)
(* none when that clock is behind the last caller's; then take a token. The *)
(* reading is stored whether it is later or earlier.                       *)
callerClocks == {t \in (genTime - GenSkew)..genTime : t >= 0}

updatedBefore(now) == IF bucket.updated < 0 THEN now ELSE bucket.updated

elapsed(now) == IF now < updatedBefore(now) THEN 0 ELSE now - updatedBefore(now)

FaultNoCap(now) == bucket.tokens + elapsed(now) * BucketRate

refilled(now) ==
    LET filled == bucket.tokens + elapsed(now) * BucketRate
    IN  IF filled > BucketRate THEN BucketRate ELSE filled

takeToken(now) == IF refilled(now) >= 1 THEN 1 ELSE 0

Allow(now) ==
    /\ bucket' = [tokens |-> refilled(now) - takeToken(now), updated |-> now]
    /\ granted' = granted + takeToken(now)
    /\ setBack' = setBack + (IF now < updatedBefore(now) THEN updatedBefore(now) - now ELSE 0)

(* The draw of rollAttempt: a region by its quota, then one of its numbers; *)
(* an unknown region, or one without prefixes, gives none.                 *)
drawable(r) == IF r \in DOMAIN RegionPhones THEN RegionPhones[r] ELSE {}

rollAttempt(g) ==
    \E r \in buildRegionPicker(g) :
        IF drawable(r) = {}
        THEN count(g, "invalid")
        ELSE \E phone \in drawable(r) :
                gen' = [gen EXCEPT ![g].pc = "check", ![g].phone = phone]

(* One turn of the loop: a token, and with it a draw.                      *)
Turn(g) ==
    /\ gen[g].pc = "turn" /\ gen[g].left > 0
    /\ \/ \E now \in callerClocks :
             /\ Allow(now)
             /\ IF takeToken(now) = 1 THEN rollAttempt(g)
                ELSE finish(g, IF gen[g].out.generated = 0 THEN "throttled" ELSE "ok")
             /\ works
       \/ /\ breaks
          /\ finish(g, "error")
          /\ \/ \E now \in callerClocks : Allow(now)     \* the answer is lost
             \/ UNCHANGED <<bucket, granted, setBack>>
    /\ UNCHANGED <<bloom, seen, genRows, dialList, genTime>>

EndOfLoop(g) ==
    /\ gen[g].pc = "turn" /\ gen[g].left = 0
    /\ finish(g, "ok")
    /\ UNCHANGED <<bloom, seen, bucket, genRows, dialList, granted, setBack, genTime, genFaults>>

(***************************************************************************)
(* Dedup.  filterFor loads the SET into the filter on first touch; when    *)
(* the scan breaks it keeps the part it has read, for good.                *)
(***************************************************************************)
filterFor(p) ==
    IF bloom[p].loaded
    THEN bloom[p]
    ELSE [loaded |-> TRUE, members |-> seen.members]

(* A number the filter lacks is new without asking Redis; one it has, or   *)
(* seems to have, is what the SET says.                                    *)
Seen(g) ==
    LET p == GenProcess[g] f == filterFor(p)
    IN  /\ gen[g].pc = "check"
        /\ \/ /\ bloom' = [bloom EXCEPT ![p] = f]
              /\ \/ gen[g].phone \notin f.members /\ gen' = [gen EXCEPT ![g].pc = "mark"]
                 \/ IF gen[g].phone \in seen.members
                    THEN count(g, "duplicates")
                    ELSE gen' = [gen EXCEPT ![g].pc = "mark"]
              /\ works
           \/ /\ breaks
              /\ \E part \in SUBSET f.members :
                    bloom' = [bloom EXCEPT ![p] =
                        IF bloom[p].loaded THEN f ELSE [loaded |-> TRUE, members |-> part]]
              /\ finish(g, "error")
        /\ UNCHANGED <<seen, bucket, genRows, dialList, granted, setBack, genTime>>

(* The filter first, then SADD with the lifetime renewed; a failure of the *)
(* second is logged and the attempt goes on.                               *)
Mark(g) ==
    LET p == GenProcess[g] f == filterFor(p)
    IN  /\ gen[g].pc = "mark"
        /\ bloom' = [bloom EXCEPT ![p] = [f EXCEPT !.members = @ \cup {gen[g].phone}]]
        /\ \/ /\ seen' = [members |-> seen.members \cup {gen[g].phone},
                          dies |-> genTime + SeenTtl]
              /\ works
           \/ UNCHANGED seen /\ breaks
        /\ gen' = [gen EXCEPT ![g].pc = "create"]
        /\ UNCHANGED <<bucket, genRows, dialList, granted, setBack, genTime>>

(***************************************************************************)
(* The row, then the queue.                                                *)
(***************************************************************************)
(* The answers of crm.Create the generator tells apart; the last is the    *)
(* unique index on project and phone hash.                                 *)
crmAnswer(g) ==
    IF gen[g].phone \in OnDnc THEN "dnc"
    ELSE IF gen[g].phone \in CrmRefuses THEN "invalid"
    ELSE IF target(g) \in genRows THEN "duplicates" ELSE "created"

Create(g) ==
    /\ gen[g].pc = "create"
    /\ \/ /\ crmAnswer(g) = "created"
          /\ genRows' = genRows \cup {target(g)}
          /\ gen' = [gen EXCEPT ![g].pc = "enqueue"]
          /\ works
       \/ /\ crmAnswer(g) # "created"
          /\ count(g, crmAnswer(g))
          /\ works /\ UNCHANGED genRows
       \/ /\ breaks
          /\ genRows' \in {genRows, IF crmAnswer(g) = "created" THEN genRows \cup {target(g)} ELSE genRows}
          /\ finish(g, "error")
    /\ UNCHANGED <<bloom, seen, bucket, dialList, granted, setBack, genTime>>

FaultLogsOnly(g) == count(g, "generated")

(* The row exists and the queue does not have it: the batch fails.         *)
enqueueFailed(g) == finish(g, "error")

EnqueueNumber(g) ==
    /\ gen[g].pc = "enqueue"
    /\ \/ /\ dialList' = dialList \cup {target(g)}
          /\ count(g, "generated")
          /\ works
       \/ /\ breaks
          /\ dialList' \in {dialList, dialList \cup {target(g)}}
          /\ enqueueFailed(g)
    /\ UNCHANGED <<bloom, seen, bucket, genRows, granted, setBack, genTime>>

(* Time passes; the SET expires when no phone was marked for SeenTtl.      *)
PassTime ==
    /\ genTime < MaxGenTime
    /\ genTime' = genTime + 1
    /\ seen' = IF genTime' >= seen.dies THEN [seen EXCEPT !.members = {}] ELSE seen
    /\ UNCHANGED <<gen, bloom, bucket, genRows, dialList, granted, setBack, genFaults>>

RddNext ==
    \/ \E g \in GenRuns :
          \/ Generate(g) \/ Turn(g) \/ EndOfLoop(g)
          \/ Seen(g) \/ Mark(g) \/ Create(g) \/ EnqueueNumber(g)
    \/ PassTime

RddTypeOK ==
    /\ \A g \in GenRuns :
          /\ gen[g].pc \in {"idle", "turn", "check", "mark", "create", "enqueue", "done"}
          /\ gen[g].answer \in {"none", "ok", "throttled", "error"}
          /\ gen[g].left \in 0..GenWanted[g]
    /\ seen.members \subseteq RddPhones
    /\ bucket.tokens \in Nat

(***************************************************************************)
(* Properties                                                              *)
(***************************************************************************)
counted(g) == LET o == gen[g].out IN o.generated + o.dnc + o.duplicates + o.invalid

(* generator.go 265-425: every attempt of every call ends in one counter;  *)
(* a number counted as generated is in the queue exactly once over all     *)
(* calls and processes, however two of them drew it together; and a row    *)
(* that is not in the queue belongs to a call that is about to queue it or *)
(* that answered an error, never to one that reported success.  A region   *)
(* of weight zero supplies nothing.                                        *)
GeneratedIsQueued ==
    /\ \A row \in genRows : \E g \in GenRuns :
          /\ GenProject[g] = row[1]
          /\ \E r \in DOMAIN GenQuotas[g] : GenQuotas[g][r] > 0 /\ row[2] \in drawable(r)
    /\ \A g \in GenRuns : gen[g].pc # "idle" /\ gen[g].answer # "error" =>
          counted(g) + gen[g].left = (IF GenWanted[g] > 0 THEN GenWanted[g] ELSE 0)
    /\ MapThenSumSet(LAMBDA g : gen[g].out.generated, GenRuns)
          + Cardinality({g \in GenRuns : gen[g].answer = "error"}) >= Cardinality(dialList)
    /\ Cardinality(dialList) >= MapThenSumSet(LAMBDA g : gen[g].out.generated, GenRuns)
    /\ \A row \in genRows \ dialList : \E g \in GenRuns :
          target(g) = row /\ (gen[g].pc = "enqueue" \/ gen[g].answer = "error")

(* leak_bucket.lua 30-59: over any prefix of a run the calls of a tenant    *)
(* together draw no more numbers than a full bucket, the refill of the     *)
(* time that has passed, and the refill of whatever time a caller with a   *)
(* clock behind the last one's gave back: that interval is refilled again. *)
(* On clocks that agree the last term is zero.  Whatever time has passed   *)
(* and on whatever clock, the bucket never holds more than one second of   *)
(* the rate, which bounds the next burst.                                  *)
BucketHolds ==
    /\ bucket.tokens <= BucketRate
    /\ granted + bucket.tokens <= BucketRate * (1 + genTime + setBack)
=============================================================================
