------------------------------ MODULE Tenants ------------------------------
(***************************************************************************)
(* Onboarding an organisation and its status.  Create makes a KMS key,     *)
(* inserts the row with its outbox event, publishes, provisions a bucket   *)
(* and records it: each is a step of its own that can fail, and requests   *)
(* for the same org_code can run at the same time.                         *)
(***************************************************************************)
EXTENDS Naturals, FiniteSets

CONSTANTS
  OrgCodes,     \* org_codes asked for
  TooLong,      \* those of more than 64 characters
  Onboardings,  \* Create requests
  HasBuckets,   \* a bucket provisioner is wired
  MaxMoves      \* bound on status changes

ASSUME TenantsAssumption == HasBuckets \in BOOLEAN /\ TooLong \subseteq OrgCodes

VARIABLES
  tenants,     \* rows, by org_code: status, KEK, bucket recorded in tenant_settings
  keks,        \* keys made by KMS
  orphans,     \* keys reported as orphans in the log
  buckets,     \* org_codes with a bucket in object storage
  onboard,     \* the requests
  tenantOutbox,   \* durable lifecycle events
  notices      \* events published at once

tenantVars == <<tenants, keks, orphans, buckets, onboard, tenantOutbox, notices>>

NoTenant == [status |-> "none", kek |-> 0, bucket |-> FALSE]
Unasked == [pc |-> "idle", org |-> "none", kek |-> 0, answer |-> "none"]

TenantInit ==
  /\ tenants = [o \in OrgCodes |-> NoTenant]
  /\ keks = 0 /\ orphans = {} /\ buckets = {}
  /\ onboard = [r \in Onboardings |-> Unasked]
  /\ tenantOutbox = {} /\ notices = {}

known(o) == tenants[o].status # "none"
(* GetByOrgCode: what a login, too, resolves an organisation with.         *)
GetByOrgCode(o) == IF known(o) THEN {o} ELSE {}
step(r, pc) == onboard' = [onboard EXCEPT ![r].pc = pc]
answer(r, a) == onboard' = [onboard EXCEPT ![r] = [@ EXCEPT !.pc = "done", !.answer = a]]

-----------------------------------------------------------------------------
(* Create up to the fast duplicate check.                                  *)
CreateTenant(r, o) ==
  /\ onboard[r].pc = "idle"
  /\ onboard' = [onboard EXCEPT ![r] = [pc |-> IF GetByOrgCode(o) = {} THEN "key" ELSE "done", org |-> o, kek |-> 0,
                                         answer |-> IF GetByOrgCode(o) = {} THEN "none" ELSE "exists"]]
  /\ UNCHANGED <<tenants, keks, orphans, buckets, tenantOutbox, notices>>
CreateKey(r) ==
  /\ onboard[r].pc = "key"
  /\ \/ keks' = keks + 1 /\ onboard' = [onboard EXCEPT ![r] = [@ EXCEPT !.pc = "insert", !.kek = keks + 1]]
     \/ answer(r, "kmsUnavailable") /\ UNCHANGED keks
  /\ UNCHANGED <<tenants, orphans, buckets, tenantOutbox, notices>>

(* The event is published only, not kept in the outbox.                    *)
FaultOnlyPublished(o) == tenantOutbox

appendCreatedToOutbox(o) == tenantOutbox \cup {<<o, "created">>}

(* Tenant.Validate, the first to look at the length of the org_code.       *)
Validate(o) == o \notin TooLong

(* The key is there already.  A row that Validate refuses ends the request *)
(* without a word of the key; a pepper or a transaction that fails reports *)
(* it.  org_code is unique, so the loser of two concurrent requests fails  *)
(* here.                                                                   *)
InsertRow(r) ==
  LET o == onboard[r].org IN
  /\ Validate(o) /\ ~known(o)
  /\ tenants' = [tenants EXCEPT ![o] = [NoTenant EXCEPT !.status = "active", !.kek = onboard[r].kek]]
InsertTenant(r) ==
  /\ onboard[r].pc = "insert"
  /\ \/ /\ InsertRow(r)
        /\ tenantOutbox' = appendCreatedToOutbox(onboard[r].org)
        /\ step(r, "publish") /\ UNCHANGED orphans
     \/ /\ orphans' = orphans \cup {onboard[r].kek}
        /\ answer(r, "failed")
        /\ UNCHANGED <<tenants, tenantOutbox>>
     \/ /\ ~Validate(onboard[r].org)
        /\ answer(r, "invalid")
        /\ UNCHANGED <<tenants, tenantOutbox, orphans>>
  /\ UNCHANGED <<keks, buckets, notices>>
PublishCreated(r) ==
  /\ onboard[r].pc = "publish"
  /\ notices' \in {notices, notices \cup {<<onboard[r].org, "created">>}}
  /\ IF HasBuckets THEN step(r, "provision") ELSE answer(r, "ok")
  /\ UNCHANGED <<tenants, keks, orphans, buckets, tenantOutbox>>

(* Provisioning is idempotent in object storage.                           *)
ensureBucket(o) == buckets' = buckets \cup {o}
Provision(r) ==
  /\ onboard[r].pc = "provision"
  /\ \/ ensureBucket(onboard[r].org) /\ step(r, "record")
     \/ answer(r, "pending") /\ UNCHANGED buckets
  /\ UNCHANGED <<tenants, keks, orphans, tenantOutbox, notices>>

(* The failed update is logged and the request succeeds all the same.      *)
FaultSwallowsUpdate == "ok"

whenNotRecorded == "pending"

UpdateBucket(r) ==
  /\ onboard[r].pc = "record"
  /\ \/ tenants' = [tenants EXCEPT ![onboard[r].org].bucket = TRUE] /\ answer(r, "ok")
     \/ answer(r, whenNotRecorded) /\ UNCHANGED tenants
  /\ UNCHANGED <<keks, orphans, buckets, tenantOutbox, notices>>
(* The process dies inside a request.                                      *)
Dies(r) ==
  /\ onboard[r].pc \notin {"idle", "done"}
  /\ answer(r, "lost")
  /\ UNCHANGED <<tenants, keks, orphans, buckets, tenantOutbox, notices>>

-----------------------------------------------------------------------------
(* transitionStatus: any status may follow any other; the row and the      *)
(* event are one transaction, the notice is best effort.                   *)
UpdateStatus(o, to) == known(o) /\ tenants' = [tenants EXCEPT ![o].status = to]
transitionStatus(o, to, event, noticed) ==
  /\ Cardinality(tenantOutbox) < MaxMoves
  /\ UpdateStatus(o, to)
  /\ tenantOutbox' = tenantOutbox \cup {<<o, event>>}
  /\ notices' \in {notices, IF noticed THEN notices \cup {<<o, event>>} ELSE notices}
  /\ UNCHANGED <<keks, orphans, buckets, onboard>>
Suspend(o) == transitionStatus(o, "suspended", "suspended", TRUE)
Resume(o) == transitionStatus(o, "active", "resumed", FALSE)
ArchiveTenant(o) == transitionStatus(o, "archived", "archived", TRUE)

TenantNext ==
  \/ \E r \in Onboardings :
       \/ \E o \in OrgCodes : CreateTenant(r, o)
       \/ CreateKey(r) \/ InsertTenant(r) \/ PublishCreated(r) \/ Provision(r) \/ UpdateBucket(r) \/ Dies(r)
  \/ \E o \in OrgCodes : Suspend(o) \/ Resume(o) \/ ArchiveTenant(o)

TenantSpec == TenantInit /\ [][TenantNext]_tenantVars

-----------------------------------------------------------------------------
TenantTypeOK ==
  /\ \A o \in OrgCodes : tenants[o].status \in {"none", "active", "suspended", "archived"} /\ tenants[o].kek \in 0..keks
  /\ orphans \subseteq 1..keks /\ buckets \subseteq OrgCodes

(* A request may hold a key nobody reported: one under way, one whose      *)
(* process died, and one Validate refused after its key was made.          *)
excused(x) ==
  \/ x.pc # "done" \/ x.answer = "lost"
  \/ x.answer = "invalid" /\ x.org \in TooLong

(* Whatever fails in between: an organisation exists with a key of its own *)
(* and a durable created event, a request answered ok left it complete,    *)
(* and a key belongs to a row, was reported, or is that of a request under *)
(* way, of one that was lost, or of one refused for its long org_code      *)
(* (tenant_service.go Create, which makes the key before Validate).        *)
OnboardingIsAccounted ==
  /\ \A o \in OrgCodes : known(o) =>
       /\ <<o, "created">> \in tenantOutbox
       /\ tenants[o].kek > 0
       /\ \A q \in OrgCodes \ {o} : tenants[q].kek # tenants[o].kek
  /\ \A r \in Onboardings : onboard[r].answer = "ok" =>
       tenants[onboard[r].org].kek = onboard[r].kek /\ tenants[onboard[r].org].bucket = HasBuckets
  /\ \A k \in 1..keks :
       \/ k \in orphans
       \/ \E o \in OrgCodes : tenants[o].kek = k
       \/ \E r \in Onboardings : onboard[r].kek = k /\ excused(onboard[r])

(* The rows, keys and buckets are sound, and onboarding is accounted for   *)
(* (tenant_service.go Create, Suspend, Resume, Archive).                   *)
TenantsAreAccounted == TenantTypeOK /\ OnboardingIsAccounted
=============================================================================
