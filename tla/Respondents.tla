---------------------------- MODULE Respondents ----------------------------
(***************************************************************************)
(* The respondents of the projects: creation, reading, deletion on request *)
(* and the daily purge.  A phone is known by its hash.                     *)
(***************************************************************************)
EXTENDS Projects, Sequences

CONSTANTS
  RespIds,
  RawPhones,      \* phones as they are typed
  Phones,         \* phones in E.164 form
  Normal,         \* what a typed phone parses to: a phone, or "invalid"
  RespRequests,
  GraceDays,      \* deletionGracePeriod
  PurgeBatch,
  MaxDay          \* bound on the clock

ASSUME RespondentsAssumption ==
  /\ Normal \in [RawPhones -> Phones \cup {"invalid"}]
  /\ GraceDays \in Nat \ {0} /\ PurgeBatch \in Nat \ {0} /\ MaxDay \in Nat

VARIABLES
  respondents,  \* the respondents table
  dnc,          \* the project_dnc table; project "all" blocks everywhere
  rreq,         \* requests between their read and their write
  swept,        \* rows the retry sweep has read and not yet marked
  day           \* the clock

respondentVars == <<respondents, dnc, rreq, swept, day>>

RespStatuses == {"pending", "dialing", "exhausted", "deletion_requested"}
NoRespondent == [org |-> "none", project |-> "none", phone |-> "none", status |-> "absent", deletedAt |-> 0]
NoRespRequest == [pc |-> "idle", org |-> "none", id |-> "none", project |-> "none", phone |-> "none", at |-> 0]
there(r) == respondents[r] # NoRespondent
deleted(r) == respondents[r].deletedAt > 0
setRespondent(r, row) == respondents' = [respondents EXCEPT ![r] = row]

RespondentInit ==
  /\ respondents = [r \in RespIds |-> NoRespondent]
  /\ dnc = {}
  /\ rreq = [q \in RespRequests |-> NoRespRequest]
  /\ swept = {}
  /\ day = 1

-----------------------------------------------------------------------------
(* The statements of the store.                                            *)
FaultNoConstraint(project, phone) == TRUE

NormalizeRussianPhone(raw) == Normal[raw]
rowsOf(project) == {r \in RespIds : respondents[r].project = project}
GetByHash(project, phone) == {r \in rowsOf(project) : respondents[r].phone = phone}
IsBlockedDNC(project, phone) == <<project, phone>> \in dnc \/ <<"all", phone>> \in dnc
(* The unique constraint on organisation, project and phone hash.          *)
uniqueHash(project, phone) == GetByHash(project, phone) = {}
(* Ids are random and never used again.                                    *)
freshId(r) == ~there(r) /\ r \notin swept /\ \A q \in RespRequests : rreq[q].id # r
newRespondent(org, project, phone) ==
  [NoRespondent EXCEPT !.org = org, !.project = project, !.phone = phone, !.status = "pending"]

(* Create: the do-not-call list and the duplicates are read first; the     *)
(* insert finds out about a row that came in between.                      *)
applyRespondentCreate(q, c, i, phone) ==
  /\ ~IsBlockedDNC(i, phone) /\ GetByHash(i, phone) = {}
  /\ rreq' = [rreq EXCEPT ![q] = [NoRespRequest EXCEPT !.pc = "create", !.org = c.org, !.project = i, !.phone = phone]]
  /\ UNCHANGED <<respondents, dnc, swept, day>>
InsertRespondent(q) ==
  /\ rreq[q].pc = "create"
  /\ IF uniqueHash(rreq[q].project, rreq[q].phone)
     THEN \E r \in RespIds :
            freshId(r) /\ setRespondent(r, newRespondent(rreq[q].org, rreq[q].project, rreq[q].phone))
     ELSE UNCHANGED respondents
  /\ rreq' = [rreq EXCEPT ![q] = NoRespRequest]
  /\ UNCHANGED <<dnc, swept, day>>
CreateRespondent(q, c, i, raw) ==
  NormalizeRussianPhone(raw) # "invalid" /\ applyRespondentCreate(q, c, i, NormalizeRussianPhone(raw))
createRespondent(c, q, i, raw) ==
  rreq[q] = NoRespRequest /\ requireAdminRole(c) /\ projectSameTenant(c, i) /\ CreateRespondent(q, c, i, raw)

-----------------------------------------------------------------------------
(* Delete: the row is marked once; the purge counts from that day.         *)
RespGetByID(c, r) == there(r) /\ respondents[r].org = c.org
respondentSameTenant(c, r) == RespGetByID(c, r)

(* The row is marked and keeps its place among those to be called.         *)
FaultKeepsStatus(q) ==
  setRespondent(rreq[q].id, [respondents[rreq[q].id] EXCEPT !.deletedAt = IF @ > 0 THEN @ ELSE rreq[q].at])

SoftDelete(q) ==
  LET r == rreq[q].id IN
    IF there(r) /\ ~deleted(r)
    THEN setRespondent(r, [respondents[r] EXCEPT !.deletedAt = rreq[q].at, !.status = "deletion_requested"])
    ELSE UNCHANGED respondents
Delete(q, r) ==
  /\ ~deleted(r)
  /\ rreq' = [rreq EXCEPT ![q] = [NoRespRequest EXCEPT !.pc = "delete", !.id = r, !.at = day]]
  /\ UNCHANGED <<respondents, dnc, swept, day>>
FinishDelete(q) ==
  /\ rreq[q].pc = "delete"
  /\ SoftDelete(q)
  /\ rreq' = [rreq EXCEPT ![q] = NoRespRequest]
  /\ UNCHANGED <<dnc, swept, day>>
deleteRespondent(c, q, r) ==
  rreq[q] = NoRespRequest /\ requireAdminRole(c) /\ respondentSameTenant(c, r) /\ Delete(q, r)

(* The purge: the oldest rows past the grace period, at most a batch.      *)
FaultPurgesEarly == {r \in RespIds : there(r) /\ deleted(r) /\ respondents[r].deletedAt + GraceDays <= day + 1}

due == {r \in RespIds : there(r) /\ deleted(r) /\ respondents[r].deletedAt + GraceDays < day}
oldest(batch, of) == \A r \in batch, s \in of \ batch : respondents[r].deletedAt <= respondents[s].deletedAt
PurgeOlderThan(batch) ==
  /\ batch # {} /\ Cardinality(batch) <= PurgeBatch /\ oldest(batch, due)
  /\ Cardinality(batch) < PurgeBatch => batch = due
  /\ respondents' = [r \in RespIds |-> IF r \in batch THEN NoRespondent ELSE respondents[r]]
PurgeRun == \E batch \in SUBSET due : PurgeOlderThan(batch) /\ UNCHANGED <<dnc, rreq, swept, day>>

-----------------------------------------------------------------------------
(* The reading routes; a deleted respondent is gone for all of them.       *)
readRespondent(c, r) == IF RespGetByID(c, r) /\ ~deleted(r) THEN {r} ELSE {}
getRespondent(c, r) ==
  IF requireAnyRole(c, Readers) /\ respondentSameTenant(c, r) THEN readRespondent(c, r) ELSE {}
getRespondentWithPhone(c, r) ==
  IF requireAdminRole(c) /\ respondentSameTenant(c, r) THEN readRespondent(c, r) ELSE {}

buildSearchPredicate(c, i, f, r) ==
  RespGetByID(c, r) /\ respondents[r].project = i /\ ~deleted(r) /\ (f # "any" => respondents[r].status = f)
Search(c, i, f, size) == pages({r \in RespIds : buildSearchPredicate(c, i, f, r)}, clampList(size))
searchRespondents(c, i, f, size) ==
  IF requireAnyRole(c, Readers) /\ projectSameTenant(c, i) THEN Search(c, i, f, size) ELSE {}

(* Progress: respondents of the project by status, deleted or not; one     *)
(* whose deletion was asked for has a status that is not counted.          *)
AggregateProgress(i) ==
  [s \in {"pending", "dialing", "exhausted"} |-> Cardinality({r \in rowsOf(i) : respondents[r].status = s})]
getProjectProgress(c, i) == IF anyProject(c, i, Readers) THEN {AggregateProgress(i)} ELSE {}

-----------------------------------------------------------------------------
(* The retry sweep marks the rows it read, by id alone; the do-not-call    *)
(* list is filled from outside; days pass.                                 *)
ListMatureRetries(r) ==
  /\ there(r) /\ respondents[r].status = "pending" /\ r \notin swept
  /\ swept' = swept \cup {r}
  /\ UNCHANGED <<respondents, dnc, rreq, day>>
mark(r, status) ==
  /\ r \in swept /\ swept' = swept \ {r}
  /\ IF there(r) THEN setRespondent(r, [respondents[r] EXCEPT !.status = status]) ELSE UNCHANGED respondents
  /\ UNCHANGED <<dnc, rreq, day>>
MarkScheduled(r) == mark(r, "dialing")
MarkExhausted(r) == mark(r, "exhausted")
AddDNC(i, phone) ==
  /\ <<i, phone>> \notin dnc /\ Cardinality(dnc) < 1
  /\ dnc' = dnc \cup {<<i, phone>>}
  /\ UNCHANGED <<respondents, rreq, swept, day>>
DayPasses == day < MaxDay /\ day' = day + 1 /\ UNCHANGED <<respondents, dnc, rreq, swept>>

RespondentCreates ==
  \/ \E c \in CrmCallers, q \in RespRequests, i \in ProjectIds, raw \in RawPhones : createRespondent(c, q, i, raw)
  \/ \E q \in RespRequests : InsertRespondent(q)
  \/ \E i \in ProjectIds \cup {"all"}, ph \in Phones : AddDNC(i, ph)
RespondentDeletes ==
  \/ \E c \in CrmCallers, q \in RespRequests, r \in RespIds : deleteRespondent(c, q, r)
  \/ \E q \in RespRequests : FinishDelete(q)
  \/ PurgeRun \/ DayPasses
  \/ \E r \in RespIds : ListMatureRetries(r) \/ MarkScheduled(r) \/ MarkExhausted(r)
RespondentNext == (RespondentCreates \/ RespondentDeletes) /\ UNCHANGED projectVars

RespondentTypeOK ==
  /\ \A r \in RespIds :
       /\ respondents[r].status \in RespStatuses \cup {"absent"}
       /\ respondents[r].deletedAt \in 0..MaxDay
       /\ there(r) => respondents[r].phone \in Phones /\ respondents[r].project \in ProjectIds
  /\ day \in 1..MaxDay
  /\ \A q \in RespRequests : rreq[q].pc \in {"idle", "create", "delete"}

(* A phone is in a project at most once, whatever creations and imports    *)
(* run at the same time and however it was typed (the hash is taken of the *)
(* normalised phone; respondents_tenant_project_phone_hash_uniq).          *)
OnePhoneOneRow == \A r, s \in RespIds :
  there(r) /\ there(s) /\ respondents[r].project = respondents[s].project
    /\ respondents[r].phone = respondents[s].phone => r = s

(* A row leaves the table only after the whole grace period that began     *)
(* when its deletion was first asked for: the mark is never moved nor      *)
(* taken back, by a second request or by the retry sweep either (Delete,   *)
(* SoftDelete, PurgeOlderThan, MarkScheduled).                             *)
GraceIsKept ==
  [][\A r \in RespIds : there(r) =>
       \/ respondents'[r] = NoRespondent /\ deleted(r) /\ day > respondents[r].deletedAt + GraceDays
       \/ /\ respondents'[r].phone = respondents[r].phone
          /\ deleted(r) => respondents'[r].deletedAt = respondents[r].deletedAt]_respondentVars

(* A respondent belongs to the organisation that owns its project, whether *)
(* it was typed in or came with an import: the row takes its organisation  *)
(* from the caller and its project from the path, and only the route chain *)
(* ties the two (RequireSameTenant, Create, persistBatch).                 *)
OwnersAgree == \A r \in RespIds : there(r) => respondents[r].org = projects[respondents[r].project].org

(* The progress of a project counts as still to be called exactly those a  *)
(* search for them finds and the reader can open.  The count goes by the   *)
(* status alone and the search by deleted_at as well, so this rests on     *)
(* what deletions, the sweep and the purge write.  The other counts may    *)
(* exceed the search by deleted rows that the sweep marked afterwards      *)
(* (AggregateProgress, buildSearchPredicate, SoftDelete, MarkScheduled).   *)
RespondentAnswersAgree ==
  \A c \in CrmCallers, i \in ProjectIds :
    LET found(s) == UNION searchRespondents(c, i, s, 1) IN
    /\ \A p \in getProjectProgress(c, i) : \A s \in DOMAIN p :
         /\ p[s] >= Cardinality(found(s))
         /\ s = "pending" => p[s] = Cardinality(found(s))
    /\ \A r \in found("any") : getRespondent(c, r) = {r}
=============================================================================
