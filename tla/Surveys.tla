------------------------------- MODULE Surveys -------------------------------
(***************************************************************************)
(* Surveys and their versions (internal/surveys: service, store, routes).  *)
(* A service method is one READ COMMITTED transaction.  What it reads and  *)
(* what it writes are separate steps; its writes and the commit are one,   *)
(* because nobody sees the rows in between.  The event bus message that    *)
(* follows the commit has no reader in the platform and is left out.       *)
(***************************************************************************)
EXTENDS Naturals, FiniteSets, Sequences

CONSTANTS
  SurveyCallers,    \* callers of the routes: roles and organisation
  SurveyIds,
  VersionIds,
  SurveyRequests,   \* requests between their read and their write
  SurveyPage,       \* default and largest page of a listing
  MaxSurveyEdits,   \* bound on updates of one survey
  MaxActivations    \* bound on the activations of one survey

ASSUME SurveysAssumption ==
  SurveyPage \in Nat \ {0} /\ MaxSurveyEdits \in Nat /\ MaxActivations \in Nat

VARIABLES
  surveyRows,   \* the surveys table
  versionRows,  \* the survey_versions table
  sreq,         \* the requests
  alock,        \* holder of the advisory lock of each survey
  activations   \* history: the activations that committed, per survey

surveyVars == <<surveyRows, versionRows, sreq, alock, activations>>

SurveyStatuses == {"active", "archived"}
PrimaryModes == {"form", "flow"}
NoSurvey == [org |-> "none", status |-> "absent", mode |-> "form", archivedAt |-> FALSE,
             current |-> "none", edits |-> 0]
NoVersion == [survey |-> "none", major |-> 0, minor |-> 0, active |-> FALSE]
NoSurveyRequest == [pc |-> "idle", survey |-> "none", version |-> "none", bump |-> "none",
                    major |-> 0, minor |-> 0, prev |-> "none"]

SurveyInit ==
  /\ surveyRows = [s \in SurveyIds |-> NoSurvey]
  /\ versionRows = [v \in VersionIds |-> NoVersion]
  /\ sreq = [q \in SurveyRequests |-> NoSurveyRequest]
  /\ alock = [s \in SurveyIds |-> "free"]
  /\ activations = [s \in SurveyIds |-> <<>>]

-----------------------------------------------------------------------------
(* The route chain.  The owner of the row is read without row security     *)
(* (lookupSurvey), the row itself under the caller's organisation.         *)
surveyRole(c, roles) == c.roles \cap roles # {}
lookupSurvey(s) == surveyRows[s]
ResolveSurveyTenant(s) == lookupSurvey(s).org
surveySameTenant(c, s) == ResolveSurveyTenant(s) = c.org
GetSurveyByID(org, s) == surveyRows[s].status # "absent" /\ surveyRows[s].org = org
adminSurvey(c, s) ==
  surveyRole(c, {"admin"}) /\ surveySameTenant(c, s) /\ GetSurveyByID(c.org, s)

setSurvey(s, row) == surveyRows' = [surveyRows EXCEPT ![s] = row]
sbegin(q, r) == sreq' = [sreq EXCEPT ![q] = r]
send(q) == sreq' = [sreq EXCEPT ![q] = NoSurveyRequest]

-----------------------------------------------------------------------------
(* Create and Update.  A patch that is empty is accepted and writes        *)
(* nothing; the statement leaves an archived row alone.                    *)
InsertSurvey(org, s, mode) ==
  /\ surveyRows[s] = NoSurvey
  /\ setSurvey(s, [NoSurvey EXCEPT !.org = org, !.status = "active", !.mode = mode])
validateSurveyInput(mode) == mode \in PrimaryModes
CreateSurvey(c, s, mode) ==
  /\ validateSurveyInput(mode)
  /\ InsertSurvey(c.org, s, mode)
  /\ UNCHANGED <<versionRows, sreq, alock, activations>>
createSurvey(c, s, mode) == surveyRole(c, {"admin"}) /\ CreateSurvey(c, s, mode)

UpdateSurvey(q, s) ==
  /\ surveyRows[s].status # "archived"
  /\ sbegin(q, [NoSurveyRequest EXCEPT !.pc = "update", !.survey = s])
  /\ UNCHANGED <<surveyRows, versionRows, alock, activations>>
UpdateSurveyRow(s, mode) ==
  IF surveyRows[s].archivedAt THEN UNCHANGED surveyRows
  ELSE setSurvey(s, [surveyRows[s] EXCEPT !.mode = mode, !.edits = @ + 1])
FinishUpdateSurvey(q, mode) ==
  /\ sreq[q].pc = "update" /\ surveyRows[sreq[q].survey].edits < MaxSurveyEdits
  /\ validateSurveyInput(mode)
  /\ UpdateSurveyRow(sreq[q].survey, mode)
  /\ send(q)
  /\ UNCHANGED <<versionRows, alock, activations>>
updateSurvey(c, q, s) == sreq[q].pc = "idle" /\ adminSurvey(c, s) /\ UpdateSurvey(q, s)

(* Archive: a survey already archived is left as it is.                    *)
ArchiveSurvey(q, s) ==
  /\ surveyRows[s].status # "archived"
  /\ sbegin(q, [NoSurveyRequest EXCEPT !.pc = "archive", !.survey = s])
  /\ UNCHANGED <<surveyRows, versionRows, alock, activations>>
ArchiveSurveyRow(s) ==
  setSurvey(s, [surveyRows[s] EXCEPT !.status = "archived", !.archivedAt = TRUE])
FinishArchiveSurvey(q) ==
  /\ sreq[q].pc = "archive"
  /\ ArchiveSurveyRow(sreq[q].survey)
  /\ send(q)
  /\ UNCHANGED <<versionRows, alock, activations>>
archiveSurvey(c, q, s) == sreq[q].pc = "idle" /\ adminSurvey(c, s) /\ ArchiveSurvey(q, s)

-----------------------------------------------------------------------------
(* SaveVersion: the schema is validated, the survey read, the number taken *)
(* from the largest one stored, and the row inserted under the unique      *)
(* index on (survey, major, minor); a request that loses the race for a    *)
(* number fails.  schema stands for what the validator said.               *)
versionsOf(s) == {v \in VersionIds : versionRows[v].survey = s}
largest(S, none) == IF S = {} THEN none ELSE CHOOSE n \in S : \A k \in S : k <= n
LatestMajor(s) == largest({versionRows[v].major : v \in versionsOf(s)}, 0)
LatestMinor(s, major) ==
  largest({versionRows[v].minor : v \in {w \in versionsOf(s) : versionRows[w].major = major}}, 0)

FaultCountsFromZero(s, minor) ==
  IF minor THEN <<LatestMajor(s), LatestMinor(s, LatestMajor(s)) + 1>> ELSE <<LatestMajor(s) + 1, 0>>

(* A minor bump of a survey that has no version yet makes version 1.0.     *)
computeNextVersion(s, minor) ==
  IF minor /\ LatestMajor(s) # 0
  THEN <<LatestMajor(s), LatestMinor(s, LatestMajor(s)) + 1>>
  ELSE <<LatestMajor(s) + 1, 0>>

FaultReusesNumbers(s, major, minor) == s \in SurveyIds
uniqueVersion(s, major, minor) ==
  \A v \in versionsOf(s) : <<versionRows[v].major, versionRows[v].minor>> # <<major, minor>>

SaveVersion(q, s, bump, schema) ==
  /\ schema = "valid" /\ surveyRows[s].status # "archived"
  /\ sbegin(q, [NoSurveyRequest EXCEPT !.pc = "number", !.survey = s, !.bump = bump])
  /\ UNCHANGED <<surveyRows, versionRows, alock, activations>>
NumberVersion(q) ==
  LET next == computeNextVersion(sreq[q].survey, sreq[q].bump = "minor") IN
  /\ sreq[q].pc = "number"
  /\ sbegin(q, [sreq[q] EXCEPT !.pc = "insert", !.major = next[1], !.minor = next[2]])
  /\ UNCHANGED <<surveyRows, versionRows, alock, activations>>
InsertVersion(v, s, major, minor) ==
  versionRows' = [versionRows EXCEPT ![v] = [survey |-> s, major |-> major, minor |-> minor, active |-> FALSE]]
FinishSaveVersion(q, v) ==
  /\ sreq[q].pc = "insert" /\ versionRows[v] = NoVersion
  /\ IF uniqueVersion(sreq[q].survey, sreq[q].major, sreq[q].minor)
     THEN InsertVersion(v, sreq[q].survey, sreq[q].major, sreq[q].minor)
     ELSE UNCHANGED versionRows
  /\ send(q)
  /\ UNCHANGED <<surveyRows, alock, activations>>
saveVersion(c, q, s, bump, schema) ==
  sreq[q].pc = "idle" /\ adminSurvey(c, s) /\ SaveVersion(q, s, bump, schema)

-----------------------------------------------------------------------------
(* Activate: the survey is read, then the transaction takes the survey's   *)
(* advisory lock, notes the version that is active, and clears it, sets    *)
(* the new one and the survey's pointer.  The lock ends with the           *)
(* transaction.  That the survey is not archived is checked before the     *)
(* lock only.                                                              *)
Activate(q, s, v) ==
  /\ surveyRows[s].status # "archived"
  /\ sbegin(q, [NoSurveyRequest EXCEPT !.pc = "lock", !.survey = s, !.version = v])
  /\ UNCHANGED <<surveyRows, versionRows, alock, activations>>

FaultNoLock(q, s) == alock' = [alock EXCEPT ![s] = "free"]
acquireAdvisoryLock(q, s) == alock[s] = "free" /\ alock' = [alock EXCEPT ![s] = q]
releaseLock(q, s) == alock' = [alock EXCEPT ![s] = IF @ = q THEN "free" ELSE @]

GetActive(s) == {v \in versionsOf(s) : versionRows[v].active}
captureCurrentActive(s) == IF GetActive(s) = {} THEN "none" ELSE CHOOSE v \in GetActive(s) : TRUE
targetOf(s, v) == versionRows[v].survey = s

LockActivation(q) ==
  LET s == sreq[q].survey
      prev == captureCurrentActive(s) IN
  /\ sreq[q].pc = "lock"
  /\ IF targetOf(s, sreq[q].version) /\ prev # sreq[q].version
     THEN /\ acquireAdvisoryLock(q, s)
          /\ sbegin(q, [sreq[q] EXCEPT !.pc = "activate", !.prev = prev])
     ELSE alock[s] = "free" /\ UNCHANGED alock /\ send(q)
  /\ UNCHANGED <<surveyRows, versionRows, activations>>

DeactivateAll(s) == [v \in VersionIds |->
  [versionRows[v] EXCEPT !.active = IF versionRows[v].survey = s THEN FALSE ELSE @]]
ActivateVersion(s, v) == versionRows' = [DeactivateAll(s) EXCEPT ![v].active = TRUE]
SetCurrentVersion(s, v) == setSurvey(s, [surveyRows[s] EXCEPT !.current = v])
(* The event {previous, new} goes to the audit logger, which is a no-op    *)
(* until the audit module registers one: kept here as history.             *)
noteActivation(s, prev, v) == activations' = [activations EXCEPT ![s] = Append(@, <<prev, v>>)]
applyActivate(q) ==
  LET s == sreq[q].survey
      v == sreq[q].version IN
  /\ sreq[q].pc = "activate" /\ Len(activations[s]) < MaxActivations
  /\ ActivateVersion(s, v)
  /\ SetCurrentVersion(s, v)
  /\ noteActivation(s, sreq[q].prev, v)
  /\ releaseLock(q, s)
  /\ send(q)
activateVersion(c, q, s, v) == sreq[q].pc = "idle" /\ adminSurvey(c, s) /\ Activate(q, s, v)

(* A connection lost before the commit rolls the transaction back.         *)
RollBack(q) ==
  /\ sreq[q].pc # "idle"
  /\ releaseLock(q, sreq[q].survey)
  /\ send(q)
  /\ UNCHANGED <<surveyRows, versionRows, activations>>

-----------------------------------------------------------------------------
(* The reading routes, as functions of the state.  A listing is any page   *)
(* of at most the size asked for: the offset decides which.                *)
readers == {"operator", "supervisor", "admin"}
mayRead(c, s) == surveyRole(c, readers) /\ surveySameTenant(c, s)

GetSurvey(org, s) == IF GetSurveyByID(org, s) THEN {surveyRows[s]} ELSE {}
getSurvey(c, s) == IF mayRead(c, s) THEN GetSurvey(c.org, s) ELSE {}

buildSurveyListPredicate(s, status) ==
  ~surveyRows[s].archivedAt /\ (status = "" \/ surveyRows[s].status = status)
ListSurveyRows(org, status, limit) ==
  {page \in SUBSET {s \in SurveyIds : GetSurveyByID(org, s) /\ buildSurveyListPredicate(s, status)} :
     Cardinality(page) <= limit}
ListSurveys(org, status, limit) ==
  ListSurveyRows(org, status, IF limit \in 1..SurveyPage THEN limit ELSE SurveyPage)
listSurveys(c, status, limit) ==
  IF surveyRole(c, readers) THEN ListSurveys(c.org, status, limit) ELSE {}

GetActiveVersion(org, s) == IF GetSurveyByID(org, s) THEN GetActive(s) ELSE {}
getActiveVersion(c, s) == IF mayRead(c, s) THEN GetActiveVersion(c.org, s) ELSE {}

newer(v, w) ==
  \/ versionRows[v].major > versionRows[w].major
  \/ versionRows[v].major = versionRows[w].major /\ versionRows[v].minor >= versionRows[w].minor
ListVersionRows(s) ==
  {l \in [1..Cardinality(versionsOf(s)) -> versionsOf(s)] :
     \A i, j \in DOMAIN l : i < j => l[i] # l[j] /\ newer(l[i], l[j])}
ListVersions(org, s) == IF GetSurveyByID(org, s) THEN ListVersionRows(s) ELSE {}
listVersions(c, s) == IF mayRead(c, s) THEN ListVersions(c.org, s) ELSE {}

-----------------------------------------------------------------------------
SurveyNext ==
  \/ \E c \in SurveyCallers, s \in SurveyIds :
       \/ \E mode \in PrimaryModes \cup {"bad"} : createSurvey(c, s, mode)
       \/ \E q \in SurveyRequests :
            \/ updateSurvey(c, q, s)
            \/ archiveSurvey(c, q, s)
            \/ \E bump \in {"major", "minor"}, schema \in {"valid", "invalid"} :
                 saveVersion(c, q, s, bump, schema)
            \/ \E v \in VersionIds : activateVersion(c, q, s, v)
  \/ \E q \in SurveyRequests :
       \/ \E mode \in PrimaryModes \cup {"bad"} : FinishUpdateSurvey(q, mode)
       \/ FinishArchiveSurvey(q)
       \/ NumberVersion(q)
       \/ \E v \in VersionIds : FinishSaveVersion(q, v)
       \/ LockActivation(q)
       \/ applyActivate(q)
       \/ RollBack(q)

-----------------------------------------------------------------------------
SurveyTypeOK ==
  /\ \A s \in SurveyIds :
       /\ surveyRows[s].status \in SurveyStatuses \cup {"absent"}
       /\ surveyRows[s].current \in VersionIds \cup {"none"}
       /\ surveyRows[s].edits \in 0..MaxSurveyEdits
       /\ alock[s] \in SurveyRequests \cup {"free"}
       /\ Len(activations[s]) <= MaxActivations
  /\ \A v \in VersionIds : versionRows[v].survey \in SurveyIds \cup {"none"}
  /\ \A q \in SurveyRequests : sreq[q].survey \in SurveyIds \cup {"none"}

(* The versions of a survey are numbered without gaps and without a number *)
(* given twice, however the requests that save them overlap: every version *)
(* but 1.0 follows one that is stored (computeNextVersion and the unique   *)
(* index).                                                                 *)
VersionsAreNumbered ==
  \A s \in SurveyIds : \A v \in versionsOf(s) :
    /\ \A w \in versionsOf(s) \ {v} :
         <<versionRows[v].major, versionRows[v].minor>> # <<versionRows[w].major, versionRows[w].minor>>
    /\ versionRows[v].major >= 1
    /\ versionRows[v].minor > 0 =>
         \E w \in versionsOf(s) : versionRows[w].major = versionRows[v].major
                               /\ versionRows[w].minor = versionRows[v].minor - 1
    /\ versionRows[v].major > 1 =>
         \E w \in versionsOf(s) : versionRows[w].major = versionRows[v].major - 1

(* One version of a survey is active at most, and every activation         *)
(* replaced the version it had found active and is going to report as the  *)
(* previous one: the activations of a survey form a chain that starts at   *)
(* none and ends at the version it points at, however they overlap         *)
(* (acquireAdvisoryLock, captureCurrentActive, DeactivateAll).             *)
ActivationsFormAChain ==
  \A s \in SurveyIds :
    LET chain == activations[s] IN
    /\ Cardinality(GetActive(s)) <= 1
    /\ captureCurrentActive(s) = surveyRows[s].current
    /\ \A i \in DOMAIN chain : chain[i][1] = IF i = 1 THEN "none" ELSE chain[i - 1][2]
    /\ surveyRows[s].current = IF chain = <<>> THEN "none" ELSE chain[Len(chain)][2]

settled(s) == surveyRows[s].status = "archived" /\ \A q \in SurveyRequests : sreq[q].survey # s

(* Archiving a survey does not stop the requests that read it before: a    *)
(* version can still be saved or activated, its archived check being       *)
(* before the lock.  When those have ended nothing changes the survey or   *)
(* its versions any more and no request gets under way (Update, Archive,   *)
(* SaveVersion, Activate).                                                 *)
ArchivedSurveySettles ==
  [][\A s \in SurveyIds : settled(s) =>
       /\ settled(s)' /\ surveyRows'[s] = surveyRows[s]
       /\ \A v \in VersionIds : s \in {versionRows[v].survey, versionRows'[v].survey} =>
            versionRows'[v] = versionRows[v]]_surveyVars

(* The reading routes of a survey agree with each other: the version a     *)
(* reader is given as the active one is the one the survey names, the      *)
(* versions have one order and it holds that version, and the surveys that *)
(* are listed are the ones that open as active (GetActiveVersion, List,    *)
(* ListVersions, which read status, archived_at and is_active apart).      *)
SurveyAnswersAgree ==
  \A c \in SurveyCallers :
    /\ \A s \in SurveyIds : \A row \in getSurvey(c, s) :
         LET orders == listVersions(c, s) IN
         /\ getActiveVersion(c, s) = {row.current} \ {"none"}
         /\ Cardinality(orders) = 1
         /\ \A l \in orders : getActiveVersion(c, s) \subseteq {l[i] : i \in DOMAIN l}
    /\ UNION listSurveys(c, "", 0) = {s \in SurveyIds : \E row \in getSurvey(c, s) : row.status = "active"}
==============================================================================
