------------------------------ MODULE Projects ------------------------------
(***************************************************************************)
(* Survey projects and the operators assigned to them (internal/crm).      *)
(* Every service method is one READ COMMITTED transaction: it reads the    *)
(* row, decides, and then writes; the write and the commit are one step,   *)
(* because the row lock is held between them.  A request that is refused   *)
(* changes nothing and is a guard here.                                    *)
(***************************************************************************)
EXTENDS Naturals, FiniteSets

CONSTANTS
  CrmCallers,       \* callers of the routes: roles and organisation
  ProjectIds,
  Codes,
  Operators,
  ProjectRequests,  \* requests between their read and their write
  ListDefault,      \* page size when none is asked for
  ListMax,          \* largest page
  MaxEdits          \* bound on updates of one project

ASSUME ProjectsAssumption ==
  MaxEdits \in Nat /\ ListDefault \in Nat \ {0} /\ ListMax \in Nat /\ ListDefault <= ListMax

VARIABLES
  projects,  \* the projects table
  members,   \* the project_assignments table
  preq,      \* the requests
  joins      \* history: member_assigned events handed to the audit logger

projectVars == <<projects, members, preq, joins>>

Orgs == {"own", "other"}
Statuses == {"active", "paused", "archived"}
NoProject == [org |-> "none", code |-> "none", status |-> "absent", archivedAt |-> FALSE, edits |-> 0]
NoRequest == [pc |-> "idle", id |-> "none", target |-> "none", ops |-> {}, existing |-> {}]

ProjectInit ==
  /\ projects = [i \in ProjectIds |-> NoProject]
  /\ members = [i \in ProjectIds |-> {}]
  /\ preq = [q \in ProjectRequests |-> NoRequest]
  /\ joins = [i \in ProjectIds |-> [o \in Operators |-> 0]]

-----------------------------------------------------------------------------
(* The route chain: role, then the owner of the row, read without row      *)
(* security; the service then reads under the caller's organisation.       *)
requireAnyRole(c, roles) == c.roles \cap roles # {}
requireAdminRole(c) == requireAnyRole(c, {"admin"})
lookupProject(i) == projects[i]
ResolveTenant(i) == lookupProject(i).org
projectSameTenant(c, i) == ResolveTenant(i) = c.org
GetByID(c, i) == projects[i] # NoProject /\ projects[i].org = c.org
adminProject(c, i) == requireAdminRole(c) /\ projectSameTenant(c, i) /\ GetByID(c, i)
anyProject(c, i, roles) == requireAnyRole(c, roles) /\ projectSameTenant(c, i) /\ GetByID(c, i)

setProject(i, row) == projects' = [projects EXCEPT ![i] = row]
pbegin(q, pc, i, target, ops, existing) ==
  preq' = [preq EXCEPT ![q] = [pc |-> pc, id |-> i, target |-> target, ops |-> ops, existing |-> existing]]
pend(q) == preq' = [preq EXCEPT ![q] = NoRequest]

-----------------------------------------------------------------------------
(* Create: the code is unique in its organisation.                         *)
validateCreateInput(code) == code \in Codes
uniqueCode(c, code) == \A i \in ProjectIds : projects[i].org = c.org => projects[i].code # code
InsertProject(c, i, code) ==
  /\ projects[i] = NoProject /\ uniqueCode(c, code)
  /\ setProject(i, [NoProject EXCEPT !.org = c.org, !.code = code, !.status = "active"])
CreateProject(c, i, code) ==
  /\ validateCreateInput(code)
  /\ InsertProject(c, i, code)
  /\ UNCHANGED <<members, preq, joins>>
createProject(c, i, code) == requireAdminRole(c) /\ CreateProject(c, i, code)

-----------------------------------------------------------------------------
(* Update: refused once archived, both when read and when written.         *)
FaultUpdatesArchived(q) ==
  LET i == preq[q].id IN setProject(i, [projects[i] EXCEPT !.edits = @ + 1])

StoreUpdate(q) ==
  LET i == preq[q].id IN
    IF projects[i].archivedAt THEN UNCHANGED projects
    ELSE setProject(i, [projects[i] EXCEPT !.edits = @ + 1])

Update(q, i) ==
  /\ ~projects[i].archivedAt
  /\ pbegin(q, "update", i, "none", {}, {})
  /\ UNCHANGED <<projects, members, joins>>
FinishUpdate(q) ==
  /\ preq[q].pc = "update" /\ projects[preq[q].id].edits < MaxEdits
  /\ StoreUpdate(q)
  /\ pend(q)
  /\ UNCHANGED <<members, joins>>
updateProject(c, q, i) == preq[q] = NoRequest /\ adminProject(c, i) /\ Update(q, i)

-----------------------------------------------------------------------------
(* Pause, Resume and Archive: the state machine is guarded when the row is *)
(* read; the statement that writes names the row only.                     *)
transitionStatus(q, i, target) ==
  /\ projects[i].status # target /\ projects[i].status # "archived"
  /\ pbegin(q, "transition", i, target, {}, {})
  /\ UNCHANGED <<projects, members, joins>>
UpdateStatus(i, target) ==
  setProject(i, [projects[i] EXCEPT !.status = target, !.archivedAt = @ \/ target = "archived"])
FinishTransition(q) ==
  /\ preq[q].pc = "transition"
  /\ UpdateStatus(preq[q].id, preq[q].target)
  /\ pend(q)
  /\ UNCHANGED <<members, joins>>

transitionProject(c, q, i, target) ==
  preq[q] = NoRequest /\ adminProject(c, i) /\ transitionStatus(q, i, target)
pauseProject(c, q, i) == transitionProject(c, q, i, "paused")
resumeProject(c, q, i) == transitionProject(c, q, i, "active")
archiveProject(c, q, i) == transitionProject(c, q, i, "archived")

-----------------------------------------------------------------------------
(* Assign: the members are listed first and the audit logger gets an event *)
(* for each operator that was not listed; the insert skips members.        *)
validateAssignInput(ops) == ops # {}
Assign(q, i, ops) ==
  /\ validateAssignInput(ops)
  /\ ~projects[i].archivedAt
  /\ pbegin(q, "assign", i, "none", ops, members[i])
  /\ UNCHANGED <<projects, members, joins>>
AssignOperators(i, ops) == members' = [members EXCEPT ![i] = @ \cup ops]
auditJoins(i, new) ==
  joins' = [joins EXCEPT ![i] = [o \in Operators |-> IF o \in new THEN @[o] + 1 ELSE @[o]]]
applyAssign(q) ==
  /\ preq[q].pc = "assign"
  /\ \A o \in Operators : joins[preq[q].id][o] < 2
  /\ AssignOperators(preq[q].id, preq[q].ops)
  /\ auditJoins(preq[q].id, preq[q].ops \ preq[q].existing)
  /\ pend(q)
  /\ UNCHANGED <<projects>>
assignOperators(c, q, i, ops) == preq[q] = NoRequest /\ adminProject(c, i) /\ Assign(q, i, ops)

UnassignOperator(i, o) == o \in members[i] /\ members' = [members EXCEPT ![i] = @ \ {o}]
Unassign(i, o) == UnassignOperator(i, o) /\ UNCHANGED <<projects, preq, joins>>
unassignOperator(c, i, o) == adminProject(c, i) /\ Unassign(i, o)

-----------------------------------------------------------------------------
(* The reading routes: what the caller is answered.                        *)
Readers == {"operator", "supervisor", "admin"}
getProject(c, i) == IF anyProject(c, i, Readers) THEN {i} ELSE {}
listProjectMembers(c, i) == IF anyProject(c, i, {"supervisor", "admin"}) THEN members[i] ELSE {}

buildListPredicate(c, f, i) ==
  /\ GetByID(c, i)
  /\ f.archived \/ ~projects[i].archivedAt
  /\ f.status # "any" => projects[i].status = f.status
clampList(limit) == IF limit = 0 THEN ListDefault ELSE IF limit > ListMax THEN ListMax ELSE limit
(* The pages a statement with a limit may return.                          *)
pages(found, limit) ==
  {page \in SUBSET found :
     Cardinality(page) = IF limit < Cardinality(found) THEN limit ELSE Cardinality(found)}
ListProjects(c, f) == pages({i \in ProjectIds : buildListPredicate(c, f, i)}, clampList(f.limit))
listProjects(c, f) == IF requireAnyRole(c, Readers) THEN ListProjects(c, f) ELSE {}

-----------------------------------------------------------------------------
ProjectNext ==
  \/ \E c \in CrmCallers, i \in ProjectIds :
       \/ \E code \in Codes : createProject(c, i, code)
       \/ \E o \in Operators : unassignOperator(c, i, o)
       \/ \E q \in ProjectRequests :
            \/ updateProject(c, q, i)
            \/ pauseProject(c, q, i)
            \/ resumeProject(c, q, i)
            \/ archiveProject(c, q, i)
            \/ \E ops \in SUBSET Operators : assignOperators(c, q, i, ops)
  \/ \E q \in ProjectRequests : FinishUpdate(q) \/ FinishTransition(q) \/ applyAssign(q)

-----------------------------------------------------------------------------
ProjectTypeOK ==
  /\ projects \in [ProjectIds -> [org : Orgs \cup {"none"}, code : Codes \cup {"none"},
                                  status : Statuses \cup {"absent"}, archivedAt : BOOLEAN, edits : 0..MaxEdits]]
  /\ members \in [ProjectIds -> SUBSET Operators]
  /\ joins \in [ProjectIds -> [Operators -> 0..2]]
  /\ \A q \in ProjectRequests : preq[q].pc \in {"idle", "update", "transition", "assign"}

(* A Pause or Resume that read the project before it was archived.         *)
reviving(i) ==
  \E q \in ProjectRequests : preq[q].pc = "transition" /\ preq[q].id = i /\ preq[q].target # "archived"
retired(i) == projects[i].status = "archived" /\ ~reviving(i)

(* Once a project is archived no update changes its fields, however the    *)
(* update and the archiving interleave (ProjectStore.Update repeats the    *)
(* check that ProjectService.Update made on the row it read).  The status  *)
(* has no such second check: a Pause or Resume that read the row earlier   *)
(* overwrites it.  When none is under way, archived is final: no request   *)
(* that comes later can take the status back (transitionStatus).           *)
ArchivedIsFrozen ==
  [][\A i \in ProjectIds :
       /\ projects[i].archivedAt => projects'[i].archivedAt /\ projects'[i].edits = projects[i].edits
       /\ retired(i) => retired(i)']_projectVars

(* Reading a project and listing projects go through different code and    *)
(* show the same ones: what a caller can open is what the pages of a full  *)
(* listing hold, and a listing without the archived ones leaves out every  *)
(* project that is or was archived, one whose status was overwritten since *)
(* included (List, Get, buildListPredicate).                               *)
ProjectAnswersAgree ==
  \A c \in CrmCallers :
    LET every == [archived |-> TRUE, status |-> "any", limit |-> 1]
        opened == {i \in ProjectIds : getProject(c, i) # {}} IN
    /\ UNION listProjects(c, every) = opened
    /\ UNION listProjects(c, [every EXCEPT !.archived = FALSE]) =
         {i \in opened : projects[i].status # "archived" /\ ~projects[i].archivedAt}
=============================================================================
