------------------------------ MODULE MCOffice ------------------------------
(***************************************************************************)
(* What a tenant's staff prepares before anyone is called, for TLC:        *)
(* projects, respondents and their imports (crm), surveys with their       *)
(* versions, schemas and caches (surveys), dialling hours and generated    *)
(* numbers (dialer).  Respondents and imports act on a project that        *)
(* exists; otherwise the parts share no state here, so a behaviour moves   *)
(* one of them and a property is evaluated where its part moves.           *)
(***************************************************************************)
EXTENDS Imports, Surveys, SurveyGraph, SurveyCaches, DialHours, RddGenerator, TLC

VARIABLE scenario

CrmScenarios == {"projects", "respondents", "imports"}

(* The parts share their model values: identifiers (respondents, all but   *)
(* one of the versions, interviews) and requests.                          *)
Symmetry == Permutations(RespIds) \cup Permutations(RespRequests)

(* An administrator, an operator, and the administrator of another tenant. *)
mcCallers == {[roles |-> {"admin"}, org |-> "own"],
              [roles |-> {"operator"}, org |-> "own"],
              [roles |-> {"admin"}, org |-> "other"]}

(* Two spellings of one number, another number, and no number at all; and  *)
(* files that hold them, in each format, with blank and unreadable cells.  *)
mcNormal ==
  [raw \in RawPhones |-> CASE raw \in {"8916", "+7916"} -> "p1"
                           [] raw = "+7495" -> "p2"
                           [] OTHER -> "invalid"]
mcFiles == {[format |-> "csv", header |-> "phone", rows |-> <<"8916", "blank", "+7495">>],
            [format |-> "xlsx", header |-> "phone", rows |-> <<"7.9e10", "junk", "+7916">>],
            [format |-> "none", header |-> "name", rows |-> <<"8916">>],
            [format |-> "csv", header |-> "phone", rows |-> <<"blank">>]}

-----------------------------------------------------------------------------
(* Schemas of a start, two questions and an end, with every set of edges   *)
(* from each question and at most one condition that reads an answer; and  *)
(* a few that are malformed in other ways.                                 *)
shape(id, k, qtype, opts, req, next) ==
  [id |-> id, kind |-> k, qtype |-> qtype, options |-> opts, required |-> req, next |-> next]
reads(q, p, form) ==
  {[node |-> "member", receiver |-> q, prop |-> p, form |-> form], [node |-> "operator"]}
free == reads("answer", "x", "dotted")
edges(n, T, guard) ==
  LET order == SelectSeq(<<"qa", "qb", "e">>, LAMBDA x : x \in T) IN
  [i \in DOMAIN order |->
     [to |-> order[i],
      when |-> IF guard # <<>> /\ guard[1] = n /\ guard[2] = order[i]
               THEN reads(guard[3], IF i = 1 THEN "answered" ELSE "value", guard[4])
               ELSE IF i < Len(order) THEN free ELSE {}]]
targets == SUBSET {"qa", "qb", "e"}
guards == {<<>>} \cup ({"s", "qa", "qb"} \X {"qa", "qb", "e"} \X {"qa", "qb", "qz"} \X {"dotted"})
                 \cup ({"s"} \X {"qa", "e"} \X {"qb", "qz"} \X {"other"})
draft(es, ea, eb, gd) ==
  <<shape("s", "start", "", {}, FALSE, edges("s", es, gd)),
    shape("qa", "question", "number", {}, TRUE, edges("qa", ea, gd)),
    shape("qb", "question", "multi", {"o1", "o2"}, FALSE, edges("qb", eb, gd)),
    shape("e", "success-end", "", {}, FALSE, <<>>)>>
plain == {draft(es, ea, eb, gd) :
            es \in {T \in targets : "qa" \in T}, ea \in targets, eb \in targets, gd \in guards}
end == shape("e", "success-end", "", {}, FALSE, <<>>)
to(id) == <<[to |-> id, when |-> {}]>>
start(next) == shape("s", "start", "", {}, FALSE, next)
odd == {<<>>, <<end>>, <<start(to("e")), end, end>>,
        <<start(to("t")), shape("t", "start", "", {}, FALSE, to("e")), end>>,
        <<start(to("e") \o to("gone")), end>>,
        <<start(<<[to |-> "gone", when |-> free], [to |-> "e", when |-> {}]>>), end>>,
        <<start(<<[to |-> "e", when |-> {[node |-> "call"]}]>>), end>>,
        <<start(<<[to |-> "e", when |-> {[node |-> "ident", name |-> "qa"]}]>>), end>>,
        <<start(to("qa")), shape("qa", "question", "single", {}, FALSE, to("e")), end>>,
        <<start(to("qa")), shape("qa", "question", "select", {"o1"}, TRUE, to("qb")),
          shape("qb", "question", "text", {}, TRUE, to("e")), end>>}
mcDocs == plain \cup odd
nothing == [single |-> "", multi |-> <<>>, number |-> "nil", text |-> ""]
mcPayloads == {nothing,
               [nothing EXCEPT !.number = "in range", !.single = "o1", !.text = "t"],
               [nothing EXCEPT !.number = "above", !.multi = <<"o1", "o2">>],
               [nothing EXCEPT !.multi = <<"o1", "o1">>, !.single = "o9"]}

-----------------------------------------------------------------------------
(* Two zones, a platform default, and overrides of every shape: absent,    *)
(* whole, inverted and unreadable windows; dates closed, moved, merely     *)
(* named, and half specified; a closed date shadowing a later entry.       *)
mcZones == [msk |-> 1, kam |-> 3]
mcPlatform == [weekday |-> [start |-> 1, end |-> 3], weekend |-> [start |-> 2, end |-> 3]]
window(s, e) == [start |-> {s}, end |-> {e}]
unbounded == [start |-> {}, end |-> {}]
mcExceptions ==
  {<<>>} \cup
  {<<[date |-> {d}, open |-> o, start |-> w.start, end |-> w.end]>> :
     d \in {1, 3, 7}, o \in {{}, {FALSE}},
     w \in {window(0, 2), window(3, 4), unbounded, [start |-> {1}, end |-> {}]}}
closedDate == <<[date |-> {3}, open |-> {FALSE}, start |-> {}, end |-> {}]>>
mcOverrides ==
  {[weekday |-> wd, weekend |-> we, exceptions |-> first \o ex] :
     wd \in {{}, {window(0, 4)}, {window(3, 1)}, {window(5, 6)}},
     we \in {{}, {window(0, 1)}},
     first \in {<<>>, closedDate}, ex \in mcExceptions}

(* Two calls of Generate in two processes for one project; the first names *)
(* a region of weight zero and one that is not known.                      *)
mcGenProcess == [a |-> 1, b |-> 2]
mcGenProject == [a |-> "p", b |-> "p"]
mcGenWanted == [a |-> 2, b |-> 1]
mcQuotas == [a |-> [msk |-> 2, kam |-> 0, xx |-> 1], b |-> [msk |-> 1]]
mcRegionPhones == [msk |-> {"n1", "n2", "dnc"}, kam |-> {"k1"}]

-----------------------------------------------------------------------------
crmVars == <<projectVars, respondentVars, importVars>>

officeVars == <<scenario, crmVars, surveyVars, graphVars, cacheVars, hoursVars, rddVars>>

(* An active project of the own tenant.                                    *)
anActiveProject ==
  [i \in ProjectIds |-> [NoProject EXCEPT !.org = "own", !.status = "active",
                                          !.code = CHOOSE c \in Codes : TRUE]]

(* A respondent of it whose grace period is over, waiting for the purge.   *)
leftOver ==
  /\ \E r \in RespIds : respondents = [s \in RespIds |->
       IF s # r THEN NoRespondent
       ELSE [newRespondent("own", "a", "p1") EXCEPT !.status = "deletion_requested", !.deletedAt = 1]]
  /\ dnc = {} /\ rreq = [q \in RespRequests |-> NoRespRequest] /\ swept = {} /\ day = MaxDay
  /\ tasks = [j \in Jobs \cup Purges |-> NoTask] /\ handler = [j \in Jobs |-> NoHandler]
  /\ progress = [j \in Jobs |-> NoProgress] /\ known = {<<"a", "p1">>} /\ ifaults = 0

OfficeInit ==
  /\ scenario \in CrmScenarios \cup {"surveys", "graph", "caches", "hours", "rdd"}
  /\ IF scenario \in {"respondents", "imports"}
     THEN /\ projects = anActiveProject
          /\ members = [i \in ProjectIds |-> {}]
          /\ preq = [q \in ProjectRequests |-> NoRequest]
          /\ joins = [i \in ProjectIds |-> [o \in Operators |-> 0]]
     ELSE ProjectInit
  /\ \/ RespondentInit /\ ImportInit
     \/ scenario = "imports" /\ leftOver
  /\ SurveyInit /\ CachesInit /\ HoursInit /\ RddInit
  /\ GraphInit /\ (scenario = "graph" \/ doc = <<>>)

OfficeNext ==
  /\ UNCHANGED scenario
  /\ \/ /\ \/ scenario = "projects" /\ ProjectNext /\ UNCHANGED <<respondentVars, importVars>>
           \/ scenario = "respondents" /\ RespondentNext /\ UNCHANGED importVars
           \/ scenario = "imports" /\ ImportNext
        /\ UNCHANGED <<surveyVars, graphVars, cacheVars, hoursVars, rddVars>>
     \/ /\ \/ scenario = "surveys" /\ SurveyNext /\ UNCHANGED <<graphVars, cacheVars>>
           \/ scenario = "graph" /\ GraphNext /\ UNCHANGED <<surveyVars, cacheVars>>
           \/ scenario = "caches" /\ CachesNext /\ UNCHANGED <<surveyVars, graphVars>>
        /\ UNCHANGED <<crmVars, hoursVars, rddVars>>
     \/ /\ \/ scenario = "hours" /\ HoursNext /\ (override' # override => override = {})
              /\ UNCHANGED rddVars
           \/ scenario = "rdd" /\ RddNext /\ UNCHANGED hoursVars
        /\ UNCHANGED <<crmVars, surveyVars, graphVars, cacheVars>>

OfficeSpec == OfficeInit /\ [][OfficeNext]_officeVars

-----------------------------------------------------------------------------
(* However requests, imports and purges overlap and fail: one number is    *)
(* one respondent of a project, and the counters an import reports add up  *)
(* to the rows of its file.                                                *)
RespondentsAreConsistent ==
  scenario \in CrmScenarios =>
    /\ ProjectTypeOK /\ RespondentTypeOK /\ ImportTypeOK
    /\ OnePhoneOneRow /\ ImportIsAccounted

(* No update edits an archived project nor takes the mark back, and an     *)
(* archived project or survey changes no more once the requests that had   *)
(* read it before have ended; a deleted respondent keeps its days of grace *)
(* before the purge takes it.                                              *)
RetiredStaysRetired == ArchivedIsFrozen /\ ArchivedSurveySettles /\ GraceIsKept

(* Routes that answer about the same rows from different columns and       *)
(* statements agree, whatever ran before, and a respondent belongs to the  *)
(* organisation of its project.                                            *)
AnswersAgree ==
  /\ scenario \in CrmScenarios => ProjectAnswersAgree /\ RespondentAnswersAgree /\ OwnersAgree
  /\ scenario = "surveys" => SurveyAnswersAgree

(* The versions of a survey are numbered without gaps and its activations  *)
(* form one chain, however saves and activations overlap.                  *)
VersionsHold ==
  scenario = "surveys" => SurveyTypeOK /\ VersionsAreNumbered /\ ActivationsFormAChain

(* A schema the validator accepts can be walked by every interview without *)
(* a dotted read of a question that was not asked, the dominators it       *)
(* decides that by are exact, and a condition the whitelist refuses is     *)
(* never in the cache of compiled programs.                                *)
InterviewsAreSound ==
  /\ scenario = "graph" => GraphTypeOK /\ AcceptedIsWalkable /\ DominatorsAreExact
  /\ scenario = "caches" => CachesTypeOK /\ OnlyCheckedIsCached

(* NextAllowed and IsAllowed, which follow the precedence of holiday,      *)
(* exception and day kind each in its own code, agree at every hour; what  *)
(* Generate reports is what the queue holds; and the tenant's bucket       *)
(* bounds what all its calls draw together.                                *)
DiallingIsPlanned ==
  /\ scenario = "hours" => HoursTypeOK /\ NextAllowedIsNext
  /\ scenario = "rdd" => RddTypeOK /\ GeneratedIsQueued /\ BucketHolds
=============================================================================
