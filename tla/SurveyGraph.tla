----------------------------- MODULE SurveyGraph -----------------------------
(***************************************************************************)
(* A survey schema is checked before it is stored (internal/surveys/       *)
(* schemavalidator, dsl) and walked during the interview (internal/        *)
(* surveys/runtime).  This module puts the two together: a behaviour       *)
(* drafts one schema, validates it and, if it is accepted, interviews.     *)
(* A schema is a sequence of nodes, a condition the set of the nodes of    *)
(* its syntax tree, of a member with the form it is written in: "dotted"   *)
(* as in q1.value, or "other" as in q1["value"], q1 .value or q1?.value.   *)
(* What a comparison of values yields is not known.                        *)
(***************************************************************************)
EXTENDS Naturals, FiniteSets, Sequences, SequencesExt

CONSTANTS
  Docs,      \* the schemas drafted
  QNames,    \* names that match ^q[a-zA-Z0-9_-]+$
  Payloads   \* answers the client may send

VARIABLES
  doc,      \* the schema
  stage,    \* draft, rejected, interview, ended, stuck or failed
  cur,      \* the node the client stands at
  asked,    \* the nodes it has stood at
  answers   \* the answers it has recorded

graphVars == <<doc, stage, cur, asked, answers>>

Ends == {"success-end", "refusal-end"}
Kinds == {"start", "intro", "question", "text-block", "condition", "jump"} \cup Ends
Choice == {"single", "select", "multi"}

GraphInit ==
  /\ doc \in Docs
  /\ stage = "draft" /\ cur = "" /\ asked = {}
  /\ answers = [id \in {} |-> "none"]

-----------------------------------------------------------------------------
(* parseGraph: nodes by identifier, the first of each; the rest are        *)
(* duplicates.                                                             *)
ids(d) == {d[i].id : i \in DOMAIN d}
duplicates(d) == {i \in DOMAIN d : \E j \in 1..(i - 1) : d[j].id = d[i].id}
parseGraph(d) == [id \in ids(d) |-> d[CHOOSE i \in DOMAIN d : d[i].id = id /\ i \notin duplicates(d)]]
edgesOf(g, id) == {g[id].next[i] : i \in DOMAIN g[id].next}
successors(g, id) == {e.to : e \in edgesOf(g, id)} \cap DOMAIN g

(* The JSON schema: known kinds, a type for questions, options for choices.*)
JSONSchemaValidate(d) ==
  d # <<>> /\ \A i \in DOMAIN d :
    /\ d[i].kind \in Kinds
    /\ d[i].kind = "question" =>
         /\ d[i].qtype \in Choice \cup {"number", "text"}
         /\ d[i].qtype \in Choice => d[i].options # {}

starts(g) == {id \in DOMAIN g : g[id].kind = "start"}
checkStart(d) == duplicates(d) = {} /\ Cardinality(starts(parseGraph(d))) = 1
startID(g) == IF Cardinality(starts(g)) = 1 THEN CHOOSE s \in starts(g) : TRUE ELSE ""

FaultKnowsAnyTarget(g) == DOMAIN g # {}
checkDanglingEdges(g) == \A id \in DOMAIN g : \A e \in edgesOf(g, id) : e.to \in DOMAIN g

(* bfs: what can be reached from the nodes seen so far.                    *)
RECURSIVE bfsFrom(_, _)
bfsFrom(g, seen) ==
  LET more == seen \cup UNION {successors(g, id) : id \in seen}
  IN IF more = seen THEN seen ELSE bfsFrom(g, more)
bfs(g, id) == bfsFrom(g, {id})

hasEnd(g, S) == \E id \in S : g[id].kind \in Ends
checkReachability(g) == bfs(g, startID(g)) = DOMAIN g
checkEndsReachable(g) == hasEnd(g, bfs(g, startID(g)))

FaultSelfLoopsOnly(g, id) ==
  /\ g[id].next # <<>> /\ g[id].kind \notin Ends
  /\ ~hasEnd(g, bfs(g, id)) /\ successors(g, id) = {id}

(* A cycle through another node; a node whose only way on is itself is not *)
(* reported, and neither is one with no way on.                            *)
inUnescapableCycle(g, id) ==
  /\ g[id].next # <<>> /\ g[id].kind \notin Ends
  /\ ~hasEnd(g, bfs(g, id))
  /\ \E d \in bfs(g, id) \ {id} : id \in successors(g, d)
checkCyclesHaveExit(g) == \A id \in DOMAIN g : ~inUnescapableCycle(g, id)

-----------------------------------------------------------------------------
(* Conditions: the whitelist over the syntax tree.  Only a question's      *)
(* value and answered, and members of "answer", may be read.               *)
checkIdentifier(n) == n.name = "answer"
checkMember(n) ==
  \/ n.receiver = "answer"
  \/ n.receiver \in QNames /\ n.prop \in {"value", "answered"}
Visit(n) ==
  \/ n.node = "ident" /\ checkIdentifier(n)
  \/ n.node = "member" /\ checkMember(n)
  \/ n.node = "operator"
ParseAndCheck(when) == when # {} /\ \A n \in when : Visit(n)

conditional(e) == e.when # {}
checkWhenExpressions(g) ==
  \A id \in DOMAIN g : \A e \in edgesOf(g, id) : conditional(e) => ParseAndCheck(e.when)
memberReads(when) == {n \in when : n.node = "member" /\ n.receiver \in QNames
                                   /\ n.prop \in {"value", "answered"}}

(* The references are taken from the text: the pattern knows one form.     *)
nodeRefRE(n) == n.form = "dotted"
extractNodeRefs(when) == {n.receiver : n \in {m \in memberReads(when) : nodeRefRE(m)}}

-----------------------------------------------------------------------------
(* Dominators, by passes over the nodes in order until nothing changes.    *)
initDominators(g) == [id \in DOMAIN g |-> IF id = startID(g) THEN {id} ELSE DOMAIN g]
buildPredecessors(g, id) == {p \in DOMAIN g : id \in successors(g, p)}

FaultAnyPath(dom, preds, id) == {id} \cup UNION {dom[p] : p \in preds}

updateDominator(dom, preds, id) ==
  {id} \cup {d \in DOMAIN dom : preds # {} /\ \A p \in preds : d \in dom[p]}

dominatorPass(g, dom) ==
  FoldLeft(LAMBDA acc, id : IF id = startID(g) THEN acc
                            ELSE [acc EXCEPT ![id] = updateDominator(acc, buildPredecessors(g, id), id)],
           dom, SetToSeq(DOMAIN g))
RECURSIVE dominatorFixpoint(_, _)
dominatorFixpoint(g, dom) ==
  LET next == dominatorPass(g, dom) IN IF next = dom THEN dom ELSE dominatorFixpoint(g, next)
computeDominators(g) == dominatorFixpoint(g, initDominators(g))

FaultTrustsReferences(g, dom, id, ref) == ref \in DOMAIN g
validateRef(g, dom, id, ref) == ref = id \/ (ref \in DOMAIN g /\ ref \in dom[id])

checkForwardReferences(g) ==
  LET dom == computeDominators(g) IN
    \A id \in DOMAIN g : \A e \in edgesOf(g, id) :
      \A ref \in extractNodeRefs(e.when) : validateRef(g, dom, id, ref)

(* Validate: the JSON schema first; the checks of the graph that start at  *)
(* the start node say nothing when there is not exactly one.               *)
GraphValidate(d) ==
  LET g == parseGraph(d) IN
  /\ checkStart(d)
  /\ checkDanglingEdges(g)
  /\ startID(g) # "" =>
       /\ checkReachability(g) /\ checkEndsReachable(g) /\ checkCyclesHaveExit(g)
       /\ checkForwardReferences(g)
  /\ checkWhenExpressions(g)
Validate(d) == JSONSchemaValidate(d) /\ GraphValidate(d)

validateSchema ==
  /\ stage = "draft"
  /\ IF Validate(doc)
     THEN stage' = "interview" /\ cur' = startID(parseGraph(doc)) /\ asked' = {cur'}
     ELSE stage' = "rejected" /\ UNCHANGED <<cur, asked>>
  /\ UNCHANGED <<doc, answers>>

-----------------------------------------------------------------------------
(* The runtime.                                                            *)
findNode(d, id) == {i \in DOMAIN d : d[i].id = id /\ i \notin duplicates(d)}
nodeAt(d, id) == d[CHOOSE i \in findNode(d, id) : TRUE]
terminalKind(kind) == kind \in Ends
countQuestions(d) == Cardinality({i \in DOMAIN d : d[i].kind = "question"})
countAnswered(d, given) ==
  Cardinality({i \in DOMAIN d : d[i].kind = "question" /\ d[i].id \in DOMAIN given})
progressOf(d, id, given) ==
  CASE findNode(d, id) = {} -> <<0, 1>>
    [] terminalKind(nodeAt(d, id).kind) -> <<1, 1>>
    [] countQuestions(d) = 0 -> <<0, 1>>
    [] OTHER -> <<countAnswered(d, given), countQuestions(d)>>
CalculateProgress(d, id) ==
  LET before == {i \in DOMAIN d : d[i].kind = "question" /\ \A j \in findNode(d, id) : i < j}
  IN IF terminalKind(nodeAt(d, id).kind) THEN <<1, 1>>
     ELSE IF countQuestions(d) = 0 THEN <<0, 1>> ELSE <<Cardinality(before), countQuestions(d)>>

(* ValidateAnswer looks at the field of the question's type only.          *)
optionExists(n, id) == id \in n.options
validateSingleAnswer(n, a) ==
  IF a.single = "" THEN ~n.required ELSE optionExists(n, a.single)
validateMultiAnswer(n, a) ==
  IF a.multi = <<>> THEN ~n.required
  ELSE \A i \in DOMAIN a.multi : optionExists(n, a.multi[i]) /\ \A j \in DOMAIN a.multi \ {i} : a.multi[i] # a.multi[j]
validateNumberAnswer(n, a) == IF a.number = "nil" THEN ~n.required ELSE a.number = "in range"
validateTextAnswer(n, a) == n.required => a.text # ""
validateQuestionAnswer(n, a) ==
  CASE n.qtype \in {"single", "select"} -> validateSingleAnswer(n, a)
    [] n.qtype = "multi" -> validateMultiAnswer(n, a)
    [] n.qtype = "number" -> validateNumberAnswer(n, a)
    [] n.qtype = "text" -> validateTextAnswer(n, a)
    [] OTHER -> FALSE
ValidateAnswer(d, id, a) ==
  findNode(d, id) # {} /\ (nodeAt(d, id).kind = "question" => validateQuestionAnswer(nodeAt(d, id), a))

Answer(a) ==
  /\ stage = "interview" /\ nodeAt(doc, cur).kind = "question" /\ cur \notin DOMAIN answers
  /\ ValidateAnswer(doc, cur, a)
  /\ answers' = [id \in DOMAIN answers \cup {cur} |-> IF id = cur THEN a ELSE answers[id]]
  /\ UNCHANGED <<doc, stage, cur, asked>>

(* The environment has an entry for every node; "answered" is a boolean    *)
(* whatever the answer, a comparison of values may hold, fail or not type, *)
(* and so may one that reads of a node that is not there.                  *)
BuildEnv(given, known) == [id \in known |-> id \in DOMAIN given]
Eval(when, env) ==
  IF \A n \in memberReads(when) : n.prop = "answered" /\ n.receiver \in DOMAIN env
  THEN IF memberReads(when) = {} THEN {"true", "false"}
       ELSE {IF \A n \in memberReads(when) : env[n.receiver] THEN "true" ELSE "false"}
  ELSE {"true", "false", "error"}
edgeMatches(e, env) == IF conditional(e) THEN Eval(e.when, env) ELSE {"true"}

(* The first edge that matches is taken.                                   *)
skipped(next, i, env) == \A j \in 1..(i - 1) : "false" \in edgeMatches(next[j], env)
moveTo(id) ==
  IF findNode(doc, id) = {} THEN stage' = "failed" /\ UNCHANGED <<cur, asked>>
  ELSE /\ cur' = id /\ asked' = asked \cup {id}
       /\ stage' = IF terminalKind(nodeAt(doc, id).kind) THEN "ended" ELSE "interview"
NextNodeCtx ==
  LET next == nodeAt(doc, cur).next
      env == BuildEnv(answers, ids(doc)) IN
  /\ stage = "interview"
  /\ \/ \E i \in DOMAIN next :
          /\ skipped(next, i, env)
          /\ \/ "true" \in edgeMatches(next[i], env) /\ moveTo(next[i].to)
             \/ "error" \in edgeMatches(next[i], env) /\ UNCHANGED <<stage, cur, asked>>
     \/ /\ \A i \in DOMAIN next : "false" \in edgeMatches(next[i], env)
        /\ stage' = "stuck" /\ UNCHANGED <<cur, asked>>
  /\ UNCHANGED <<doc, answers>>

(* The preview route is the only caller of the runtime in the platform.    *)
previewRun == NextNodeCtx

GraphNext ==
  \/ validateSchema
  \/ \E a \in Payloads : Answer(a)
  \/ previewRun

-----------------------------------------------------------------------------
GraphTypeOK ==
  /\ stage \in {"draft", "rejected", "interview", "ended", "stuck", "failed"}
  /\ cur \in ids(doc) \cup {""} /\ asked \subseteq ids(doc)
  /\ DOMAIN answers \subseteq asked

(* An accepted schema can be walked: the interview never meets an edge to  *)
(* a node that is not there, never evaluates a condition whose dotted      *)
(* reads name a question that was not asked on the way, and never enters a *)
(* cycle of several nodes from which no end can be reached; the progress   *)
(* it shows is a fraction.  A read written in another form passes the      *)
(* whitelist and escapes the check of references, so of that nothing is    *)
(* promised (checkForwardReferences, nodeRefRE).                           *)
AcceptedIsWalkable ==
  stage \in {"interview", "ended", "stuck", "failed"} =>
    LET g == parseGraph(doc) IN
    /\ stage # "failed"
    /\ \A e \in edgesOf(g, cur) : extractNodeRefs(e.when) \subseteq asked
    /\ \A id \in bfs(g, cur) :
         \/ hasEnd(g, bfs(g, id))
         \/ \E d \in bfs(g, id) : successors(g, d) \subseteq {d}
    /\ LET p == progressOf(doc, cur, answers) IN p[1] <= p[2]
    /\ LET p == CalculateProgress(doc, cur) IN p[1] <= p[2]

(* computeDominators is exact for every schema whose nodes can all be      *)
(* reached: d dominates n if and only if n cannot be reached once d is     *)
(* taken away.                                                             *)
DominatorsAreExact ==
  stage = "draft" =>
    LET g == parseGraph(doc)
        s == startID(g)
        without(d) == [id \in DOMAIN g \ {d} |-> g[id]]
    IN s # "" /\ checkReachability(g) =>
         \A n, d \in DOMAIN g :
           d \in computeDominators(g)[n] <=>
             d = n \/ d = s \/ n \notin bfs(without(d), s)
==============================================================================
