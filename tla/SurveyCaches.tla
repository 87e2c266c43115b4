---------------------------- MODULE SurveyCaches ----------------------------
(***************************************************************************)
(* The two least-recently-used caches of an interview: compiled conditions *)
(* (internal/surveys/dsl/cache.go, real_evaluator.go) and parsed schemas   *)
(* (internal/surveys/runtime/cache.go).  A cache is the sequence of its    *)
(* keys, most recent first.  Its lock covers one lookup or one insertion,  *)
(* so evaluations interleave between a miss and the insertion after it.    *)
(***************************************************************************)
EXTENDS Naturals, FiniteSets, Sequences

CONSTANTS
  Interviews,    \* evaluations in progress
  Conditions,    \* condition texts, after trimming
  Whitelisted,   \* those ParseAndCheck accepts
  Schemas,       \* schema documents, by hash
  Parseable,     \* those that parse and have nodes
  ProgramCap, SchemaCap

ASSUME CachesAssumption ==
  /\ Whitelisted \subseteq Conditions /\ Parseable \subseteq Schemas
  /\ ProgramCap \in Nat \ {0} /\ SchemaCap \in Nat \ {0}

VARIABLES
  programs,   \* the program cache
  parsed,     \* the schema cache
  ivw         \* the evaluations: pc, schema and condition

cacheVars == <<programs, parsed, ivw>>

IdleInterview == [pc |-> "idle", schema |-> "none", when |-> "none"]

CachesInit ==
  programs = <<>> /\ parsed = <<>> /\ ivw = [i \in Interviews |-> IdleInterview]

-----------------------------------------------------------------------------
holds(l, k) == \E i \in DOMAIN l : l[i] = k
MoveToFront(l, k) == <<k>> \o SelectSeq(l, LAMBDA x : x # k)
evictOldest(l) == SubSeq(l, 1, Len(l) - 1)
trimTo(l, cap) == IF Len(l) > cap THEN evictOldest(l) ELSE l

FaultInsertsBlindly(k) == programs' = trimTo(<<k>> \o programs, ProgramCap)

(* Put: the key may have been inserted by somebody else since the miss.    *)
Put(k) == programs' = IF holds(programs, k) THEN MoveToFront(programs, k)
                      ELSE trimTo(<<k>> \o programs, ProgramCap)
Get(k) == holds(programs, k) /\ programs' = MoveToFront(programs, k)

schemaCacheGet(k) == holds(parsed, k) /\ parsed' = MoveToFront(parsed, k)
schemaCachePut(k) == parsed' = IF holds(parsed, k) THEN MoveToFront(parsed, k)
                               ELSE trimTo(<<k>> \o parsed, SchemaCap)

goto(i, r) == ivw' = [ivw EXCEPT ![i] = r]

-----------------------------------------------------------------------------
(* parse: a document in the cache is not parsed again.                     *)
BeginNextNode(i, k, w) ==
  /\ ivw[i].pc = "idle"
  /\ \/ schemaCacheGet(k) /\ goto(i, [pc |-> "lookup", schema |-> k, when |-> w])
     \/ ~holds(parsed, k) /\ UNCHANGED parsed /\ goto(i, [pc |-> "parse", schema |-> k, when |-> w])
  /\ UNCHANGED programs
parse(i) ==
  /\ ivw[i].pc = "parse"
  /\ IF ivw[i].schema \in Parseable
     THEN schemaCachePut(ivw[i].schema) /\ goto(i, [ivw[i] EXCEPT !.pc = "lookup"])
     ELSE UNCHANGED parsed /\ goto(i, IdleInterview)
  /\ UNCHANGED programs

(* Eval and compileForEval: look up; on a miss check, compile and insert,  *)
(* then look up again; if the program was evicted meanwhile, use the one   *)
(* just compiled from the same text.                                       *)
compileForEval(i) ==
  /\ ivw[i].pc = "lookup"
  /\ \/ Get(ivw[i].when) /\ goto(i, [ivw[i] EXCEPT !.pc = "run"])
     \/ ~holds(programs, ivw[i].when) /\ UNCHANGED programs /\ goto(i, [ivw[i] EXCEPT !.pc = "check"])
  /\ UNCHANGED parsed
FaultCachesUnchecked(i) ==
  /\ ivw[i].pc = "check" /\ Put(ivw[i].when) /\ goto(i, [ivw[i] EXCEPT !.pc = "again"]) /\ UNCHANGED parsed
checkAndPut(i) ==
  /\ ivw[i].pc = "check"
  /\ IF ivw[i].when \in Whitelisted
     THEN Put(ivw[i].when) /\ goto(i, [ivw[i] EXCEPT !.pc = "again"])
     ELSE UNCHANGED programs /\ goto(i, IdleInterview)
  /\ UNCHANGED parsed
lookAgain(i) ==
  /\ ivw[i].pc = "again"
  /\ Get(ivw[i].when) \/ (~holds(programs, ivw[i].when) /\ UNCHANGED programs)
  /\ goto(i, [ivw[i] EXCEPT !.pc = "run"])
  /\ UNCHANGED parsed
EvalRun(i) == ivw[i].pc = "run" /\ goto(i, IdleInterview) /\ UNCHANGED <<programs, parsed>>

CachesNext ==
  \E i \in Interviews :
    \/ \E k \in Schemas, w \in Conditions : BeginNextNode(i, k, w)
    \/ parse(i)
    \/ compileForEval(i)
    \/ checkAndPut(i)
    \/ lookAgain(i)
    \/ EvalRun(i)

-----------------------------------------------------------------------------
distinct(l) == \A i, j \in DOMAIN l : l[i] = l[j] => i = j

CachesTypeOK ==
  /\ \A i \in DOMAIN programs : programs[i] \in Conditions
  /\ \A i \in DOMAIN parsed : parsed[i] \in Schemas
  /\ Len(programs) <= ProgramCap /\ Len(parsed) <= SchemaCap

(* However evaluations interleave, a cache holds a key once, within its    *)
(* capacity, and only what passed its check: a condition that runs, hit or *)
(* miss, was whitelisted, and a schema that is walked was parsed.          *)
OnlyCheckedIsCached ==
  /\ distinct(programs) /\ distinct(parsed)
  /\ \A i \in DOMAIN programs : programs[i] \in Whitelisted
  /\ \A i \in DOMAIN parsed : parsed[i] \in Parseable
  /\ \A i \in Interviews :
       /\ ivw[i].pc \in {"again", "run"} => ivw[i].when \in Whitelisted
       /\ ivw[i].pc \in {"lookup", "check", "again", "run"} => ivw[i].schema \in Parseable
=============================================================================
