------------------------------ MODULE Imports ------------------------------
(***************************************************************************)
(* Bulk import of respondents: the upload, the task queue, the handler and *)
(* the status that the user polls.  The queue "crm" is served by two       *)
(* servers, one that knows import tasks and one that knows purge tasks;    *)
(* a server that takes a task it does not know hands it back as a failure. *)
(***************************************************************************)
EXTENDS Respondents

CONSTANTS
  Jobs,         \* import tasks
  Purges,       \* purge tasks of the scheduler
  Files,        \* uploaded files: format, header and rows
  BatchSize,    \* importBatchSize
  MaxRows,      \* importMaxRows
  ImportRetry,  \* MaxRetry of an import
  PurgeRetry,   \* MaxRetry of a purge
  MaxFaults     \* bound on crashes, failures of a batch and lost status writes

ASSUME ImportsAssumption == BatchSize \in Nat \ {0} /\ {MaxRows, ImportRetry, PurgeRetry, MaxFaults} \subseteq Nat

VARIABLES
  tasks,     \* the tasks of the queue
  handler,   \* the import handler's local state, per task
  progress,  \* the status hash in Redis
  known,     \* history: project and phone pairs that have had a row
  ifaults

importVars == <<tasks, handler, progress, known, ifaults>>

Servers == {"import", "purge"}
kind(j) == IF j \in Jobs THEN "import" ELSE "purge"
NoFile == [format |-> "none", header |-> "none", rows |-> <<>>]
NoTask == [state |-> "none", retried |-> 0, server |-> "none", org |-> "none", project |-> "none", file |-> NoFile]
NoHandler == [pc |-> "off", rows |-> <<>>, pos |-> 0, insertable |-> {}, inserted |-> 0, skipped |-> 0, batchSkipped |-> 0]
NoProgress == [state |-> "none", total |-> 0, processed |-> 0, inserted |-> 0, skipped |-> 0]

ImportInit ==
  /\ tasks = [j \in Jobs \cup Purges |-> NoTask]
  /\ handler = [j \in Jobs |-> NoHandler]
  /\ progress = [j \in Jobs |-> NoProgress]
  /\ known = {} /\ ifaults = 0

fault == ifaults < MaxFaults /\ ifaults' = ifaults + 1
setTask(j, row) == tasks' = [tasks EXCEPT ![j] = row]
setHandler(j, h) == handler' = [handler EXCEPT ![j] = h]

-----------------------------------------------------------------------------
(* The status hash.  A write that fails is logged and forgotten.           *)
report(j, p) ==
  \/ progress' = [progress EXCEPT ![j] = p] /\ UNCHANGED ifaults
  \/ fault /\ UNCHANGED progress
InitStatus(total) == [NoProgress EXCEPT !.state = IF total > 0 THEN "running" ELSE "queued", !.total = total]
UpdateStatusHash(j, processed, inserted, skipped) ==
  [progress[j] EXCEPT !.state = "running", !.processed = processed, !.inserted = inserted, !.skipped = skipped]
FinishStatus(total, inserted, skipped) ==
  [state |-> "succeeded", total |-> total, processed |-> total, inserted |-> inserted, skipped |-> skipped]
FailStatus(j) == [progress[j] EXCEPT !.state = "failed"]
StatusExpires(j) ==
  /\ tasks[j].state \in {"done", "dead"} /\ progress[j] # NoProgress
  /\ progress' = [progress EXCEPT ![j] = NoProgress]
  /\ UNCHANGED <<tasks, handler, known, ifaults, respondentVars>>

-----------------------------------------------------------------------------
(* The upload: a status is written before the task is queued.  The route   *)
(* supplies no job id, so Import deals a fresh one and the queue's answer  *)
(* that it has the id already does not occur.                              *)
inferImportFormat(explicit, type, name) ==
  IF explicit # "none" THEN explicit ELSE IF type # "none" THEN type ELSE IF name # "none" THEN name ELSE "csv"
validateImportRequest(f) == f.rows # <<>>
Enqueue(j, org, i, f) == setTask(j, [NoTask EXCEPT !.state = "queued", !.org = org, !.project = i, !.file = f])
Import(j, org, i, f) ==
  /\ validateImportRequest(f)
  /\ progress[j] = NoProgress /\ tasks[j] = NoTask
  /\ \/ Enqueue(j, org, i, f) /\ progress' = [progress EXCEPT ![j] = InitStatus(0)] /\ UNCHANGED ifaults
     \/ fault /\ progress' = [progress EXCEPT ![j] = FailStatus(j)]
        /\ setTask(j, [NoTask EXCEPT !.state = "done"])
  /\ UNCHANGED <<handler, known, respondentVars>>
importRespondents(c, i, j, f) ==
  requireAdminRole(c) /\ projectSameTenant(c, i) /\ Import(j, c.org, i, [f EXCEPT !.format = inferImportFormat(@, "none", "none")])

(* The scheduler queues a purge.                                           *)
CronPurge(j) ==
  /\ tasks[j] = NoTask /\ setTask(j, [NoTask EXCEPT !.state = "queued"])
  /\ UNCHANGED <<handler, progress, known, ifaults, respondentVars>>

-----------------------------------------------------------------------------
(* The queue: a failed task is queued again until its retries are used up. *)
FaultRetriesForever(j) == setTask(j, [tasks[j] EXCEPT !.state = "queued", !.retried = @ + 1])

MaxRetry(j) == IF kind(j) = "import" THEN ImportRetry ELSE PurgeRetry
retry(j) ==
  IF tasks[j].retried >= MaxRetry(j) THEN setTask(j, [tasks[j] EXCEPT !.state = "dead"])
  ELSE setTask(j, [tasks[j] EXCEPT !.state = "queued", !.retried = @ + 1])
Dequeue(s, j) ==
  /\ tasks[j].state = "queued"
  /\ IF kind(j) = s
     THEN /\ setTask(j, [tasks[j] EXCEPT !.state = "active"])
          /\ IF s = "import" THEN setHandler(j, [NoHandler EXCEPT !.pc = "start"]) ELSE UNCHANGED handler
     ELSE retry(j) /\ UNCHANGED handler
  /\ UNCHANGED <<progress, known, ifaults, respondentVars>>
(* The process dies; the lease runs out and the task counts as failed.     *)
Crash(j) ==
  /\ tasks[j].state = "active" /\ fault
  /\ retry(j)
  /\ handler' = [k \in Jobs |-> IF k = j THEN NoHandler ELSE handler[k]]
  /\ UNCHANGED <<progress, known, respondentVars>>
HandlePurgeTask(j) ==
  /\ j \in Purges /\ tasks[j].state = "active"
  /\ setTask(j, [tasks[j] EXCEPT !.state = "done"])
  /\ PurgeRun \/ (due = {} /\ UNCHANGED respondentVars)
  /\ UNCHANGED <<handler, progress, known, ifaults>>

-----------------------------------------------------------------------------
(* Parsing.  A row is a typed phone, a blank line, or (in a workbook) a    *)
(* phone the sheet holds as a number.                                      *)
isBlankRow(cell) == cell = "blank"
mapHeaders(f) == f.header = "phone"
normalisePhoneCell(cell) == IF cell \in DOMAIN Normal THEN cell ELSE CHOOSE raw \in RawPhones : Normal[raw] # "invalid"
parseCSV(f) == SelectSeq(f.rows, LAMBDA cell : ~isBlankRow(cell))
parseXLSX(f) == [k \in 1..Len(parseCSV(f)) |-> normalisePhoneCell(parseCSV(f)[k])]
parseImportPayload(f) == IF f.format = "csv" THEN parseCSV(f) ELSE parseXLSX(f)
parses(f) == mapHeaders(f) /\ Len(parseCSV(f)) <= MaxRows

(* A file that does not parse is not tried again.                          *)
HandleImportTask(j) ==
  /\ handler[j].pc = "start"
  /\ LET f == tasks[j].file IN
       IF parses(f)
       THEN /\ report(j, InitStatus(Len(parseImportPayload(f))))
            /\ setHandler(j, [NoHandler EXCEPT !.pc = "batch", !.rows = parseImportPayload(f)])
            /\ UNCHANGED tasks
       ELSE report(j, FailStatus(j)) /\ setTask(j, [tasks[j] EXCEPT !.state = "dead"]) /\ setHandler(j, NoHandler)
  /\ UNCHANGED <<known, respondentVars>>

-----------------------------------------------------------------------------
(* A batch: normalise and drop repeats, drop phones that have a row or are *)
(* blocked, then insert what is left in one statement.                     *)
FaultSkipsBatch(j) ==
  /\ setHandler(j, [handler[j] EXCEPT !.pc = "batch", !.pos = @ + BatchSize, !.skipped = @ + BatchSize])
  /\ UNCHANGED <<tasks, progress, ifaults>>

batchEnd(h) == IF h.pos + BatchSize > Len(h.rows) THEN Len(h.rows) ELSE h.pos + BatchSize
batchLen(h) == batchEnd(h) - h.pos
stageBatch(h) == {NormalizeRussianPhone(h.rows[k]) : k \in (h.pos + 1)..batchEnd(h)} \ {"invalid"}
ExistingHashes(i, staged) == {ph \in staged : GetByHash(i, ph) # {}}
filterAgainstDB(i, staged) == {ph \in staged \ ExistingHashes(i, staged) : ~IsBlockedDNC(i, ph)}
processBatch(j) ==
  /\ handler[j].pc = "batch" /\ handler[j].pos < Len(handler[j].rows)
  /\ LET insertable == filterAgainstDB(tasks[j].project, stageBatch(handler[j])) IN
       setHandler(j, [handler[j] EXCEPT !.pc = "persist", !.insertable = insertable,
                                        !.batchSkipped = batchLen(handler[j]) - Cardinality(insertable)])
  /\ UNCHANGED <<tasks, progress, known, ifaults, respondentVars>>

batchFailed(j) == report(j, FailStatus(j)) /\ retry(j) /\ setHandler(j, NoHandler)

InsertBatch(j, rows) ==
  /\ \A r \in DOMAIN rows : freshId(r)
  /\ respondents' = [r \in RespIds |->
       IF r \in DOMAIN rows THEN newRespondent(tasks[j].org, tasks[j].project, rows[r]) ELSE respondents[r]]
  /\ known' = known \cup {<<tasks[j].project, rows[r]>> : r \in DOMAIN rows}
idsFor(phones) == {ids \in SUBSET {r \in RespIds : freshId(r)} : Cardinality(ids) = Cardinality(phones)}
batchDone(j) ==
  LET h == handler[j]
      ins == h.inserted + Cardinality(h.insertable)
      skip == h.skipped + h.batchSkipped IN
    /\ report(j, UpdateStatusHash(j, batchEnd(h), ins, skip))
    /\ setHandler(j, [h EXCEPT !.pc = "batch", !.pos = batchEnd(h), !.insertable = {}, !.batchSkipped = 0,
                               !.inserted = ins, !.skipped = skip])
(* A phone that got a row since it was filtered fails the whole batch.     *)
persistBatch(j) ==
  /\ handler[j].pc = "persist"
  /\ LET new == handler[j].insertable IN
       IF \A ph \in new : uniqueHash(tasks[j].project, ph)
       THEN /\ \E ids \in idsFor(new) :
                 InsertBatch(j, CHOOSE rows \in [ids -> new] : {rows[r] : r \in ids} = new)
            /\ batchDone(j) /\ UNCHANGED tasks
       ELSE batchFailed(j) /\ UNCHANGED <<respondents, known>>
  /\ UNCHANGED <<dnc, rreq, swept, day>>
(* The key service, the hasher or the database fails the batch.            *)
BatchErrors(j) ==
  /\ handler[j].pc = "persist" /\ ifaults < MaxFaults
  /\ ifaults' = ifaults + 1 /\ progress' = [progress EXCEPT ![j] = FailStatus(j)]
  /\ retry(j) /\ setHandler(j, NoHandler)
  /\ UNCHANGED <<known, respondentVars>>

FinishImport(j) ==
  /\ handler[j].pc = "batch" /\ handler[j].pos >= Len(handler[j].rows)
  /\ report(j, FinishStatus(Len(handler[j].rows), handler[j].inserted, handler[j].skipped))
  /\ setHandler(j, [handler[j] EXCEPT !.pc = "return"])
  /\ UNCHANGED <<tasks, known, respondentVars>>
Ack(j) ==
  /\ handler[j].pc = "return"
  /\ setTask(j, [tasks[j] EXCEPT !.state = "done"]) /\ setHandler(j, NoHandler)
  /\ UNCHANGED <<progress, known, ifaults, respondentVars>>

-----------------------------------------------------------------------------
(* Creations by hand go on meanwhile.                                      *)
recordKnown == known' = known \cup {<<respondents'[r].project, respondents'[r].phone>> :
                                       r \in {s \in RespIds : respondents'[s] # NoRespondent}}
ImportNext ==
  /\ UNCHANGED projectVars
  /\ \/ \E c \in CrmCallers, i \in ProjectIds, j \in Jobs, f \in Files : importRespondents(c, i, j, f)
     \/ \E j \in Purges : CronPurge(j) \/ HandlePurgeTask(j)
     \/ \E s \in Servers, j \in Jobs \cup Purges : Dequeue(s, j)
     \/ \E j \in Jobs \cup Purges : Crash(j)
     \/ \E j \in Jobs :
          \/ HandleImportTask(j) \/ processBatch(j) \/ persistBatch(j) \/ BatchErrors(j)
          \/ FinishImport(j) \/ Ack(j) \/ StatusExpires(j)
     \/ RespondentCreates /\ recordKnown /\ UNCHANGED <<tasks, handler, progress, ifaults>>

ImportTypeOK ==
  /\ \A j \in Jobs \cup Purges :
       tasks[j].state \in {"none", "queued", "active", "dead", "done"} /\ tasks[j].retried \in 0..MaxRetry(j)
  /\ \A j \in Jobs :
       /\ progress[j].state \in {"none", "queued", "running", "succeeded", "failed"}
       /\ handler[j].pc \in {"off", "start", "batch", "persist", "return"}
       /\ (tasks[j].state = "active") = (handler[j].pc # "off")

(* When the status says an import succeeded, every row of its file was     *)
(* dealt with: the phone is not valid, has had a row in the project, or is *)
(* on the do-not-call list; and the counters of the status add up, at      *)
(* every moment (HandleImportTask, ProgressTracker), whatever crashes,     *)
(* retries and concurrent creations came in between.                       *)
ImportIsAccounted == \A j \in Jobs :
  /\ progress[j].processed = progress[j].inserted + progress[j].skipped
  /\ progress[j].state = "succeeded" =>
       \A k \in DOMAIN parseImportPayload(tasks[j].file) :
         LET ph == NormalizeRussianPhone(parseImportPayload(tasks[j].file)[k]) IN
           ph = "invalid" \/ <<tasks[j].project, ph>> \in known \/ IsBlockedDNC(tasks[j].project, ph)
=============================================================================
