----------------------------- MODULE ReportJobs -----------------------------
(***************************************************************************)
(* The exports of internal/reports: the HTTP handlers that run a report at *)
(* once or queue it, the reports_jobs rows, the asynq task that carries a  *)
(* job to the worker, and the worker's handler.                            *)
(*                                                                         *)
(* A job lives in two places that no transaction joins: a task in Redis    *)
(* and a row in Postgres.  Every transaction, Redis call and S3 call is    *)
(* one step.  asynq is external: a task is delivered, acknowledged,        *)
(* retried or archived by what the handler returns, and delivered again    *)
(* when the lease of its worker runs out.                                  *)
(***************************************************************************)
EXTENDS Naturals, FiniteSets

CONSTANTS Jobs,            \* requests; a queued one gives its task its id
          Workers,         \* handler goroutines of the worker processes
          Kinds,           \* report kinds, "custom" among them
          Spans,           \* window lengths in days
          AsyncPeriodDays, \* ThresholdConfig.AsyncPeriodDays
          NoJob,
          MaxRetry,        \* asynq: retries before a task is archived
          MaxFaults        \* bound: failed calls, crashes and stalls

ASSUME ReportAssumption ==
  /\ "custom" \in Kinds /\ NoJob \notin Jobs
  /\ Spans \subseteq Nat /\ AsyncPeriodDays \in Nat \ {0}
  /\ MaxRetry \in Nat /\ MaxFaults \in Nat

VARIABLES
  request, \* the HTTP request of each job
  row,     \* reports_jobs.state, "none" before the insert
  task,    \* the asynq task: where it is and how often it was retried
  handler, \* what each handler goroutine is doing
  objects, \* jobs with an artifact in the bucket
  audit,   \* audit events appended to the outbox, per job
  ready,   \* report-ready events appended to the outbox, per job
  faults,  \* faults so far
  \* history, read by no guard
  missed,    \* jobs whose task was acknowledged before their row existed
  abandoned  \* jobs a fault left in state running with nobody at work

vars == <<request, row, task, handler, objects, audit, ready, faults, missed, abandoned>>

RowStates == {"queued", "running", "succeeded", "failed", "canceled"}
Terminal  == {"succeeded", "failed", "canceled"}
Open      == {"queued", "running"}

Requests == {"new", "rendered", "delivered", "enqueued", "accepted", "error"}

Task == [ at : {"none", "pending", "active", "done", "archived"}, retried : 0 .. MaxRetry ]

PCs == {"idle", "mark", "render", "put", "presign", "finish", "permanent", "transient"}

(* A handler past MarkRunning.                                             *)
Working == PCs \ {"idle", "mark"}

(* The delivery a handler works on is a job and the retry count of its     *)
(* task when it was fetched.                                               *)
Handler == [ pc : PCs, job : Jobs \cup {NoJob}, retried : 0 .. MaxRetry ]

IdleHandler == [ pc |-> "idle", job |-> NoJob, retried |-> 0 ]

Init ==
  /\ request = [j \in Jobs |-> "new"]
  /\ row = [j \in Jobs |-> "none"]
  /\ task = [j \in Jobs |-> [ at |-> "none", retried |-> 0 ]]
  /\ handler = [w \in Workers |-> IdleHandler]
  /\ objects = {}
  /\ audit = [j \in Jobs |-> 0]
  /\ ready = [j \in Jobs |-> 0]
  /\ faults = 0
  /\ missed = {}
  /\ abandoned = {}

fault == faults < MaxFaults /\ faults' = faults + 1

-----------------------------------------------------------------------------
(* The HTTP side.                                                          *)

(* estimateRows is a stub that returns 0, so the row threshold never trips.*)
IsAsyncRequired(kind, span) == kind = "custom" \/ span > AsyncPeriodDays

(* Export tries the synchronous path, and Runner.Run renders.              *)
RunRender(j) ==
  /\ request[j] = "new"
  /\ \E kind \in Kinds, span \in Spans : ~ IsAsyncRequired(kind, span)
  /\ \E answer \in {"rendered", "error"} : request' = [request EXCEPT ![j] = answer]
  /\ UNCHANGED <<row, task, handler, objects, audit, ready, faults, missed, abandoned>>

(* Runner.Run audits the export, then returns the bytes.                   *)
RunAudit(j) ==
  /\ request[j] = "rendered"
  /\ \/ /\ request' = [request EXCEPT ![j] = "delivered"]
        /\ audit' = [audit EXCEPT ![j] = @ + 1]
        /\ UNCHANGED faults
     \/ /\ request' = [request EXCEPT ![j] = "error"]
        /\ fault /\ UNCHANGED audit
  /\ UNCHANGED <<row, task, handler, objects, ready, missed, abandoned>>

(* Queue.Enqueue up to EnqueueContext, from Export or Custom.  A call that *)
(* reports an error may have reached Redis all the same.                   *)
EnqueueTask(j) ==
  /\ request[j] = "new"
  /\ \E kind \in Kinds, span \in Spans : IsAsyncRequired(kind, span)
  /\ \/ /\ request' = [request EXCEPT ![j] = "enqueued"]
        /\ task' = [task EXCEPT ![j].at = "pending"]
        /\ UNCHANGED faults
     \/ /\ request' = [request EXCEPT ![j] = "error"]
        /\ fault
        /\ task' \in {task, [task EXCEPT ![j].at = "pending"]}
  /\ UNCHANGED <<row, handler, objects, audit, ready, missed, abandoned>>

(* Fault: the row starts in a state the schema does not know.              *)
FaultCreateState(j) ==
  /\ request[j] = "enqueued"
  /\ request' = [request EXCEPT ![j] = "accepted"]
  /\ row' = [row EXCEPT ![j] = "pending"]
  /\ UNCHANGED <<task, handler, objects, audit, ready, faults, missed, abandoned>>

(* The rest of Queue.Enqueue: store.Create under the id of the task.       *)
Create(j) ==
  /\ request[j] = "enqueued"
  /\ \/ /\ request' = [request EXCEPT ![j] = "accepted"]
        /\ row' = [row EXCEPT ![j] = "queued"]
        /\ UNCHANGED faults
     \/ /\ request' = [request EXCEPT ![j] = "error"]
        /\ fault /\ UNCHANGED row
  /\ UNCHANGED <<task, handler, objects, audit, ready, missed, abandoned>>

(* Fault: a terminal row is canceled too.                                  *)
FaultCancelAnything(j) ==
  /\ row[j] # "none"
  /\ row' = [row EXCEPT ![j] = "canceled"]
  /\ UNCHANGED <<request, task, handler, objects, audit, ready, faults, missed, abandoned>>

(* Queue.Cancel: no row is ErrJobNotFound; MarkCanceledTx skips a terminal *)
(* row.                                                                    *)
Cancel(j) ==
  /\ row[j] \in Open
  /\ row' = [row EXCEPT ![j] = "canceled"]
  /\ UNCHANGED <<request, task, handler, objects, audit, ready, faults, missed, abandoned>>

-----------------------------------------------------------------------------
(* asynq.                                                                  *)

Deliver(w, j) ==
  /\ handler[w].pc = "idle"
  /\ task[j].at = "pending"
  /\ task' = [task EXCEPT ![j].at = "active"]
  /\ handler' = [handler EXCEPT ![w] = [ pc |-> "mark", job |-> j, retried |-> task[j].retried ]]
  /\ UNCHANGED <<request, row, objects, audit, ready, faults, missed, abandoned>>

afterRetry(t) == IF t.retried < MaxRetry
                 THEN [ at |-> "pending", retried |-> t.retried + 1 ]
                 ELSE [ t EXCEPT !.at = "archived" ]

(* What the return value of a handler does to its task, if this delivery   *)
(* is still the leased one: nil acknowledges, SkipRetry archives, another  *)
(* error retries.                                                          *)
settle(h, answer) ==
  task' = IF task[h.job] # [ at |-> "active", retried |-> h.retried ] THEN task
          ELSE [task EXCEPT ![h.job] =
                  CASE answer = "ack"  -> [ @ EXCEPT !.at = "done" ]
                    [] answer = "skip" -> [ @ EXCEPT !.at = "archived" ]
                    [] answer = "err"  -> afterRetry(@)]

Return(w, answer) ==
  /\ settle(handler[w], answer)
  /\ handler' = [handler EXCEPT ![w] = IdleHandler]

(* A lease runs out when its worker died, stalled or was shut down.        *)
LeaseExpires(j) ==
  /\ task[j].at = "active"
  /\ IF \E w \in Workers : handler[w].job = j
     THEN fault ELSE UNCHANGED faults
  /\ task' = [task EXCEPT ![j] = afterRetry(@)]
  /\ UNCHANGED <<request, row, handler, objects, audit, ready, missed, abandoned>>

(* The process of a handler dies.                                          *)
Crash(w) ==
  /\ handler[w].pc # "idle"
  /\ fault
  /\ handler' = [handler EXCEPT ![w] = IdleHandler]
  /\ abandoned' = IF handler[w].pc \in Working
                  THEN abandoned \cup {handler[w].job} ELSE abandoned
  /\ UNCHANGED <<request, row, task, objects, audit, ready, missed>>

-----------------------------------------------------------------------------
(* Consumer.handleJobRun.                                                  *)

goto(w, pc) == handler' = [handler EXCEPT ![w].pc = pc]

(* Fault: the guard of MarkRunningTx lets a running row through.           *)
FaultMarkRunningTwice(w) ==
  LET j == handler[w].job IN
  /\ handler[w].pc = "mark"
  /\ \/ /\ row[j] \in Open
        /\ row' = [row EXCEPT ![j] = "running"]
        /\ goto(w, "render")
        /\ UNCHANGED <<task, missed, faults>>
     \/ /\ row[j] \notin Open
        /\ Return(w, "ack")
        /\ missed' = IF row[j] = "none" THEN missed \cup {j} ELSE missed
        /\ UNCHANGED <<row, faults>>
     \/ /\ Return(w, "err")
        /\ fault /\ UNCHANGED <<row, missed>>
  /\ UNCHANGED <<request, objects, audit, ready, abandoned>>

(* Fault: a failed transaction acknowledges the task.                      *)
FaultAckOnError(w) ==
  LET j == handler[w].job IN
  /\ handler[w].pc = "mark"
  /\ \/ /\ row[j] = "queued"
        /\ row' = [row EXCEPT ![j] = "running"]
        /\ goto(w, "render")
        /\ UNCHANGED <<task, missed, faults>>
     \/ /\ row[j] # "queued"
        /\ Return(w, "ack")
        /\ missed' = IF row[j] = "none" THEN missed \cup {j} ELSE missed
        /\ UNCHANGED <<row, faults>>
     \/ /\ Return(w, "ack")
        /\ fault /\ UNCHANGED <<row, missed>>
  /\ UNCHANGED <<request, objects, audit, ready, abandoned>>

(* Phase 1, MarkRunningTx: a row that is not queued, or not there, is      *)
(* ErrStaleSkip and acknowledges the task.                                 *)
MarkRunning(w) ==
  LET j == handler[w].job IN
  /\ handler[w].pc = "mark"
  /\ \/ /\ row[j] = "queued"
        /\ row' = [row EXCEPT ![j] = "running"]
        /\ goto(w, "render")
        /\ UNCHANGED <<task, missed, faults>>
     \/ /\ row[j] # "queued"
        /\ Return(w, "ack")
        /\ missed' = IF row[j] = "none" THEN missed \cup {j} ELSE missed
        /\ UNCHANGED <<row, faults>>
     \/ /\ Return(w, "err")
        /\ fault /\ UNCHANGED <<row, missed>>
  /\ UNCHANGED <<request, objects, audit, ready, abandoned>>

(* Phase 2, renderByKind: an error of the input is permanent, any other    *)
(* transient.                                                              *)
Render(w) ==
  /\ handler[w].pc = "render"
  /\ \/ goto(w, "put") /\ UNCHANGED faults
     \/ goto(w, "permanent") /\ UNCHANGED faults
     \/ goto(w, "transient") /\ fault
  /\ UNCHANGED <<request, row, task, objects, audit, ready, missed, abandoned>>

(* Fault: a failed upload goes on to the presigned URL.                    *)
FaultIgnorePut(w) ==
  /\ handler[w].pc = "put"
  /\ goto(w, "presign")
  /\ \/ objects' = objects \cup {handler[w].job} /\ UNCHANGED faults
     \/ fault /\ UNCHANGED objects
  /\ UNCHANGED <<request, row, task, audit, ready, missed, abandoned>>

(* Phase 3, ObjectStore.Put.                                               *)
Put(w) ==
  /\ handler[w].pc = "put"
  /\ \/ goto(w, "presign") /\ objects' = objects \cup {handler[w].job} /\ UNCHANGED faults
     \/ goto(w, "transient") /\ fault /\ UNCHANGED objects
  /\ UNCHANGED <<request, row, task, audit, ready, missed, abandoned>>

(* Phase 3, ObjectStore.PresignedURL.                                      *)
PresignedURL(w) ==
  /\ handler[w].pc = "presign"
  /\ \/ goto(w, "finish") /\ UNCHANGED faults
     \/ goto(w, "transient") /\ fault
  /\ UNCHANGED <<request, row, task, objects, audit, ready, missed, abandoned>>

(* A closing transaction that fails leaves the row as it was, and the      *)
(* redelivery finds it running.                                            *)
rollback(w) ==
  /\ fault
  /\ abandoned' = abandoned \cup {handler[w].job}
  /\ UNCHANGED <<row, audit, ready>>

(* Fault: the events are appended although the row was already closed.     *)
FaultPublishStale(w) ==
  LET j == handler[w].job IN
  /\ handler[w].pc = "finish"
  /\ \/ /\ row' = IF row[j] \in Open THEN [row EXCEPT ![j] = "succeeded"] ELSE row
        /\ audit' = [audit EXCEPT ![j] = @ + 1]
        /\ ready' = [ready EXCEPT ![j] = @ + 1]
        /\ Return(w, "ack")
        /\ UNCHANGED <<faults, abandoned>>
     \/ /\ rollback(w)
        /\ Return(w, "err")
  /\ UNCHANGED <<request, objects, missed>>

(* Phase 4, one transaction: MarkSucceededTx, the audit and the ready      *)
(* event.  A row canceled meanwhile is acknowledged and the object stays.  *)
MarkSucceeded(w) ==
  LET j == handler[w].job IN
  /\ handler[w].pc = "finish"
  /\ \/ /\ row[j] \in Open
        /\ row' = [row EXCEPT ![j] = "succeeded"]
        /\ audit' = [audit EXCEPT ![j] = @ + 1]
        /\ ready' = [ready EXCEPT ![j] = @ + 1]
        /\ Return(w, "ack")
        /\ UNCHANGED <<faults, abandoned>>
     \/ /\ row[j] \notin Open
        /\ Return(w, "ack")
        /\ UNCHANGED <<row, audit, ready, faults, abandoned>>
     \/ /\ rollback(w)
        /\ Return(w, "err")
  /\ UNCHANGED <<request, objects, missed>>

(* Fault: a failed render leaves the row running.                          *)
FaultForgetFailure(w) ==
  /\ handler[w].pc \in {"permanent", "transient"}
  /\ Return(w, IF handler[w].pc = "permanent" THEN "skip" ELSE "err")
  /\ UNCHANGED <<request, row, objects, audit, ready, faults, missed, abandoned>>

(* markFailed: one transaction, MarkFailedTx and the audit; its own        *)
(* failure is logged and the cause is returned all the same.               *)
markFailed(w) ==
  LET j == handler[w].job IN
  /\ handler[w].pc \in {"permanent", "transient"}
  /\ \/ /\ row[j] \in Open
        /\ row' = [row EXCEPT ![j] = "failed"]
        /\ audit' = [audit EXCEPT ![j] = @ + 1]
        /\ UNCHANGED <<ready, faults, abandoned>>
     \/ /\ row[j] \notin Open
        /\ UNCHANGED <<row, audit, ready, faults, abandoned>>
     \/ rollback(w)
  /\ Return(w, IF handler[w].pc = "permanent" THEN "skip" ELSE "err")
  /\ UNCHANGED <<request, objects, missed>>

-----------------------------------------------------------------------------
handleJobRun(w) == \/ MarkRunning(w) \/ Render(w) \/ Put(w) \/ PresignedURL(w)
                   \/ MarkSucceeded(w) \/ markFailed(w)

Next == \/ \E j \in Jobs : \/ RunRender(j) \/ RunAudit(j) \/ EnqueueTask(j) \/ Create(j)
                           \/ Cancel(j) \/ LeaseExpires(j)
        \/ \E w \in Workers : Crash(w) \/ handleJobRun(w)
        \/ \E w \in Workers, j \in Jobs : Deliver(w, j)

Spec == Init /\ [][Next]_vars

(* asynq keeps fetching and recovering leases, a handler that is not       *)
(* killed goes on, and a request that was begun is finished.               *)
FairSpec ==
  /\ Spec
  /\ \A w \in Workers : WF_vars(handleJobRun(w))
  /\ \A j \in Jobs : /\ WF_vars(\E w \in Workers : Deliver(w, j))
                     /\ WF_vars(LeaseExpires(j))
                     /\ WF_vars(Create(j))

-----------------------------------------------------------------------------
(* Properties.                                                             *)

(* Every variable has the type of the column, key or goroutine it models.  *)
TypeOK ==
  /\ request \in [Jobs -> Requests]
  /\ row \in [Jobs -> RowStates \cup {"none"}]
  /\ task \in [Jobs -> Task]
  /\ handler \in [Workers -> Handler]
  /\ objects \subseteq Jobs
  /\ audit \in [Jobs -> Nat]
  /\ ready \in [Jobs -> Nat]
  /\ faults \in 0 .. MaxFaults
  /\ missed \subseteq Jobs
  /\ abandoned \subseteq Jobs

(* "every export audit-logged", once, and announced once: whatever is      *)
(* redelivered, retried or canceled, a job has as many audit events as     *)
(* outcomes and a ready event just when it succeeded; bytes returned       *)
(* inline are audited too.                                                 *)
OutcomeIsPublishedOnce ==
  \A j \in Jobs :
    /\ audit[j] = IF row[j] \in {"succeeded", "failed"} \/ request[j] = "delivered"
                  THEN 1 ELSE 0
    /\ ready[j] = IF row[j] = "succeeded" THEN 1 ELSE 0

(* However often a task is delivered, one handler renders and uploads a    *)
(* job: MarkRunningTx lets one through.                                    *)
OneRenderer ==
  \A v, w \in Workers :
    handler[v].pc \in Working /\ handler[w].pc \in Working /\ v # w
      => handler[v].job # handler[w].job

(* A row that offers a download has its artifact in the bucket.            *)
SucceededHasArtifact == \A j \in Jobs : row[j] = "succeeded" => j \in objects

(* An open row has somebody who will close it: a queued one a task still   *)
(* to run, a running one its handler.  The exceptions are the two kinds of *)
(* loss the handler itself cannot see (a task taken before the row was     *)
(* inserted, a fault after MarkRunning) and a task out of retries.         *)
NoSilentStall ==
  \A j \in Jobs :
    /\ row[j] = "queued" => task[j].at \in {"pending", "active", "archived"} \/ j \in missed
    /\ row[j] = "running" =>
         j \in abandoned \/ \E w \in Workers : handler[w].pc \in Working /\ handler[w].job = j

(* A terminal state is final: neither a late handler nor a cancel          *)
(* overwrites the outcome.                                                 *)
TerminalIsFinal ==
  [][\A j \in Jobs : row[j] \in Terminal => row'[j] = row[j]]_vars

(* A job's outcome is announced once, by the one handler that rendered it, *)
(* with an artifact where it succeeded; and a job that nobody works on is  *)
(* queued, ended, or one the code knows it has given up (consumer.go,      *)
(* queue.go, store/tx.go).                                                 *)
JobsAreAccounted ==
  TypeOK /\ OutcomeIsPublishedOnce /\ OneRenderer /\ SucceededHasArtifact /\ NoSilentStall

(* A job whose row is there when its task waits reaches an outcome, unless *)
(* a fault strikes its handler or its retries run out.                     *)
JobsEnd ==
  \A j \in Jobs : row[j] = "queued" /\ task[j].at = "pending"
    ~> row[j] \in Terminal \/ j \in abandoned \/ task[j].at = "archived"
=============================================================================
