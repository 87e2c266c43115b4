-------------------------- MODULE ReportJobs_proofs --------------------------
(***************************************************************************)
(* For any jobs, handlers, retries and faults: an export job has one       *)
(* outcome, published once by the one handler that rendered it, and no     *)
(* open job is forgotten without a reason (JobsAreAccounted); an outcome   *)
(* is final (TerminalIsFinal).                                             *)
(*                                                                         *)
(* The row and the task are written by different steps, so the invariant   *)
(* has to tie both to the request that made them and to the handlers at    *)
(* work: Rows does it for the row, Tasks for the task.                     *)
(***************************************************************************)
EXTENDS ReportJobs, TLAPS

works(w, j) == handler[w].pc \in Working /\ handler[w].job = j

(* There is a row just when the request was accepted, and a handler past   *)
(* MarkRunning has moved it on from queued.                                *)
Rows ==
  /\ \A j \in Jobs : row[j] # "none" <=> request[j] = "accepted"
  /\ \A w \in Workers :
       /\ handler[w].pc # "idle" => handler[w].job \in Jobs
       /\ handler[w].pc \in Working => row[handler[w].job] \notin {"none", "queued"}

(* The task of a job whose row is still to be inserted, or is queued.      *)
Tasks ==
  \A j \in Jobs : request[j] = "enqueued" \/ row[j] = "queued" =>
    task[j].at \in {"pending", "active", "archived"} \/ j \in missed

(* A handler that asks for the URL, or closes the job, has uploaded.       *)
Uploaded ==
  \A w \in Workers : handler[w].pc \in {"presign", "finish"} => handler[w].job \in objects

(* A running row has its handler, unless a fault took it.                  *)
Attended ==
  \A j \in Jobs : row[j] = "running" => j \in abandoned \/ \E w \in Workers : works(w, j)

IInv ==
  /\ TypeOK /\ Rows /\ Tasks /\ Uploaded /\ Attended
  /\ OutcomeIsPublishedOnce /\ OneRenderer /\ SucceededHasArtifact

-----------------------------------------------------------------------------
(* Tasks and handlers.                                                     *)

(* A retry puts the task back, or archives it.                             *)
LEMMA Retries ==
  ASSUME NEW t \in Task
  PROVE  afterRetry(t) \in Task /\ afterRetry(t).at \in {"pending", "archived"}
<1>1. CASE t.retried < MaxRetry
  <2>1. t.retried + 1 \in 0 .. MaxRetry
    BY <1>1, ReportAssumption DEF Task
  <2>2. QED
    BY <1>1, <2>1, Zenon DEF afterRetry, Task
<1>2. CASE ~ (t.retried < MaxRetry)
  BY <1>2, Zenon DEF afterRetry, Task
<1>3. QED
  BY <1>1, <1>2, Zenon

(* What a handler returns touches its own task at most, and only an        *)
(* acknowledgement ends it.                                                *)
LEMMA Settles ==
  ASSUME TypeOK, NEW h \in Handler, NEW answer \in {"ack", "skip", "err"}, settle(h, answer)
  PROVE  /\ task' \in [Jobs -> Task]
         /\ \A j \in Jobs : \/ task'[j] = task[j]
                            \/ task'[j].at \in {"pending", "archived"}
                            \/ answer = "ack" /\ j = h.job
<1>1. task \in [Jobs -> Task]
  BY Zenon DEF TypeOK
<1>2. CASE task' = task
  BY <1>1, <1>2, Zenon
<1>3. CASE task' # task
  <2> DEFINE t == task[h.job]
             x == CASE answer = "ack"  -> [ t EXCEPT !.at = "done" ]
                    [] answer = "skip" -> [ t EXCEPT !.at = "archived" ]
                    [] answer = "err"  -> afterRetry(t)
  <2>1. task' = [task EXCEPT ![h.job] = x]
    BY <1>3, Zenon DEF settle
  <2>2. h.job \in Jobs
    BY <1>1, <1>3, <2>1, Zenon
  <2>3. t \in Task
    BY <1>1, <2>2, Zenon
  <2>4. x \in Task /\ (x.at \in {"pending", "archived"} \/ answer = "ack")
    <3>1. CASE answer = "ack"
      <4>1. x = [ t EXCEPT !.at = "done" ]
        BY <3>1, Zenon
      <4>2. QED
        BY <2>3, <3>1, <4>1, Zenon DEF Task
    <3>2. CASE answer = "skip"
      <4>1. x = [ t EXCEPT !.at = "archived" ]
        BY <3>2, Zenon
      <4>2. QED
        BY <2>3, <4>1, Zenon DEF Task
    <3>3. CASE answer = "err"
      <4>1. x = afterRetry(t)
        BY <3>3, Zenon
      <4>2. QED
        BY <2>3, <4>1, Retries, Zenon
    <3>4. QED
      BY <3>1, <3>2, <3>3, Zenon
  <2> HIDE DEF x
  <2>5. /\ task'[h.job] = x /\ \A j \in Jobs \ {h.job} : task'[j] = task[j]
        /\ task' \in [Jobs -> Task]
    BY <1>1, <2>1, <2>2, <2>4, Zenon
  <2>6. QED
    BY <2>4, <2>5, Zenon
<1>4. QED
  BY <1>2, <1>3, Zenon

(* A handler that moves on keeps its delivery.                             *)
LEMMA Goto ==
  ASSUME TypeOK, NEW w \in Workers, NEW pc \in PCs, goto(w, pc)
  PROVE  /\ handler' \in [Workers -> Handler]
         /\ handler'[w].pc = pc /\ handler'[w].job = handler[w].job
         /\ \A v \in Workers \ {w} : handler'[v] = handler[v]
<1>1. handler \in [Workers -> Handler] /\ handler[w] \in Handler
  BY Zenon DEF TypeOK
<1>2. handler' = [handler EXCEPT ![w] = [handler[w] EXCEPT !.pc = pc]]
  BY Zenon DEF goto
<1>3. /\ [handler[w] EXCEPT !.pc = pc] \in Handler
      /\ [handler[w] EXCEPT !.pc = pc].pc = pc
      /\ [handler[w] EXCEPT !.pc = pc].job = handler[w].job
  BY <1>1, Zenon DEF Handler
<1>4. QED
  BY <1>1, <1>2, <1>3, Zenon

(* A handler that returns is idle.                                         *)
LEMMA Returns ==
  ASSUME TypeOK, NEW w \in Workers, NEW answer \in {"ack", "skip", "err"}, Return(w, answer)
  PROVE  /\ handler' \in [Workers -> Handler] /\ handler'[w].pc = "idle"
         /\ \A v \in Workers \ {w} : handler'[v] = handler[v]
         /\ task' \in [Jobs -> Task]
         /\ \A j \in Jobs : \/ task'[j] = task[j]
                            \/ task'[j].at \in {"pending", "archived"}
                            \/ answer = "ack" /\ j = handler[w].job
<1>1. handler \in [Workers -> Handler] /\ handler[w] \in Handler
  BY Zenon DEF TypeOK
<1>2. IdleHandler \in Handler /\ IdleHandler.pc = "idle"
  BY ReportAssumption DEF IdleHandler, Handler, PCs
<1>3. handler' = [handler EXCEPT ![w] = IdleHandler] /\ settle(handler[w], answer)
  BY Zenon DEF Return
<1>4. /\ handler' \in [Workers -> Handler] /\ handler'[w].pc = "idle"
      /\ \A v \in Workers \ {w} : handler'[v] = handler[v]
  BY <1>1, <1>2, <1>3, Zenon
<1>5. QED
  BY <1>1, <1>3, <1>4, Settles, Zenon

-----------------------------------------------------------------------------
(* The steps of the HTTP side and of asynq.                                *)

(* Nothing has happened to a job yet: Init.                                *)
LEMMA InitIInv == Init => IInv
<1> SUFFICES ASSUME Init PROVE IInv
  BY Zenon
<1>1. TypeOK
  BY ReportAssumption DEF Init, TypeOK, Requests, RowStates, Task, Handler, IdleHandler, PCs
<1>2. Rows /\ Uploaded /\ OneRenderer
  BY Zenon DEF Init, Rows, Uploaded, OneRenderer, IdleHandler, Working, PCs
<1>3. Tasks /\ Attended /\ OutcomeIsPublishedOnce /\ SucceededHasArtifact
  BY Zenon DEF Init, Tasks, Attended, OutcomeIsPublishedOnce, SucceededHasArtifact
<1>4. QED
  BY <1>1, <1>2, <1>3, Zenon DEF IInv

(* A fault stays within the bound.                                         *)
LEMMA Faults ==
  ASSUME TypeOK, fault \/ UNCHANGED faults
  PROVE  faults' \in 0 .. MaxFaults
BY ReportAssumption DEF fault, TypeOK

(* The synchronous export, its audit included (RunRender, RunAudit).       *)
LEMMA RunStep ==
  ASSUME IInv, NEW j \in Jobs, RunRender(j) \/ RunAudit(j)
  PROVE  IInv'
<1> USE DEF IInv
<1>1. /\ UNCHANGED <<row, task, handler, objects, ready, missed, abandoned>>
      /\ fault \/ UNCHANGED faults
  BY Zenon DEF RunRender, RunAudit
<1>2. request[j] \in {"new", "rendered"} /\ row[j] = "none" /\ audit[j] = 0
  BY Zenon DEF RunRender, RunAudit, Rows, OutcomeIsPublishedOnce, TypeOK
<1>3. PICK answer \in {"rendered", "delivered", "error"} :
        /\ request' = [request EXCEPT ![j] = answer]
        /\ IF answer = "delivered" THEN audit' = [audit EXCEPT ![j] = @ + 1] ELSE audit' = audit
  BY Zenon DEF RunRender, RunAudit
<1>4. TypeOK'
  BY <1>1, <1>3, Faults DEF TypeOK, Requests
<1>5. /\ request'[j] = answer /\ \A i \in Jobs \ {j} : request'[i] = request[i]
      /\ audit'[j] = (IF answer = "delivered" THEN 1 ELSE 0)
      /\ \A i \in Jobs \ {j} : audit'[i] = audit[i]
  BY <1>2, <1>3 DEF TypeOK
<1>6. Rows' /\ Tasks'
  BY <1>1, <1>2, <1>5, Zenon DEF Rows, Tasks
<1>7. OutcomeIsPublishedOnce'
  BY <1>1, <1>2, <1>5, Zenon DEF OutcomeIsPublishedOnce
<1>8. Uploaded' /\ Attended' /\ OneRenderer' /\ SucceededHasArtifact'
  BY <1>1, Zenon DEF Uploaded, Attended, works, OneRenderer, SucceededHasArtifact
<1>9. QED
  BY <1>4, <1>6, <1>7, <1>8, Zenon

(* The task is queued before the row is inserted (EnqueueTask).            *)
LEMMA EnqueueStep ==
  ASSUME IInv, NEW j \in Jobs, EnqueueTask(j)
  PROVE  IInv'
<1> USE DEF IInv
<1>1. /\ UNCHANGED <<row, handler, objects, audit, ready, missed, abandoned>>
      /\ fault \/ UNCHANGED faults
  BY Zenon DEF EnqueueTask
<1>2. request[j] = "new" /\ row[j] = "none"
  BY Zenon DEF EnqueueTask, Rows
<1>3. PICK answer \in {"enqueued", "error"} : request' = [request EXCEPT ![j] = answer]
  BY Zenon DEF EnqueueTask
<1>4. task' = [task EXCEPT ![j].at = "pending"] \/ (task' = task /\ request'[j] = "error")
  BY Zenon DEF EnqueueTask, TypeOK
<1>5. /\ task' \in [Jobs -> Task] /\ \A i \in Jobs \ {j} : task'[i] = task[i]
      /\ task'[j].at = "pending" \/ request'[j] = "error"
  <2> DEFINE t == [task[j] EXCEPT !.at = "pending"]
  <2>1. t \in Task /\ t.at = "pending"
    BY Zenon DEF TypeOK, Task
  <2>2. task' = [task EXCEPT ![j] = t] \/ (task' = task /\ request'[j] = "error")
    BY <1>4, Zenon
  <2> HIDE DEF t
  <2>3. QED
    BY <2>1, <2>2, Zenon DEF TypeOK
<1>6. request'[j] = answer /\ \A i \in Jobs \ {j} : request'[i] = request[i]
  BY <1>3, Zenon DEF TypeOK
<1>7. TypeOK'
  BY <1>1, <1>3, <1>5, Faults, Zenon DEF TypeOK, Requests
<1>8. Rows'
  BY <1>1, <1>2, <1>6, Zenon DEF Rows
<1>9. Tasks'
  BY <1>1, <1>2, <1>5, <1>6, Zenon DEF Tasks
<1>10. OutcomeIsPublishedOnce'
  BY <1>1, <1>2, <1>6, Zenon DEF OutcomeIsPublishedOnce
<1>11. Uploaded' /\ Attended' /\ OneRenderer' /\ SucceededHasArtifact'
  BY <1>1, Zenon DEF Uploaded, Attended, works, OneRenderer, SucceededHasArtifact
<1>12. QED
  BY <1>7, <1>8, <1>9, <1>10, <1>11, Zenon

(* The row is inserted, or the request fails (Create).                     *)
LEMMA CreateStep ==
  ASSUME IInv, NEW j \in Jobs, Create(j)
  PROVE  IInv'
<1> USE DEF IInv
<1>1. /\ UNCHANGED <<task, handler, objects, audit, ready, missed, abandoned>>
      /\ fault \/ UNCHANGED faults
  BY Zenon DEF Create
<1>2. request[j] = "enqueued" /\ row[j] = "none"
  BY Zenon DEF Create, Rows
<1>3. \/ request'[j] = "accepted" /\ row'[j] = "queued"
      \/ request'[j] = "error" /\ row'[j] = "none"
  BY <1>2, Zenon DEF Create, TypeOK
<1>4. \A i \in Jobs \ {j} : request'[i] = request[i] /\ row'[i] = row[i]
  BY Zenon DEF Create, TypeOK
<1>5. request' \in [Jobs -> Requests] /\ row' \in [Jobs -> RowStates \cup {"none"}]
  BY Zenon DEF Create, TypeOK, Requests, RowStates
<1>6. TypeOK'
  BY <1>1, <1>5, Faults, Zenon DEF TypeOK
<1>7. Rows'
  <2>1. \A w \in Workers : handler[w].pc \in Working => handler[w].job # j
    BY <1>2, Zenon DEF Rows
  <2>2. QED
    BY <1>1, <1>2, <1>3, <1>4, <2>1, Zenon DEF Rows, Working
<1>8. Tasks'
  BY <1>1, <1>2, <1>3, <1>4, Zenon DEF Tasks
<1>9. OutcomeIsPublishedOnce' /\ SucceededHasArtifact'
  BY <1>1, <1>2, <1>3, <1>4, Zenon DEF OutcomeIsPublishedOnce, SucceededHasArtifact
<1>10. Uploaded' /\ OneRenderer'
  BY <1>1, Zenon DEF Uploaded, OneRenderer
<1>11. Attended'
  BY <1>1, <1>3, <1>4, Zenon DEF Attended, works
<1>12. QED
  BY <1>6, <1>7, <1>8, <1>9, <1>10, <1>11, Zenon

(* An open row is canceled, whoever is at work on it (Cancel).             *)
LEMMA CancelStep ==
  ASSUME IInv, NEW j \in Jobs, Cancel(j)
  PROVE  IInv'
<1> USE DEF IInv
<1>1. UNCHANGED <<request, task, handler, objects, audit, ready, faults, missed, abandoned>>
  BY Zenon DEF Cancel
<1>2. row[j] \in {"queued", "running"}
  BY Zenon DEF Cancel, Open
<1>3. row'[j] = "canceled" /\ \A i \in Jobs \ {j} : row'[i] = row[i]
  BY Zenon DEF Cancel, TypeOK
<1>4. TypeOK'
  BY <1>1, Zenon DEF Cancel, TypeOK, RowStates
<1>5. Rows'
  BY <1>1, <1>2, <1>3, Zenon DEF Rows, Working
<1>6. Tasks' /\ OutcomeIsPublishedOnce' /\ SucceededHasArtifact'
  BY <1>1, <1>2, <1>3 DEF Tasks, OutcomeIsPublishedOnce, SucceededHasArtifact, Rows
<1>7. Uploaded' /\ OneRenderer'
  BY <1>1, Zenon DEF Uploaded, OneRenderer
<1>8. Attended'
  BY <1>1, <1>3, Zenon DEF Attended, works
<1>9. QED
  BY <1>4, <1>5, <1>6, <1>7, <1>8, Zenon

(* A lease runs out: the task waits again or is archived (LeaseExpires).   *)
LEMMA LeaseStep ==
  ASSUME IInv, NEW j \in Jobs, LeaseExpires(j)
  PROVE  IInv'
<1> USE DEF IInv
<1>1. /\ UNCHANGED <<request, row, handler, objects, audit, ready, missed, abandoned>>
      /\ fault \/ UNCHANGED faults
  BY Zenon DEF LeaseExpires
<1>2. task' = [task EXCEPT ![j] = afterRetry(task[j])]
  BY Zenon DEF LeaseExpires
<1>3. afterRetry(task[j]) \in Task /\ afterRetry(task[j]).at \in {"pending", "archived"}
  BY Retries, Zenon DEF TypeOK
<1>4. /\ task' \in [Jobs -> Task] /\ task'[j].at \in {"pending", "archived"}
      /\ \A i \in Jobs \ {j} : task'[i] = task[i]
  BY <1>2, <1>3, Zenon DEF TypeOK
<1>5. TypeOK'
  BY <1>1, <1>4, Faults, Zenon DEF TypeOK
<1>6. Tasks'
  BY <1>1, <1>4, Zenon DEF Tasks
<1>7. Rows' /\ OutcomeIsPublishedOnce' /\ SucceededHasArtifact'
  BY <1>1, Zenon DEF Rows, OutcomeIsPublishedOnce, SucceededHasArtifact
<1>8. Uploaded' /\ Attended' /\ OneRenderer'
  BY <1>1, Zenon DEF Uploaded, Attended, works, OneRenderer
<1>9. QED
  BY <1>5, <1>6, <1>7, <1>8, Zenon

(* A handler fetches a waiting task (Deliver).                             *)
LEMMA DeliverStep ==
  ASSUME IInv, NEW w \in Workers, NEW j \in Jobs, Deliver(w, j)
  PROVE  IInv'
<1> USE DEF IInv
<1>1. UNCHANGED <<request, row, objects, audit, ready, faults, missed, abandoned>>
  BY Zenon DEF Deliver
<1>2. /\ task' \in [Jobs -> Task] /\ task'[j].at = "active"
      /\ \A i \in Jobs \ {j} : task'[i] = task[i]
  BY Zenon DEF Deliver, TypeOK, Task
<1>3. [ pc |-> "mark", job |-> j, retried |-> task[j].retried ] \in Handler
  BY Zenon DEF TypeOK, Task, Handler, PCs
<1>4. /\ handler' \in [Workers -> Handler]
      /\ handler'[w].pc = "mark" /\ handler'[w].job = j
      /\ \A v \in Workers \ {w} : handler'[v] = handler[v]
  BY <1>3, Zenon DEF Deliver, TypeOK
<1>5. handler[w].pc = "idle"
  BY Zenon DEF Deliver
<1>6. TypeOK'
  BY <1>1, <1>2, <1>4, Zenon DEF TypeOK
<1>7. Rows'
  BY <1>1, <1>4, Zenon DEF Rows, Working
<1>8. Tasks'
  BY <1>1, <1>2, Zenon DEF Tasks
<1>9. OutcomeIsPublishedOnce' /\ SucceededHasArtifact'
  BY <1>1, Zenon DEF OutcomeIsPublishedOnce, SucceededHasArtifact
<1>10. Uploaded' /\ OneRenderer'
  BY <1>1, <1>4, Zenon DEF Uploaded, OneRenderer, Working
<1>11. Attended'
  <2>1. \A i \in Jobs, v \in Workers : works(v, i) => works(v, i)'
    BY <1>4, <1>5, Zenon DEF works, Working
  <2>2. QED
    BY <1>1, <2>1, Zenon DEF Attended
<1>12. QED
  BY <1>6, <1>7, <1>8, <1>9, <1>10, <1>11, Zenon

-----------------------------------------------------------------------------
(* The steps of a handler.                                                 *)

(* What the other handlers were doing, they still do.                      *)
LEMMA OthersWork ==
  ASSUME NEW w \in Workers, \A v \in Workers \ {w} : handler'[v] = handler[v],
         NEW v \in Workers, NEW j, works(v, j)
  PROVE  works(v, j)' \/ v = w
BY Zenon DEF works

(* A handler dies; the row it had moved on has nobody left (Crash).        *)
LEMMA CrashStep ==
  ASSUME IInv, NEW w \in Workers, Crash(w)
  PROVE  IInv'
<1> USE DEF IInv
<1>1. UNCHANGED <<request, row, task, objects, audit, ready, missed>> /\ fault
  BY Zenon DEF Crash
<1>2. /\ handler' \in [Workers -> Handler] /\ handler'[w].pc = "idle"
      /\ \A v \in Workers \ {w} : handler'[v] = handler[v]
  BY ReportAssumption DEF Crash, TypeOK, IdleHandler, Handler, PCs
<1>3. handler[w].job \in Jobs
  BY Zenon DEF Crash, Rows
<1>4. /\ abandoned' \subseteq Jobs /\ abandoned \subseteq abandoned'
      /\ handler[w].pc \in Working => handler[w].job \in abandoned'
  BY <1>3, Zenon DEF Crash, TypeOK
<1>5. TypeOK'
  BY <1>1, <1>2, <1>4, Faults, Zenon DEF TypeOK
<1>6. Rows' /\ Uploaded' /\ OneRenderer'
  BY <1>1, <1>2 DEF Rows, Uploaded, OneRenderer, Working
<1>7. Tasks' /\ OutcomeIsPublishedOnce' /\ SucceededHasArtifact'
  BY <1>1, Zenon DEF Tasks, OutcomeIsPublishedOnce, SucceededHasArtifact
<1>8. Attended'
  <2> SUFFICES ASSUME NEW j \in Jobs, row[j] = "running", j \notin abandoned'
               PROVE  \E v \in Workers : works(v, j)'
    BY <1>1, Zenon DEF Attended
  <2>1. PICK v \in Workers : works(v, j)
    BY <1>4, Zenon DEF Attended
  <2>2. v # w
    BY <1>4, <2>1, Zenon DEF works
  <2>3. QED
    BY <1>2, <2>1, <2>2, OthersWork, Zenon
<1>9. QED
  BY <1>5, <1>6, <1>7, <1>8, Zenon

(* Of the handlers that hold a delivery of a job, one finds its row queued *)
(* and goes on; the others acknowledge or retry (MarkRunning).             *)
LEMMA MarkStep ==
  ASSUME IInv, NEW w \in Workers, MarkRunning(w)
  PROVE  IInv'
<1> USE DEF IInv
<1> DEFINE j == handler[w].job
<1>1. /\ UNCHANGED <<request, objects, audit, ready, abandoned>>
      /\ fault \/ UNCHANGED faults
  BY Zenon DEF MarkRunning
<1>2. handler[w].pc = "mark" /\ j \in Jobs
  BY Zenon DEF MarkRunning, Rows
<1> HIDE DEF j
<1>3. CASE row[j] = "queued" /\ row' = [row EXCEPT ![j] = "running"] /\ goto(w, "render")
           /\ UNCHANGED <<task, missed, faults>>
  <2>1. /\ handler' \in [Workers -> Handler]
        /\ handler'[w].pc = "render" /\ handler'[w].job = j
        /\ \A v \in Workers \ {w} : handler'[v] = handler[v]
    BY <1>3, Goto, Zenon DEF j, PCs
  <2>2. row'[j] = "running" /\ \A i \in Jobs \ {j} : row'[i] = row[i]
    BY <1>2, <1>3, Zenon DEF TypeOK
  <2>3. TypeOK'
    BY <1>1, <1>3, <2>1, Zenon DEF TypeOK, RowStates
  <2>4. \A v \in Workers : ~ works(v, j)
    BY <1>2, <1>3, Zenon DEF Rows, works
  <2>5. Rows'
    <3>1. request[j] = "accepted"
      BY <1>2, <1>3, Zenon DEF Rows
    <3>2. \A i \in Jobs : row'[i] # "none" <=> request'[i] = "accepted"
      BY <1>1, <1>2, <2>2, <3>1, Zenon DEF Rows
    <3>3. \A v \in Workers \ {w} : handler[v].pc \in Working => handler[v].job # j
      BY <2>4, Zenon DEF works
    <3>4. \A v \in Workers \ {w} :
            /\ handler'[v].pc # "idle" => handler'[v].job \in Jobs
            /\ handler'[v].pc \in Working => row'[handler'[v].job] \notin {"none", "queued"}
      BY <2>1, <2>2, <3>3 DEF Rows, Working
    <3>5. QED
      BY <1>2, <2>1, <2>2, <3>2, <3>4, Zenon DEF Rows
  <2>6. Tasks'
    BY <1>1, <1>2, <1>3, <2>2, Zenon DEF Tasks, Rows
  <2>7. OutcomeIsPublishedOnce' /\ SucceededHasArtifact'
    BY <1>1, <1>2, <1>3, <2>2, Zenon DEF OutcomeIsPublishedOnce, SucceededHasArtifact
  <2>8. Uploaded'
    BY <1>1, <2>1, Zenon DEF Uploaded
  <2>9. OneRenderer'
    BY <2>1, <2>4, ZenonT(40) DEF OneRenderer, works
  <2>10. \A i \in Jobs : i = j => works(w, i)'
    BY <2>1, Zenon DEF works, Working, PCs
  <2>11. \A i \in Jobs, v \in Workers : works(v, i) => works(v, i)'
    BY <1>2, <2>1, Zenon DEF works, Working
  <2>12. Attended'
    <3> SUFFICES ASSUME NEW i \in Jobs, row'[i] = "running"
                 PROVE  i \in abandoned' \/ \E v \in Workers : works(v, i)'
      BY Zenon DEF Attended
    <3>1. CASE i = j
      BY <2>10, <3>1, Zenon
    <3>2. CASE i # j
      BY <1>1, <2>2, <2>11, <3>2, Zenon DEF Attended
    <3>3. QED
      BY <3>1, <3>2, Zenon
  <2>13. QED
    BY <2>3, <2>5, <2>6, <2>7, <2>8, <2>9, <2>12, Zenon
<1>4. CASE /\ UNCHANGED row /\ missed \subseteq missed' /\ missed' \subseteq Jobs
           /\ \E answer \in {"ack", "err"} :
                /\ Return(w, answer)
                /\ answer = "ack" => row[j] # "queued" /\ (row[j] = "none" => j \in missed')
  <2>1. PICK answer \in {"ack", "err"} :
          /\ Return(w, answer)
          /\ answer = "ack" => row[j] # "queued" /\ (row[j] = "none" => j \in missed')
    BY <1>4, Zenon
  <2>2. /\ handler' \in [Workers -> Handler] /\ handler'[w].pc = "idle"
        /\ \A v \in Workers \ {w} : handler'[v] = handler[v]
        /\ task' \in [Jobs -> Task]
        /\ \A i \in Jobs : \/ task'[i] = task[i]
                           \/ task'[i].at \in {"pending", "archived"}
                           \/ answer = "ack" /\ i = j
    BY <2>1, Returns, Zenon DEF j
  <2>3. TypeOK'
    BY <1>1, <1>4, <2>2, Faults, Zenon DEF TypeOK
  <2>4. Rows' /\ Uploaded' /\ OneRenderer'
    BY <1>1, <1>4, <2>2 DEF Rows, Uploaded, OneRenderer, Working
  <2>5. Tasks'
    <3> SUFFICES ASSUME NEW i \in Jobs, request[i] = "enqueued" \/ row[i] = "queued"
                 PROVE  task'[i].at \in {"pending", "active", "archived"} \/ i \in missed'
      BY <1>1, <1>4, Zenon DEF Tasks
    <3>1. task[i].at \in {"pending", "active", "archived"} \/ i \in missed'
      BY <1>4, Zenon DEF Tasks
    <3>2. row[i] \in {"none", "queued"}
      BY Zenon DEF Rows
    <3>3. CASE answer = "ack" /\ i = j
      BY <2>1, <3>2, <3>3, Zenon
    <3>4. QED
      BY <2>2, <3>1, <3>3, Zenon
  <2>6. OutcomeIsPublishedOnce' /\ SucceededHasArtifact'
    BY <1>1, <1>4, Zenon DEF OutcomeIsPublishedOnce, SucceededHasArtifact
  <2>7. \A i \in Jobs, v \in Workers : works(v, i) => works(v, i)'
    BY <1>2, <2>2, Zenon DEF works, Working
  <2>8. Attended'
    BY <1>1, <1>4, <2>7, Zenon DEF Attended
  <2>9. QED
    BY <2>3, <2>4, <2>5, <2>6, <2>8, Zenon
<1>5. QED
  <2>1. missed \subseteq Jobs
    BY Zenon DEF TypeOK
  <2>2. \/ row[j] = "queued" /\ row' = [row EXCEPT ![j] = "running"] /\ goto(w, "render")
           /\ UNCHANGED <<task, missed, faults>>
        \/ /\ row[j] # "queued" /\ Return(w, "ack") /\ UNCHANGED row
           /\ missed' = IF row[j] = "none" THEN missed \cup {j} ELSE missed
        \/ Return(w, "err") /\ UNCHANGED <<row, missed>>
    BY Zenon DEF MarkRunning, j
  <2>3. CASE /\ row[j] # "queued" /\ Return(w, "ack") /\ UNCHANGED row
             /\ missed' = IF row[j] = "none" THEN missed \cup {j} ELSE missed
    BY <1>2, <1>4, <2>1, <2>3, Zenon
  <2>4. CASE Return(w, "err") /\ UNCHANGED <<row, missed>>
    BY <1>4, <2>1, <2>4, Zenon
  <2>5. QED
    BY <1>3, <2>2, <2>3, <2>4, Zenon

(* Rendering, uploading and signing keep the handler at its job, and only  *)
(* an upload that succeeded leads to the URL (Render, Put, PresignedURL).  *)
LEMMA WorkStep ==
  ASSUME IInv, NEW w \in Workers, Render(w) \/ Put(w) \/ PresignedURL(w)
  PROVE  IInv'
<1> USE DEF IInv
<1>1. /\ UNCHANGED <<request, row, task, audit, ready, missed, abandoned>>
      /\ fault \/ UNCHANGED faults
  BY Zenon DEF Render, Put, PresignedURL
<1>2. handler[w].pc \in Working /\ handler[w].job \in Jobs
  BY Zenon DEF Render, Put, PresignedURL, Rows, Working, PCs
<1>3. PICK pc \in Working :
        /\ goto(w, pc) /\ objects \subseteq objects' /\ objects' \subseteq Jobs
        /\ pc \in {"presign", "finish"} => handler[w].job \in objects'
  BY <1>2 DEF Render, Put, PresignedURL, Working, PCs, Uploaded, TypeOK
<1>4. /\ handler' \in [Workers -> Handler]
      /\ handler'[w].pc = pc /\ handler'[w].job = handler[w].job
      /\ \A v \in Workers \ {w} : handler'[v] = handler[v]
  BY <1>3, Goto, Zenon DEF Working
<1>5. TypeOK'
  BY <1>1, <1>3, <1>4, Faults, Zenon DEF TypeOK
<1>6. \A v \in Workers : /\ handler'[v].job = handler[v].job
                         /\ handler'[v].pc \in Working <=> handler[v].pc \in Working
                         /\ handler'[v].pc # "idle" <=> handler[v].pc # "idle"
  BY <1>2, <1>3, <1>4, Zenon DEF Working
<1>7. Rows' /\ OneRenderer'
  BY <1>1, <1>6, Zenon DEF Rows, OneRenderer
<1>8. Uploaded'
  BY <1>3, <1>4, Zenon DEF Uploaded
<1>9. Tasks' /\ OutcomeIsPublishedOnce' /\ SucceededHasArtifact'
  BY <1>1, <1>3, Zenon DEF Tasks, OutcomeIsPublishedOnce, SucceededHasArtifact
<1>10. \A i \in Jobs, v \in Workers : works(v, i) => works(v, i)'
  BY <1>6, Zenon DEF works
<1>11. Attended'
  BY <1>1, <1>10, Zenon DEF Attended
<1>12. QED
  BY <1>5, <1>7, <1>8, <1>9, <1>11, Zenon

(* Closing a job: the outcome and its events are one transaction, and it   *)
(* finds the row open or leaves it (MarkSucceeded, markFailed).            *)
LEMMA CloseStep ==
  ASSUME IInv, NEW w \in Workers, MarkSucceeded(w) \/ markFailed(w)
  PROVE  IInv'
<1> USE DEF IInv
<1> DEFINE j == handler[w].job
<1>1. UNCHANGED <<request, objects, missed>> /\ (fault \/ UNCHANGED faults)
  BY Zenon DEF MarkSucceeded, markFailed, rollback
<1>2. /\ handler[w].pc \in Working /\ j \in Jobs /\ row[j] \notin {"none", "queued"}
      /\ request[j] = "accepted"
  BY Zenon DEF MarkSucceeded, markFailed, Rows, Working, PCs
<1>3. PICK answer \in {"ack", "skip", "err"} : Return(w, answer)
  BY Zenon DEF MarkSucceeded, markFailed
<1> HIDE DEF j
<1>4. /\ handler' \in [Workers -> Handler] /\ handler'[w].pc = "idle"
      /\ \A v \in Workers \ {w} : handler'[v] = handler[v]
      /\ task' \in [Jobs -> Task]
      /\ \A i \in Jobs : \/ task'[i] = task[i]
                         \/ task'[i].at \in {"pending", "archived"}
                         \/ answer = "ack" /\ i = j
  BY <1>3, Returns, Zenon DEF j
<1>5. /\ \/ /\ row[j] \in Open
            /\ row' = [row EXCEPT ![j] = "succeeded"] /\ j \in objects
            /\ audit' = [audit EXCEPT ![j] = @ + 1] /\ ready' = [ready EXCEPT ![j] = @ + 1]
            /\ UNCHANGED abandoned
         \/ /\ row[j] \in Open
            /\ row' = [row EXCEPT ![j] = "failed"]
            /\ audit' = [audit EXCEPT ![j] = @ + 1]
            /\ UNCHANGED <<ready, abandoned>>
         \/ row[j] \notin Open /\ UNCHANGED <<row, audit, ready, abandoned>>
         \/ UNCHANGED <<row, audit, ready>> /\ abandoned' = abandoned \cup {j}
  BY Zenon DEF MarkSucceeded, markFailed, rollback, j, Uploaded
<1>6. /\ \A i \in Jobs \ {j} : row'[i] = row[i] /\ audit'[i] = audit[i] /\ ready'[i] = ready[i]
      /\ row'[j] \notin {"none", "queued"}
      /\ row'[j] = "running" => j \in abandoned'
      /\ row'[j] = "succeeded" => j \in objects
      /\ abandoned \subseteq abandoned' /\ abandoned' \subseteq Jobs
  BY <1>2, <1>5, Zenon DEF TypeOK, Open, SucceededHasArtifact
<1>7. /\ audit'[j] = IF row'[j] \in {"succeeded", "failed"} THEN 1 ELSE 0
      /\ ready'[j] = IF row'[j] = "succeeded" THEN 1 ELSE 0
  <2>1. /\ audit[j] = IF row[j] \in {"succeeded", "failed"} THEN 1 ELSE 0
        /\ ready[j] = IF row[j] = "succeeded" THEN 1 ELSE 0
    BY <1>2, Zenon DEF OutcomeIsPublishedOnce
  <2>2. QED
    BY <1>2, <1>5, <2>1 DEF TypeOK, Open
<1>8. TypeOK'
  <2>1. row' \in [Jobs -> RowStates \cup {"none"}] /\ audit' \in [Jobs -> Nat]
        /\ ready' \in [Jobs -> Nat]
    BY <1>5 DEF TypeOK, RowStates
  <2>2. QED
    BY <1>1, <1>4, <1>6, <2>1, Faults, Zenon DEF TypeOK
<1>9. Rows'
  <2>1. \A i \in Jobs : row'[i] # "none" <=> request'[i] = "accepted"
    BY <1>1, <1>2, <1>6, Zenon DEF Rows
  <2>2. \A v \in Workers \ {w} :
          /\ handler'[v].pc # "idle" => handler'[v].job \in Jobs
          /\ handler'[v].pc \in Working => row'[handler'[v].job] \notin {"none", "queued"}
    BY <1>4, <1>6 DEF Rows, Working
  <2>3. QED
    BY <1>4, <2>1, <2>2, Zenon DEF Rows, Working
<1>10. Tasks'
  BY <1>1, <1>2, <1>4, <1>6, Zenon DEF Tasks
<1>11. Uploaded' /\ OneRenderer'
  BY <1>1, <1>4 DEF Uploaded, OneRenderer, Working
<1>12. OutcomeIsPublishedOnce'
  BY <1>1, <1>2, <1>6, <1>7, ZenonT(40) DEF OutcomeIsPublishedOnce
<1>13. SucceededHasArtifact'
  BY <1>1, <1>6, Zenon DEF SucceededHasArtifact
<1>14. Attended'
  <2> SUFFICES ASSUME NEW i \in Jobs, row'[i] = "running", i \notin abandoned'
               PROVE  \E v \in Workers : works(v, i)'
    BY Zenon DEF Attended
  <2>1. i # j /\ row[i] = "running" /\ i \notin abandoned
    BY <1>6, Zenon
  <2>2. PICK v \in Workers : works(v, i)
    BY <2>1, Zenon DEF Attended
  <2>3. v # w
    BY <2>1, <2>2, Zenon DEF works, j
  <2>4. QED
    BY <1>4, <2>2, <2>3, OthersWork, Zenon
<1>15. QED
  BY <1>8, <1>9, <1>10, <1>11, <1>12, <1>13, <1>14, Zenon

-----------------------------------------------------------------------------
(* Every step keeps the invariant.                                         *)
LEMMA NextIInv == IInv /\ [Next]_vars => IInv'
<1> SUFFICES ASSUME IInv, [Next]_vars PROVE IInv'
  BY Zenon
<1>1. ASSUME NEW j \in Jobs, RunRender(j) \/ RunAudit(j) PROVE IInv'
  BY <1>1, RunStep, Zenon
<1>2. ASSUME NEW j \in Jobs, EnqueueTask(j) \/ Create(j) PROVE IInv'
  BY <1>2, EnqueueStep, CreateStep, Zenon
<1>3. ASSUME NEW j \in Jobs, Cancel(j) \/ LeaseExpires(j) PROVE IInv'
  BY <1>3, CancelStep, LeaseStep, Zenon
<1>4. ASSUME NEW w \in Workers, Crash(w) \/ MarkRunning(w) PROVE IInv'
  BY <1>4, CrashStep, MarkStep, Zenon
<1>5. ASSUME NEW w \in Workers, Render(w) \/ Put(w) \/ PresignedURL(w) PROVE IInv'
  BY <1>5, WorkStep, Zenon
<1>6. ASSUME NEW w \in Workers, MarkSucceeded(w) \/ markFailed(w) PROVE IInv'
  BY <1>6, CloseStep, Zenon
<1>7. ASSUME NEW w \in Workers, NEW j \in Jobs, Deliver(w, j) PROVE IInv'
  BY <1>7, DeliverStep, Zenon
<1>8. CASE UNCHANGED vars
  BY <1>8, Zenon DEF vars, IInv, TypeOK, Rows, Tasks, Uploaded, Attended, works,
              OutcomeIsPublishedOnce, OneRenderer, SucceededHasArtifact
<1>9. QED
  BY <1>1, <1>2, <1>3, <1>4, <1>5, <1>6, <1>7, <1>8, Zenon DEF Next, handleJobRun

(* The invariant holds in every state that requests, handlers, faults and  *)
(* redeliveries reach.                                                     *)
THEOREM ReportInvariance == Spec => []IInv
BY InitIInv, NextIInv, PTL DEF Spec

(* An export job has one outcome, audited and announced once, by the one   *)
(* handler MarkRunningTx let through, with its artifact in the bucket; and *)
(* an open row has a task or a handler unless it was missed or abandoned.  *)
THEOREM JobsAreKept == Spec => []JobsAreAccounted
<1>1. IInv => JobsAreAccounted
  BY Zenon DEF IInv, JobsAreAccounted, NoSilentStall, Tasks, Attended, works
<1>2. QED
  BY <1>1, ReportInvariance, PTL

(* No step overwrites an outcome: not a late handler, not a cancel, not a  *)
(* second delivery (the WHERE state IN clauses of store/tx.go).            *)
THEOREM OutcomesAreFinal == Spec => TerminalIsFinal
<1> DEFINE A == \A j \in Jobs : row[j] \in Terminal => row'[j] = row[j]
<1>1. IInv /\ Next => A
  <2> SUFFICES ASSUME IInv, Next, NEW j \in Jobs, row[j] \in Terminal
               PROVE  row'[j] = row[j]
    BY Zenon
  <2>1. row \in [Jobs -> RowStates \cup {"none"}] /\ row[j] \notin {"none", "queued", "running"}
    BY Zenon DEF IInv, TypeOK, Terminal
  <2>2. CASE \E i \in Jobs : RunRender(i) \/ RunAudit(i) \/ EnqueueTask(i) \/ LeaseExpires(i)
    BY <2>2, Zenon DEF RunRender, RunAudit, EnqueueTask, LeaseExpires
  <2>3. ASSUME NEW i \in Jobs, Create(i) PROVE row'[j] = row[j]
    <3>1. row[i] = "none"
      BY <2>3, Zenon DEF Create, IInv, Rows
    <3>2. QED
      BY <2>1, <2>3, <3>1, Zenon DEF Create
  <2>4. ASSUME NEW i \in Jobs, Cancel(i) PROVE row'[j] = row[j]
    BY <2>1, <2>4, Zenon DEF Cancel, Open
  <2>5. ASSUME NEW w \in Workers, Crash(w) \/ Render(w) \/ Put(w) \/ PresignedURL(w)
        PROVE  row'[j] = row[j]
    BY <2>5, Zenon DEF Crash, Render, Put, PresignedURL
  <2>6. ASSUME NEW w \in Workers, MarkRunning(w) PROVE row'[j] = row[j]
    BY <2>1, <2>6, Zenon DEF MarkRunning
  <2>7. ASSUME NEW w \in Workers, MarkSucceeded(w) \/ markFailed(w) PROVE row'[j] = row[j]
    BY <2>1, <2>7, Zenon DEF MarkSucceeded, markFailed, rollback, Open
  <2>8. ASSUME NEW w \in Workers, NEW i \in Jobs, Deliver(w, i) PROVE row'[j] = row[j]
    BY <2>8, Zenon DEF Deliver
  <2>9. QED
    BY <2>2, <2>3, <2>4, <2>5, <2>6, <2>7, <2>8, Zenon DEF Next, handleJobRun
<1>2. QED
  BY <1>1, ReportInvariance, PTL DEF TerminalIsFinal, Spec
=============================================================================
