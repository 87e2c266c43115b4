------------------------------- MODULE Retention -------------------------------
(***************************************************************************)
(* internal/recording/worker: the retention pass moves recordings to cold  *)
(* and, past delete_at, removes the object and then the row; the integrity *)
(* pass samples recordings and records whether their bytes still hash to   *)
(* the committed sha256.  Every worker process runs both passes; each pass *)
(* has an advisory lock of its own (dialer/retry's PgLeader), so that one  *)
(* process sweeps at a time, except after a lost database session.         *)
(***************************************************************************)
EXTENDS Recordings

CONSTANTS
  Workers,         \* the worker processes
  RetentionBatch,  \* rows a listing returns at most
  VerifyDays,      \* days before a verified recording is due again
  MaxVerify        \* bound: verifications of one recording

ASSUME RetentionAssumption == RetentionBatch \in 1..1000 /\ VerifyDays \in Nat

VARIABLES
  leaders,  \* who holds the advisory lock of each pass
  sweeper,  \* the retention passes: conn (PgLeader.conn # nil), pc, rows to do
  checker   \* the integrity passes: the same, and the verdict to persist

retentionVars == <<recordingVars, leaders, sweeper, checker>>
passVars == <<leaders, sweeper, checker>>

NoWorker == "nobody"
Asleep == [conn |-> FALSE, pc |-> "idle", todo |-> <<>>]
Unsampled == [conn |-> FALSE, pc |-> "idle", todo |-> <<>>, verdict |-> "unknown"]

WorkersInit ==
  /\ leaders = [retention |-> NoWorker, integrity |-> NoWorker]
  /\ sweeper = [w \in Workers |-> Asleep]
  /\ checker = [w \in Workers |-> Unsampled]

RetentionInit == RecordingsInit /\ WorkersInit

-----------------------------------------------------------------------------
(* The lifecycle statements.                                               *)

dueColdMoves == {c \in RecCalls : recRows[c].status = "stored" /\ recRows[c].coldAt <= rday}
dueDeletes == {c \in RecCalls : /\ recRows[c].status \in {"stored", "cold"}
                                /\ recRows[c].deleteAt <= rday}

(* ORDER BY at LIMIT n: the oldest of S first, rows of one instant in any  *)
(* order.                                                                  *)
listings(S, at, n) ==
  {s \in UNION {[1..m -> S] : m \in 0..n} :
     /\ \A i, j \in DOMAIN s : i < j => s[i] # s[j] /\ at[s[i]] <= at[s[j]]
     /\ \A c \in S \ Range(s) : Len(s) = n /\ \A i \in DOMAIN s : at[s[i]] <= at[c]}

ListDueColdMoves ==
  listings(dueColdMoves, [c \in RecCalls |-> recRows[c].coldAt], RetentionBatch)

FaultListsAll ==
  listings(dueDeletes, [c \in RecCalls |-> recRows[c].deleteAt], Cardinality(RecCalls))

ListDueDeletes ==
  listings(dueDeletes, [c \in RecCalls |-> recRows[c].deleteAt], RetentionBatch)

FaultColdFromAny(c) ==
  /\ recRows' = [recRows EXCEPT ![c].status = "cold"]
  /\ rectrail' = [rectrail EXCEPT ![c].cold = 1]

(* UPDATE .. WHERE status = 'stored'; no row means another sweeper was     *)
(* first, and the audit row is skipped with it.                            *)
MarkColdTx(c) ==
  IF recRows[c].status = "stored"
  THEN /\ recRows' = [recRows EXCEPT ![c].status = "cold"]
       /\ rectrail' = [rectrail EXCEPT ![c].cold = @ + 1]
  ELSE UNCHANGED <<recRows, rectrail>>

writeAudit(t) == [t EXCEPT !.erased = @ + 1]
appendDeletedOutbox(t) == [t EXCEPT !.deleted = @ + 1]

FaultDeletesAgain(c) ==
  /\ recRows' = [recRows EXCEPT ![c].status = "deleted"]
  /\ rectrail' = [rectrail EXCEPT ![c] = appendDeletedOutbox(writeAudit(@))]

(* UPDATE .. WHERE status IN ('stored', 'cold'), with the audit row and    *)
(* the deleted event in the same transaction.                              *)
MarkDeletedTx(c) ==
  IF recRows[c].status \in {"stored", "cold"}
  THEN /\ recRows' = [recRows EXCEPT ![c].status = "deleted"]
       /\ rectrail' = [rectrail EXCEPT ![c] = appendDeletedOutbox(writeAudit(@))]
  ELSE UNCHANGED <<recRows, rectrail>>

(* Eligible for a check; the sample is any of them in any order.           *)
SampleForVerify ==
  LET eligible == {c \in RecCalls :
        /\ recRows[c].status \in {"stored", "cold"}
        /\ recRows[c].verifiedAt = Never \/ recRows[c].verifiedAt + VerifyDays < rday
        /\ rectrail[c].verified < MaxVerify}
  IN {s \in UNION {[1..m -> eligible] : m \in 0..RetentionBatch} :
        \A i, j \in DOMAIN s : i # j => s[i] # s[j]}

(* UPDATE .. WHERE id: the verdict is written whatever became of the row.  *)
UpdateVerifyResultTx(c, verdict) ==
  /\ recRows' = [recRows EXCEPT ![c].verifiedAt = rday, ![c].integrity = verdict]
  /\ rectrail' = [rectrail EXCEPT ![c].verified = @ + 1]

-----------------------------------------------------------------------------
(* Leadership: a process that holds a connection believes it leads.        *)

leads(pass, w, conn) == conn \/ leaders[pass] = NoWorker

Acquire(pass, w, conn) ==
  /\ leads(pass, w, conn)
  /\ leaders' = IF conn THEN leaders ELSE [leaders EXCEPT ![pass] = w]

(* The session that anchors a lock is lost; the process does not notice.   *)
SessionLost(pass) ==
  /\ leaders[pass] # NoWorker /\ recFault
  /\ leaders' = [leaders EXCEPT ![pass] = NoWorker]
  /\ UNCHANGED <<recRows, objects, rectrail, creq, rday, sweeper, checker>>

(* The process dies in the middle of whatever it does and is restarted;    *)
(* its sessions end with it.                                               *)
WorkerCrash(w) ==
  /\ recFault
  /\ sweeper[w].conn \/ checker[w].conn
  /\ leaders' = [p \in DOMAIN leaders |-> IF leaders[p] = w THEN NoWorker ELSE leaders[p]]
  /\ sweeper' = [sweeper EXCEPT ![w] = Asleep]
  /\ checker' = [checker EXCEPT ![w] = Unsampled]
  /\ UNCHANGED <<recRows, objects, rectrail, creq, rday>>

-----------------------------------------------------------------------------
(* The retention pass.                                                     *)

sweepColdMoves(w) ==
  \E rows \in ListDueColdMoves :
    sweeper' = [sweeper EXCEPT ![w] = [conn |-> TRUE, pc |-> "cold", todo |-> rows]]

(* A tick of Run: take or keep the lock, list the cold moves.              *)
RetentionTick(w) ==
  /\ sweeper[w].pc = "idle"
  /\ Acquire("retention", w, sweeper[w].conn)
  /\ sweepColdMoves(w)
  /\ UNCHANGED <<recordingVars, checker>>

(* One cold move, or its transaction fails and the next sweep retries.     *)
handleColdMove(w) ==
  /\ sweeper[w].pc = "cold" /\ sweeper[w].todo # <<>>
  /\ \/ MarkColdTx(Head(sweeper[w].todo)) /\ UNCHANGED recFaults
     \/ recFault /\ UNCHANGED <<recRows, rectrail>>
  /\ sweeper' = [sweeper EXCEPT ![w].todo = Tail(@)]
  /\ UNCHANGED <<objects, creq, rday, leaders, checker>>

sweepDeletes(w) ==
  /\ sweeper[w].pc = "cold" /\ sweeper[w].todo = <<>>
  /\ \E rows \in ListDueDeletes :
       sweeper' = [sweeper EXCEPT ![w].pc = "delete", ![w].todo = rows]
  /\ UNCHANGED <<recordingVars, leaders, checker>>

nextDelete(w) == sweeper' = [sweeper EXCEPT ![w].pc = "delete", ![w].todo = Tail(@)]

FaultMissingIsAnError(c) == objects[c] # "none"

(* Phase A goes on when the object is removed, and also when it was gone.  *)
removable(c) == TRUE

(* Phase A, outside any transaction: remove the object.  A failure leaves  *)
(* the row for the next sweep.                                             *)
DeleteObject(w) ==
  LET c == Head(sweeper[w].todo)
  IN /\ sweeper[w].pc = "delete" /\ sweeper[w].todo # <<>>
     /\ \/ /\ removable(c)
           /\ objects' = [objects EXCEPT ![c] = "none"]
           /\ sweeper' = [sweeper EXCEPT ![w].pc = "erase"]
           /\ UNCHANGED recFaults
        \/ /\ IF removable(c) THEN recFault ELSE UNCHANGED recFaults
           /\ nextDelete(w) /\ UNCHANGED objects
     /\ UNCHANGED <<recRows, rectrail, creq, rday, leaders, checker>>

(* Phase B: the row, its audit row and its event; or the transaction fails *)
(* with the object already gone.                                           *)
handleDelete(w) ==
  /\ sweeper[w].pc = "erase"
  /\ \/ MarkDeletedTx(Head(sweeper[w].todo)) /\ UNCHANGED recFaults
     \/ recFault /\ UNCHANGED <<recRows, rectrail>>
  /\ nextDelete(w)
  /\ UNCHANGED <<objects, creq, rday, leaders, checker>>

SweepEnds(w) ==
  /\ sweeper[w].pc = "delete" /\ sweeper[w].todo = <<>>
  /\ sweeper' = [sweeper EXCEPT ![w].pc = "idle"]
  /\ UNCHANGED <<recordingVars, leaders, checker>>

RetentionStep(w) ==
  \/ RetentionTick(w) \/ handleColdMove(w) \/ sweepDeletes(w)
  \/ DeleteObject(w) \/ handleDelete(w) \/ SweepEnds(w)

-----------------------------------------------------------------------------
(* The integrity pass.                                                     *)

IntegrityTick(w) ==
  /\ checker[w].pc = "idle"
  /\ Acquire("integrity", w, checker[w].conn)
  /\ \E s \in SampleForVerify :
       checker' = [checker EXCEPT ![w].conn = TRUE, ![w].todo = s,
                                  ![w].pc = IF s = <<>> THEN "idle" ELSE "verify"]
  /\ UNCHANGED <<recordingVars, sweeper>>

nextCheck(w) ==
  [checker EXCEPT ![w].todo = Tail(@), ![w].verdict = "unknown",
                  ![w].pc = IF Len(checker[w].todo) = 1 THEN "idle" ELSE "verify"]

FaultMissingIsMismatch(answer) ==
  IF answer = [ok |-> TRUE] THEN "match"
  ELSE IF answer \in {[ok |-> FALSE], NotFound} THEN "mismatch" ELSE "unknown"

(* An error is no verdict.                                                 *)
verdictOf(answer) ==
  CASE answer = [ok |-> TRUE]  -> "match"
    [] answer = [ok |-> FALSE] -> "mismatch"
    [] OTHER                   -> "unknown"

(* The bytes are read and hashed outside the transaction that records the  *)
(* verdict; an error leaves the row for a later sample.                    *)
CheckBytes(w) ==
  LET c == Head(checker[w].todo)
      verdict == verdictOf(VerifyChecksum(CallOrg[c], c))
  IN /\ checker[w].pc = "verify"
     /\ checker' = IF verdict = "unknown" THEN nextCheck(w)
                   ELSE [checker EXCEPT ![w].pc = "persist", ![w].verdict = verdict]
     /\ UNCHANGED <<recordingVars, leaders, sweeper>>

handleVerify(w) ==
  /\ checker[w].pc = "persist"
  /\ \/ /\ UpdateVerifyResultTx(Head(checker[w].todo), checker[w].verdict)
        /\ UNCHANGED recFaults
     \/ recFault /\ UNCHANGED <<recRows, rectrail>>
  /\ checker' = nextCheck(w)
  /\ UNCHANGED <<objects, creq, rday, leaders, sweeper>>

IntegrityStep(w) == IntegrityTick(w) \/ CheckBytes(w) \/ handleVerify(w)

-----------------------------------------------------------------------------
SweepsNext ==
  \/ \E w \in Workers : RetentionStep(w) \/ WorkerCrash(w)
  \/ SessionLost("retention")

ChecksNext == SessionLost("integrity") \/ \E w \in Workers : IntegrityStep(w)

RetentionNext == (RecordingsNext /\ UNCHANGED passVars) \/ SweepsNext \/ ChecksNext

RetentionSpec == RetentionInit /\ [][RetentionNext]_retentionVars

(* The ticker fires in every process and what a sweep began it goes on     *)
(* with; time passes.  Nothing is asked of the agent or of the faults.     *)
RetentionFairness ==
  /\ \A w \in Workers : WF_retentionVars(RetentionStep(w))
  /\ WF_retentionVars(PassDay /\ UNCHANGED passVars)

RetentionTypeOK ==
  /\ RecordingsTypeOK
  /\ \A p \in DOMAIN leaders : leaders[p] \in Workers \cup {NoWorker}
  /\ \A w \in Workers :
       /\ sweeper[w].pc \in {"idle", "cold", "delete", "erase"}
       /\ Len(sweeper[w].todo) <= RetentionBatch
       /\ checker[w].pc \in {"idle", "verify", "persist"}
       /\ checker[w].verdict \in {"unknown", "match", "mismatch"}

(* Retention erases once and completely: a row says deleted exactly when   *)
(* one recording.deleted audit row and one event say so, also when two     *)
(* sweepers work on one row after a lost session; its object is then gone, *)
(* and an object is gone early only once its deletion is due and under way *)
(* or to be retried.                                                       *)
ErasedIsAccounted ==
  \A c \in RecCalls :
    LET n == IF recRows[c].status = "deleted" THEN 1 ELSE 0
    IN /\ rectrail[c].erased = n /\ rectrail[c].deleted = n
       /\ n = 1 => objects[c] = "none"
       /\ recRows[c] # NoRec /\ objects[c] = "none" => recRows[c].deleteAt <= rday

lifeOf == [c \in RecCalls |-> recRows[c].status]
planOf == [c \in RecCalls |-> [born |-> recRows[c].committedAt, cold |-> recRows[c].coldAt,
                               erase |-> recRows[c].deleteAt]]
planDays == {AsTime(p.cold) : p \in Plans} \cup {AsTime(p.delete) : p \in Plans}

Life == INSTANCE RecordingLife WITH
  Recs <- RecCalls, Days <- planDays, life <- lifeOf, plan <- planOf, today <- rday

(* The detailed specification implements RecordingLife: through replayed   *)
(* commits that ask for other days, two sweepers after a lost session,     *)
(* failing statements and crashes, a recording only ages, none is moved or *)
(* erased before the day its row was committed with, and no stale sweep or *)
(* replay brings a status back or moves a day (storeRowFromInput,          *)
(* InsertRecordingIdempotent, MarkColdTx, MarkDeletedTx).                  *)
ImplementsRecordingLife == Life!LifeSpec

(* The integrity pass raises no false alarm: a recording it calls damaged  *)
(* was damaged.  One that retention is just removing is not reported.      *)
NoFalseAlarm ==
  \A c \in RecCalls : recRows[c].integrity = "mismatch" => rectrail[c].rotted > 0
=============================================================================
