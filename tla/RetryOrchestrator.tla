-------------------------- MODULE RetryOrchestrator --------------------------
(***************************************************************************)
(* The life of a respondent between the respondents table and the call     *)
(* queue: internal/dialer/retry (the leader-elected sweep) and the random  *)
(* digit generator that creates respondents (internal/dialer/rdd), over    *)
(* CallQueue.                                                              *)
(*                                                                         *)
(* Every Postgres transaction and Lua script is one step; a sweep works    *)
(* from the rows it listed, and anything may happen between its steps.     *)
(* The worker that pops the queue and concludes calls is not in the        *)
(* repository: it is modelled from the contracts of the code it calls      *)
(* (PickNext, Requeue, retry.Apply, "finalises the row's status").         *)
(***************************************************************************)
EXTENDS CallQueue, Integers, Sequences, FiniteSets

CONSTANTS Replicas,      \* orchestrator processes
          Nil,
          Undecryptable, \* respondents whose phone cannot be decrypted
          MaxAttempts,   \* DefaultMaxAttempts
          BatchLimit,    \* rows listed per sweep
          RetryDelay,    \* the fixed delays of status_rules.go, one length
          MaxHeld,       \* bound: items in the hands of dialer workers
          MaxNow,        \* bound: the clock
          MaxFaults      \* bound: crashes, lost sessions, failed round trips

ASSUME RetryAssumption ==
  /\ Nil \notin Replicas /\ Nil \notin Nat
  /\ IsFiniteSet(Respondents)
  /\ Undecryptable \subseteq Respondents
  /\ MaxAttempts \in Nat \ {0} /\ BatchLimit \in Nat \ {0}
  /\ RetryDelay \in Nat /\ MaxHeld \in Nat /\ MaxNow \in Nat /\ MaxFaults \in Nat

VARIABLES
  rows,     \* the respondents table
  now,      \* the clock
  lock,     \* the Postgres session holding the advisory lock
  replica,  \* the orchestrators: conn (PgLeader.conn # nil), pc, rows to do
  creating, \* respondents the generator has persisted and not yet enqueued
  held,     \* items popped by dialer workers
  faults,   \* faults so far
  \* history, read by no guard
  stranded  \* respondents a fault, an expiry or a late write left behind

vars == <<queue, rows, now, lock, replica, creating, held, faults, stranded>>

Statuses == {"absent", "pending", "dialing", "completed", "exhausted"}

Row == [ status : Statuses, attempts : Nat, due : Nat \cup {Nil} ]

PCs == {"idle", "list", "commit", "rows", "mark"}

Replica == [ conn : BOOLEAN, pc : PCs,
             todo : Seq([ resp : Respondents, attempts : Nat ]) ]

IdleReplica == [ conn |-> FALSE, pc |-> "idle", todo |-> << >> ]

Init ==
  /\ QueueInit
  /\ rows = [r \in Respondents |-> [ status |-> "absent", attempts |-> 0 , due |-> Nil ]]
  /\ now = 0
  /\ lock = Nil
  /\ replica = [o \in Replicas |-> IdleReplica]
  /\ creating = {}
  /\ held = {}
  /\ faults = 0
  /\ stranded = {}

-----------------------------------------------------------------------------
(* The orchestrator.                                                       *)

goto(o, pc) == replica' = [replica EXCEPT ![o].pc = pc]

(* Fault: a replica that did not get the lock sweeps all the same.         *)
FaultAlwaysLeads(o) ==
  /\ replica[o].pc = "idle"
  /\ replica' = [replica EXCEPT ![o].conn = TRUE, ![o].pc = "list"]
  /\ lock' = IF lock = Nil THEN o ELSE lock
  /\ UNCHANGED <<queue, rows, now, creating, held, faults, stranded>>

(* Fault: the leader does not count its own lock as leadership.            *)
FaultLeadsOnce(o) ==
  /\ replica[o].pc = "idle"
  /\ lock = Nil /\ lock' = o
  /\ replica' = [replica EXCEPT ![o].conn = TRUE, ![o].pc = "list"]
  /\ UNCHANGED <<queue, rows, now, creating, held, faults, stranded>>

(* tick and Acquire: a replica that believes it leads does not ask again.  *)
(* A replica that finds the lock taken waits for its next tick.            *)
Acquire(o) ==
  /\ replica[o].pc = "idle"
  /\ \/ replica[o].conn /\ UNCHANGED lock
     \/ ~ replica[o].conn /\ lock = Nil /\ lock' = o
  /\ replica' = [replica EXCEPT ![o].conn = TRUE, ![o].pc = "list"]
  /\ UNCHANGED <<queue, rows, now, creating, held, faults, stranded>>

mature(r) == rows[r].status = "pending" /\ rows[r].due # Nil /\ rows[r].due <= now

(* order by next_attempt_at asc.                                           *)
byDue(S) ==
  { s \in [1 .. Cardinality(S) -> S] :
      /\ \A i, j \in DOMAIN s : i # j => s[i] # s[j]
      /\ \A i, j \in DOMAIN s : i < j => rows[s[i]].due <= rows[s[j]].due }

firstRows(s) == SubSeq(s, 1, IF Len(s) > BatchLimit THEN BatchLimit ELSE Len(s))

(* Rows locked by the listing transaction of a replica.                    *)
lockedBy(o) ==
  IF replica[o].pc = "commit"
  THEN { replica[o].todo[i].resp : i \in DOMAIN replica[o].todo } ELSE {}

locked == UNION { lockedBy(o) : o \in Replicas }

(* FOR UPDATE SKIP LOCKED, up to the query; an empty result ends the sweep.*)
ListMatureRetries(o) ==
  /\ replica[o].pc = "list"
  /\ \E s \in byDue({ r \in Respondents : mature(r) } \ locked) :
       LET batch == firstRows(s) IN
       replica' = [replica EXCEPT
         ![o].pc = IF batch = << >> THEN "idle" ELSE "commit",
         ![o].todo = [i \in DOMAIN batch |->
                        [ resp |-> batch[i], attempts |-> rows[batch[i]].attempts ]]]
  /\ UNCHANGED <<queue, rows, now, lock, creating, held, faults, stranded>>

(* The listing's transaction commits, and the row locks are gone before    *)
(* the first row is handled.                                               *)
ListCommits(o) ==
  /\ replica[o].pc = "commit"
  /\ goto(o, "rows")
  /\ UNCHANGED <<queue, rows, now, lock, creating, held, faults, stranded>>

(* On to the next row of the batch, or to the next tick.                   *)
nextRow(o) ==
  replica' = [replica EXCEPT ![o].todo = Tail(@),
                             ![o].pc = IF Len(replica[o].todo) = 1 THEN "idle" ELSE "rows"]

(* update respondents ... where id = $1: whatever the status was.          *)
setStatus(r, status) ==
  /\ r \notin locked
  /\ rows' = [rows EXCEPT ![r].status = status, ![r].due = Nil]

MarkExhausted(o) ==
  LET row == Head(replica[o].todo) IN
  /\ replica[o].pc = "rows"
  /\ row.attempts >= MaxAttempts
  /\ setStatus(row.resp, "exhausted")
  /\ nextRow(o)
  /\ UNCHANGED <<queue, now, lock, creating, held, faults, stranded>>

SkipUndecryptable(o) ==
  LET row == Head(replica[o].todo) IN
  /\ replica[o].pc = "rows"
  /\ row.attempts < MaxAttempts
  /\ row.resp \in Undecryptable
  /\ nextRow(o)
  /\ UNCHANGED <<queue, rows, now, lock, creating, held, faults, stranded>>

EnqueueRetry(o) ==
  LET row == Head(replica[o].todo) IN
  /\ replica[o].pc = "rows"
  /\ row.attempts < MaxAttempts
  /\ row.resp \notin Undecryptable
  /\ EnqueueRespondent(row.resp, 1 + row.attempts, row.attempts + 1, now)
  /\ goto(o, "mark")
  /\ UNCHANGED <<rows, now, lock, creating, held, faults, stranded>>

holding(r) == \E item \in held : item.resp = r

(* The respondent is in nobody's hands.                                    *)
untracked(r) == r \notin Queued /\ ~ holding(r) /\ r \notin creating

(* Fault: the row is not marked and comes up again with the next sweep.    *)
FaultNeverMarks(o) ==
  /\ replica[o].pc = "mark"
  /\ nextRow(o)
  /\ UNCHANGED <<queue, rows, now, lock, creating, held, faults, stranded>>

MarkScheduled(o) ==
  LET r == Head(replica[o].todo).resp IN
  /\ replica[o].pc = "mark"
  /\ setStatus(r, "dialing")
  /\ stranded' = IF untracked(r) THEN stranded \cup {r} ELSE stranded
  /\ nextRow(o)
  /\ UNCHANGED <<queue, now, lock, creating, held, faults>>

-----------------------------------------------------------------------------
(* Faults of an orchestrator.                                              *)

Fault == faults < MaxFaults /\ faults' = faults + 1

(* A call of handleRow fails: the row is skipped.                          *)
SkipRow(o) ==
  /\ Fault
  /\ replica[o].pc \in {"rows", "mark"}
  /\ nextRow(o)
  /\ UNCHANGED <<queue, rows, now, lock, creating, held, stranded>>

(* The process stops or crashes; a stopped one starts again.               *)
Crash(o) ==
  /\ Fault
  /\ replica' = [replica EXCEPT ![o] = IdleReplica]
  /\ lock' = IF lock = o THEN Nil ELSE lock
  /\ UNCHANGED <<queue, rows, now, creating, held, stranded>>

(* The session that anchors the lock is lost; PgLeader.conn is still set.  *)
SessionLost(o) ==
  /\ Fault
  /\ lock = o
  /\ lock' = Nil
  /\ UNCHANGED <<queue, rows, now, replica, creating, held, stranded>>

-----------------------------------------------------------------------------
(* The generator: a respondent is persisted, then enqueued.                *)

Persist(r) ==
  /\ rows[r].status = "absent"
  /\ rows' = [rows EXCEPT ![r].status = "pending"]
  /\ creating' = creating \cup {r}
  /\ UNCHANGED <<queue, now, lock, replica, held, faults, stranded>>

EnqueueNew(r) ==
  /\ r \in creating
  /\ EnqueueRespondent(r, 0, 0, now)
  /\ creating' = creating \ {r}
  /\ UNCHANGED <<rows, now, lock, replica, held, faults, stranded>>

EnqueueFails(r) ==
  /\ Fault
  /\ r \in creating
  /\ creating' = creating \ {r}
  /\ stranded' = stranded \cup {r}
  /\ UNCHANGED <<queue, rows, now, lock, replica, held>>

-----------------------------------------------------------------------------
(* The dialer worker (external) and the rules it applies.                  *)

(* final stands for success, refused and wrong_person, no_answer for busy  *)
(* and dropped too, tech_failure for anything unknown as well.             *)
Dispositions == {"final", "no_answer", "callback", "tech_failure"}

retryWithCap(attempts, delay) ==
  IF attempts + 1 >= MaxAttempts
  THEN [ retry |-> FALSE, delay |-> 0, exhausted |-> TRUE, counts |-> TRUE ]
  ELSE [ retry |-> TRUE, delay |-> delay, exhausted |-> FALSE, counts |-> TRUE ]

(* A callback time in the past is due at once.                             *)
callbackDelay(time) == IF time > now THEN time - now ELSE 0

Apply(status, attempts, time) ==
  CASE status = "final" ->
         [ retry |-> FALSE, delay |-> 0, exhausted |-> FALSE, counts |-> TRUE ]
    [] status = "no_answer" -> retryWithCap(attempts, RetryDelay)
    [] status = "callback"  -> retryWithCap(attempts, callbackDelay(time))
    [] OTHER -> [ retry |-> TRUE, delay |-> RetryDelay, exhausted |-> FALSE,
                  counts |-> FALSE ]

Pick(item) ==
  /\ Cardinality(held) < MaxHeld
  /\ PickNext(item)
  /\ held' = held \cup {item}
  /\ UNCHANGED <<rows, now, lock, replica, creating, faults, stranded>>

(* The row after a call that was decided upon so.                          *)
decided(row, d) ==
  [ row EXCEPT !.status = IF d.retry THEN "pending"
                          ELSE IF d.exhausted THEN "exhausted" ELSE "completed",
               !.attempts = IF d.counts THEN @ + 1 ELSE @,
               !.due = IF d.retry THEN now + d.delay ELSE Nil ]

(* The call is over and the row says what comes next.                      *)
Conclude(item) ==
  \E status \in Dispositions, time \in {0, now + 1} :
    LET r == item.resp IN
    /\ item \in held /\ r \notin locked
    /\ held' = held \ {item}
    /\ rows' = [rows EXCEPT ![r] = decided(@, Apply(status, @.attempts, time))]
    /\ stranded' = stranded \ {r}
    /\ UNCHANGED <<queue, now, lock, replica, creating, faults>>

(* The call could not be placed: back into the queue.                      *)
PutBack(item) ==
  /\ item \in held
  /\ held' = held \ {item}
  /\ Requeue(item, RetryDelay, now)
  /\ UNCHANGED <<rows, now, lock, replica, creating, faults, stranded>>

WorkerCrash(item) ==
  /\ Fault
  /\ item \in held
  /\ held' = held \ {item}
  /\ stranded' = stranded \cup {item.resp}
  /\ UNCHANGED <<queue, rows, now, lock, replica, creating>>

-----------------------------------------------------------------------------
(* Withdrawal, expiry and time.                                            *)

(* A respondent is taken out of the queue (external caller).               *)
Withdraw(r) ==
  /\ r \in Queued
  /\ Remove(r)
  /\ stranded' = stranded \cup {r}
  /\ UNCHANGED <<rows, now, lock, replica, creating, held, faults>>

Expire ==
  /\ Fault
  /\ QueueExpires
  /\ stranded' = stranded \cup Queued
  /\ UNCHANGED <<rows, now, lock, replica, creating, held>>

Tick ==
  /\ now < MaxNow
  /\ now' = now + 1
  /\ UNCHANGED <<queue, rows, lock, replica, creating, held, faults, stranded>>

-----------------------------------------------------------------------------
Sweep(o) ==
  \/ Acquire(o) \/ ListMatureRetries(o) \/ ListCommits(o) \/ MarkExhausted(o)
  \/ SkipUndecryptable(o) \/ EnqueueRetry(o) \/ MarkScheduled(o)

Next ==
  \/ \E o \in Replicas : Sweep(o) \/ SkipRow(o) \/ Crash(o) \/ SessionLost(o)
  \/ \E r \in Respondents : Persist(r) \/ EnqueueNew(r) \/ EnqueueFails(r)
                            \/ Withdraw(r)
  \/ \E item \in zset : Pick(item)
  \/ \E item \in held : Conclude(item) \/ PutBack(item) \/ WorkerCrash(item)
  \/ Expire \/ Tick

Spec == Init /\ [][Next]_vars

(* Every replica ticks for as long as it runs.                             *)
FairSpec == Spec /\ \A o \in Replicas : WF_vars(Sweep(o))

-----------------------------------------------------------------------------
(* Every variable keeps its type, whatever the sweep and the worker write  *)
(* over each other.                                                        *)
TypeOK ==
  /\ zset \subseteq Item
  /\ dedup \subseteq Respondents
  /\ rows \in [Respondents -> Row]
  /\ now \in 0 .. MaxNow
  /\ lock \in Replicas \cup {Nil}
  /\ replica \in [Replicas -> Replica]
  /\ creating \subseteq Respondents
  /\ held \subseteq Item
  /\ faults \in 0 .. MaxFaults
  /\ stranded \subseteq Respondents

(* A respondent the dedup set keeps out of the queue is in the queue: no   *)
(* sequence of the four scripts, duplicate members included, leaves behind *)
(* an entry that would keep a respondent from ever being enqueued again.   *)
DedupIsBacked == dedup \subseteq Queued

(* Without faults the advisory lock elects one leader at a time.           *)
OneLeader ==
  faults = 0 => \A o, q \in Replicas : replica[o].conn /\ replica[q].conn => o = q

(* Without faults a respondent is queued or being dialled at most once, so *)
(* nobody is called twice for one attempt: the sweep never enqueues a      *)
(* respondent a worker has in hand.                                        *)
NoDoubleDial ==
  faults = 0 =>
    \A r \in Respondents :
      Cardinality({ item \in zset : item.resp = r })
        + Cardinality({ item \in held : item.resp = r }) <= 1

(* A respondent who waits for a call and not for the sweep (status dialing,*)
(* or new) is in the queue, with a worker or with the generator.  The only *)
(* others are those that a fault, an expiry, a withdrawal, or MarkScheduled*)
(* running after the call it scheduled was over has left behind.           *)
NoSilentStrand ==
  \A r \in Respondents :
    rows[r].status = "dialing" \/ (rows[r].status = "pending" /\ rows[r].due = Nil)
      => ~ untracked(r) \/ r \in stranded

(* The queue, the respondents table and the sweep agree, whatever the four *)
(* scripts, the sweeps and the workers do between each other: nobody is    *)
(* kept out of the queue by a stale entry, one sweep leads and nobody is   *)
(* dialled twice while nothing fails, and a respondent nobody will call is *)
(* one a fault has left behind.                                            *)
RespondentsAreKept ==
  TypeOK /\ DedupIsBacked /\ OneLeader /\ NoDoubleDial /\ NoSilentStrand

(* A retry that has come due is taken up by some sweep, in spite of rows   *)
(* that fail every time, as long as these do not fill the batch.           *)
MatureIsTakenUp ==
  \A r \in Respondents \ Undecryptable : mature(r) ~> ~ mature(r)
=============================================================================
