----------------------------- MODULE OperatorFSM -----------------------------
(***************************************************************************)
(* One operator's live state as the platform really keeps it: a Redis hash *)
(* guarded by a version, written by requests that load, decide and then    *)
(* compare-and-set; an operator_sessions row and an operator_state_log in  *)
(* Postgres, written in transactions of their own before (StartShift) or   *)
(* after (everything else) the hash; and the heartbeat watchdog.           *)
(*                                                                         *)
(* Requests come from HTTP handlers (the operator, an administrator) and   *)
(* from the telephony event subscriber, on any replica, so any number of   *)
(* them is in flight for one operator.  Every Redis command, Lua script    *)
(* and Postgres transaction is one step; between two of them anything else *)
(* may happen, the death of the process included.                          *)
(*                                                                         *)
(* A missing hash and a hash in state offline differ in the version only:  *)
(* load, start_shift.lua and the watchdog treat them alike.                *)
(***************************************************************************)
EXTENDS FSMTransitions, Naturals

CONSTANTS Procs,        \* goroutines serving requests for this operator
          Watchdog,     \* the heartbeat sweep
          MaxRequests,  \* bound: requests issued
          MaxAborts     \* bound: crashes, timeouts and failed round trips

ASSUME ProcsAssumption == Watchdog \notin Procs
ASSUME BoundsAssumption == MaxRequests \in Nat /\ MaxAborts \in Nat

VARIABLES
  hash,       \* the fields of op:<tenant>:user:<operator>
  version,    \* its version field, 0 when the key is missing
  presence,   \* presence:<tenant>:user:<operator> exists
  sessions,   \* operator_sessions rows: free (not inserted), open, closed
  log,        \* operator_state_log rows with the outbox rows of their tx
  job,        \* the local state of every request in flight
  requests,   \* requests issued so far
  aborts,     \* aborted requests so far
  \* history, read by no guard
  shift,      \* how often start_shift.lua or the TTL reset the version
  overwritten,\* a snapshot loaded in an earlier shift was written
  orphans     \* open session rows the code gave up on

bookkeeping == <<requests, aborts>>
history == <<shift, overwritten, orphans>>
vars == <<hash, version, presence, sessions, log, job, bookkeeping, history>>

Workers == Procs \cup {Watchdog}

PCs == {"idle", "insert", "start_cas", "cas", "audit", "exists", "force"}

Ops == {"none", "start_shift", "end_shift", "go_pause", "resume", "call_started",
        "call_ended", "status_submitted", "go_verify", "verify_done", "force"}

Job == [ pc      : PCs,
         op      : Ops,
         cur     : Snapshot,               \* the snapshot load returned
         version : Nat,                    \* ... and its version
         shift   : Nat,                    \* history: when it was loaded
         upd     : Snapshot,               \* the snapshot to be written
         session : Sessions \cup {Nil},    \* StartShift: the row inserted
         call    : Calls \cup {Nil} ]      \* SubmitStatus: req.CallID

IdleJob == [ pc |-> "idle", op |-> "none", cur |-> Offline, version |-> 0,
             shift |-> 0, upd |-> Offline, session |-> Nil, call |-> Nil ]

(* An operator_state_log row and the outbox rows written with it.  The     *)
(* version the write produced stands for the row's timestamp: it is taken  *)
(* between the load and the compare-and-set, so the two orders agree.      *)
(* finalized is the call a call.finalized event names.                     *)
LogRow == [ session : Sessions, version : Nat, state : States,
            finalized : Calls \cup {Nil} ]

Init ==
  /\ hash = Offline
  /\ version = 0
  /\ presence = FALSE
  /\ sessions = [s \in Sessions |-> "free"]
  /\ log = {}
  /\ job = [p \in Workers |-> IdleJob]
  /\ requests = 0
  /\ aborts = 0
  /\ shift = 0
  /\ overwritten = FALSE
  /\ orphans = {}

-----------------------------------------------------------------------------
(* Loading: one HGETALL, the transition table and the mutation.  A request *)
(* the table rejects, or whose effect is already there, returns without a  *)
(* write and is a stuttering step, except that the middleware of an        *)
(* operator's request has refreshed the presence key (Ping).               *)

Accept(p) ==
  /\ job[p].pc = "idle"
  /\ requests < MaxRequests
  /\ requests' = requests + 1

Loaded(p, op, upd, call) ==
  job' = [job EXCEPT ![p] = [ pc |-> "cas", op |-> op, cur |-> hash,
                              version |-> version, shift |-> shift,
                              upd |-> upd, session |-> Nil, call |-> call ]]

stored == <<hash, version, sessions, log, aborts, history>>

FromOperator(p, op, updates, call) ==
  /\ Accept(p)
  /\ \E upd \in updates : Loaded(p, op, upd, call)
  /\ presence' = TRUE
  /\ UNCHANGED stored

FromElsewhere(p, op, updates) ==
  /\ Accept(p)
  /\ \E upd \in updates : Loaded(p, op, upd, Nil)
  /\ UNCHANGED <<presence, stored>>

EndShiftReq(p) == FromOperator(p, "end_shift", EndShift(hash), Nil)

GoPauseReq(p) ==
  \E reason \in BOOLEAN : FromOperator(p, "go_pause", GoPause(hash, reason), Nil)

ResumeReq(p) == FromOperator(p, "resume", Resume(hash), Nil)

SubmitStatusReq(p) ==
  \E c \in Calls : FromOperator(p, "status_submitted", SubmitStatus(hash), c)

GoVerifyReq(p) == FromOperator(p, "go_verify", GoVerify(hash), Nil)

VerifyDoneReq(p) == FromOperator(p, "verify_done", VerifyDone(hash), Nil)

(* The telephony event subscriber: an answer event.                        *)
handleAnswered(p) ==
  \E c \in Calls : FromElsewhere(p, "call_started", RecordCallStarted(hash, c))

(* The telephony event subscriber: a hangup event.                         *)
handleHangup(p) ==
  \E o \in Outcomes : FromElsewhere(p, "call_ended", RecordCallEnded(hash, o))

(* An administrator may force any state.                                   *)
ForceReq(p) ==
  \E target \in States : FromElsewhere(p, "force", ForceState(hash, target))

(* StartShift goes to Postgres first, and only if it found offline.        *)
StartShiftReq(p) ==
  /\ Accept(p)
  /\ hash.state = "offline"
  /\ job' = [job EXCEPT ![p] = [IdleJob EXCEPT !.pc = "insert", !.op = "start_shift",
                                               !.shift = shift]]
  /\ presence' = TRUE
  /\ UNCHANGED stored

(* GetState, and any operator request that is refused or has no effect.    *)
Ping ==
  /\ ~ presence
  /\ requests < MaxRequests
  /\ requests' = requests + 1
  /\ presence' = TRUE
  /\ UNCHANGED <<stored, job>>

-----------------------------------------------------------------------------
(* Writing.                                                                *)

Done(p) == job' = [job EXCEPT ![p] = IdleJob]

(* startSessionAndAudit: one transaction inserts the session row and the   *)
(* first row of its state log.                                             *)
InsertSession(p) ==
  /\ job[p].pc = "insert"
  /\ \E s \in { t \in Sessions : sessions[t] = "free" } :
       /\ sessions' = [sessions EXCEPT ![s] = "open"]
       /\ log' = log \cup {[ session |-> s, version |-> 1, state |-> "ready",
                             finalized |-> Nil ]}
       /\ job' = [job EXCEPT ![p].pc = "start_cas", ![p].session = s]
  /\ UNCHANGED <<hash, version, presence, bookkeeping, history>>

(* start_shift.lua returning 1: it sets the fields of its payload, deletes *)
(* none, and restarts the version at 1.                                    *)
startShiftWrites(session) ==
  /\ hash' = [hash EXCEPT !.state = "ready", !.session = session]
  /\ version' = 1

(* Fault: start_shift.lua does not look at the stored state.               *)
FaultStartShiftBlind(p) ==
  /\ job[p].pc = "start_cas"
  /\ startShiftWrites(job[p].session)
  /\ shift' = shift + 1
  /\ Done(p)
  /\ UNCHANGED <<presence, sessions, log, bookkeeping, overwritten, orphans>>

StartShiftWins(p) ==
  /\ job[p].pc = "start_cas"
  /\ hash.state = "offline"
  /\ startShiftWrites(job[p].session)
  /\ shift' = shift + 1
  /\ Done(p)
  /\ UNCHANGED <<presence, sessions, log, bookkeeping, overwritten, orphans>>

(* start_shift.lua returning 0 or -1: the session row stays open.          *)
StartShiftLoses(p) ==
  /\ job[p].pc = "start_cas"
  /\ hash.state # "offline"
  /\ orphans' = orphans \cup {job[p].session}
  /\ Done(p)
  /\ UNCHANGED <<hash, version, presence, sessions, log, bookkeeping, shift, overwritten>>

(* Fault: the version is not compared.                                     *)
FaultNoCompare(p) == TRUE

(* transition.lua returning 1, then on to the audit transaction if the     *)
(* loaded snapshot had a session to audit against.                         *)
casMatches(p) == version = job[p].version

(* Fault: the write does not increment the version.                        *)
FaultNoIncrement(p) ==
  /\ job[p].pc = "cas"
  /\ casMatches(p)
  /\ hash' = job[p].upd
  /\ version' = version
  /\ overwritten' = (overwritten \/ job[p].shift # shift)
  /\ job' = [job EXCEPT ![p] = IF job[p].cur.session = Nil
                               THEN IdleJob ELSE [@ EXCEPT !.pc = "audit"]]
  /\ UNCHANGED <<presence, sessions, log, bookkeeping, shift, orphans>>

(* Fault: the audit runs without a session to audit against.               *)
FaultAuditsAnyway(p) ==
  /\ job[p].pc = "cas"
  /\ casMatches(p)
  /\ hash' = job[p].upd
  /\ version' = version + 1
  /\ overwritten' = (overwritten \/ job[p].shift # shift)
  /\ job' = [job EXCEPT ![p].pc = "audit"]
  /\ UNCHANGED <<presence, sessions, log, bookkeeping, shift, orphans>>

(* Fault: a forced change of state is not audited.                         *)
FaultForceUnaudited(p) ==
  /\ job[p].pc = "cas"
  /\ casMatches(p)
  /\ hash' = job[p].upd
  /\ version' = version + 1
  /\ overwritten' = (overwritten \/ job[p].shift # shift)
  /\ job' = [job EXCEPT ![p] = IF job[p].cur.session = Nil \/ job[p].op = "force"
                               THEN IdleJob ELSE [@ EXCEPT !.pc = "audit"]]
  /\ UNCHANGED <<presence, sessions, log, bookkeeping, shift, orphans>>

CasWins(p) ==
  /\ job[p].pc = "cas"
  /\ casMatches(p)
  /\ hash' = job[p].upd
  /\ version' = version + 1
  /\ overwritten' = (overwritten \/ job[p].shift # shift)
  /\ job' = [job EXCEPT ![p] = IF job[p].cur.session = Nil
                               THEN IdleJob ELSE [@ EXCEPT !.pc = "audit"]]
  /\ UNCHANGED <<presence, sessions, log, bookkeeping, shift, orphans>>

(* transition.lua returning -1: ErrConflict, nothing written.  HTTP        *)
(* reports it, the event subscriber acknowledges the event and drops it.   *)
CasConflicts(p) ==
  /\ job[p].pc = "cas"
  /\ ~ casMatches(p)
  /\ Done(p)
  /\ UNCHANGED <<hash, version, presence, sessions, log, bookkeeping, history>>

(* The call named by a call.finalized event: the bound call, else the one  *)
(* in the request (callFinalizedExtras).                                   *)
finalizedCall(j) ==
  IF j.op # "status_submitted" THEN Nil
  ELSE IF j.cur.call # Nil THEN j.cur.call ELSE j.call

pendingRow(j) ==
  [ session |-> j.cur.session, version |-> j.version + 1, state |-> j.upd.state,
    finalized |-> finalizedCall(j) ]

(* Fault: going offline does not close the session row.                    *)
FaultNeverCloses(p) ==
  /\ job[p].pc = "audit"
  /\ log' = log \cup {pendingRow(job[p])}
  /\ Done(p)
  /\ UNCHANGED <<hash, version, presence, sessions, bookkeeping, history>>

(* auditTransition, or closeSessionAndAudit when the write went offline.   *)
Audit(p) ==
  /\ job[p].pc = "audit"
  /\ log' = log \cup {pendingRow(job[p])}
  /\ sessions' = IF job[p].upd.state = "offline"
                 THEN [sessions EXCEPT ![job[p].cur.session] = "closed"]
                 ELSE sessions
  /\ Done(p)
  /\ UNCHANGED <<hash, version, presence, bookkeeping, history>>

closing(j) == j.pc = "audit" /\ j.upd.state = "offline"

(* A request dies: its replica crashes, its context expires, or a round    *)
(* trip fails after its effect (the effect is the step before).            *)
Abort(p) ==
  /\ job[p].pc # "idle"
  /\ aborts < MaxAborts
  /\ aborts' = aborts + 1
  /\ orphans' = orphans \cup
                  (IF job[p].pc = "start_cas" THEN {job[p].session}
                   ELSE IF closing(job[p]) THEN {job[p].cur.session} ELSE {})
  /\ Done(p)
  /\ UNCHANGED <<hash, version, presence, sessions, log, requests, shift, overwritten>>

-----------------------------------------------------------------------------
(* Time, and the watchdog.                                                 *)

(* The 24 h time-to-live of the hash runs out.  Requests last seconds, so  *)
(* none is in flight from before.                                          *)
HashExpires ==
  /\ version # 0
  /\ \A p \in Workers : job[p].pc = "idle"
  /\ hash' = Offline
  /\ version' = 0
  /\ shift' = shift + 1
  /\ orphans' = orphans \cup ({hash.session} \ {Nil})
  /\ UNCHANGED <<presence, sessions, log, job, bookkeeping, overwritten>>

PresenceExpires ==
  /\ presence
  /\ presence' = FALSE
  /\ UNCHANGED <<hash, version, sessions, log, job, bookkeeping, history>>

(* Fault: only an operator waiting for a call is watched.                  *)
FaultWatchReadyOnly ==
  /\ job[Watchdog].pc = "idle"
  /\ hash.state = "ready"
  /\ job' = [job EXCEPT ![Watchdog].pc = "exists"]
  /\ UNCHANGED <<hash, version, presence, sessions, log, bookkeeping, history>>

(* checkKey reads the state of the operator ...                            *)
WatchState ==
  /\ job[Watchdog].pc = "idle"
  /\ hash.state # "offline"
  /\ job' = [job EXCEPT ![Watchdog].pc = "exists"]
  /\ UNCHANGED <<hash, version, presence, sessions, log, bookkeeping, history>>

(* ... then asks whether the presence key is there ...                     *)
WatchPresence ==
  /\ job[Watchdog].pc = "exists"
  /\ job' = [job EXCEPT ![Watchdog].pc = IF presence THEN "idle" ELSE "force"]
  /\ UNCHANGED <<hash, version, presence, sessions, log, bookkeeping, history>>

(* ... and calls Force(offline), which loads the snapshot afresh.          *)
WatchForce ==
  /\ job[Watchdog].pc = "force"
  /\ \/ /\ hash.state = "offline"
        /\ Done(Watchdog)
     \/ \E upd \in ForceState(hash, "offline") : Loaded(Watchdog, "force", upd, Nil)
  /\ UNCHANGED <<hash, version, presence, sessions, log, bookkeeping, history>>

-----------------------------------------------------------------------------
Request(p) ==
  \/ StartShiftReq(p) \/ EndShiftReq(p) \/ GoPauseReq(p) \/ ResumeReq(p)
  \/ SubmitStatusReq(p) \/ GoVerifyReq(p) \/ VerifyDoneReq(p)
  \/ handleAnswered(p) \/ handleHangup(p) \/ ForceReq(p)

Write(p) ==
  \/ InsertSession(p) \/ StartShiftWins(p) \/ StartShiftLoses(p)
  \/ CasWins(p) \/ CasConflicts(p) \/ Audit(p)

Watch == WatchState \/ WatchPresence \/ WatchForce

Next ==
  \/ \E p \in Procs : Request(p)
  \/ \E p \in Workers : Write(p) \/ Abort(p)
  \/ Watch
  \/ Ping \/ PresenceExpires \/ HashExpires

Spec == Init /\ [][Next]_vars

(* The sweep runs off a ticker for as long as the worker lives, and a      *)
(* sweep that started completes.  Nothing is assumed of anybody else.      *)
FairSpec == Spec /\ WF_vars(Watch) /\ WF_vars(Write(Watchdog))

-----------------------------------------------------------------------------
(* Every variable keeps its type; in particular a snapshot a request will  *)
(* write is a well-formed snapshot.                                        *)
TypeOK ==
  /\ hash \in Snapshot
  /\ version \in Nat
  /\ presence \in BOOLEAN
  /\ sessions \in [Sessions -> {"free", "open", "closed"}]
  /\ log \subseteq LogRow
  /\ job \in [Workers -> Job]
  /\ requests \in Nat
  /\ aborts \in Nat
  /\ shift \in Nat
  /\ overwritten \in BOOLEAN
  /\ orphans \subseteq Sessions

(* buildNextSnapshot and the mutate callbacks keep the optional fields in  *)
(* step with the state: an outcome is carried in status only, a pause      *)
(* reason in pause only, and an offline hash carries nothing at all.       *)
(* start_shift.lua deletes no field and relies on the last of these.       *)
CleanSnapshot == Clean(hash)

(* The optimistic lock of transition.lua: a request whose version still    *)
(* matches is about to replace the very snapshot it loaded, so no other    *)
(* request's write is lost, as long as it was loaded in the same shift.    *)
NoLostUpdate ==
  \A p \in Workers :
    job[p].pc = "cas" /\ job[p].shift = shift /\ casMatches(p) => hash = job[p].cur

(* The session bound into the live hash is an open operator_sessions row:  *)
(* no request closes the session of a running shift (EndShift and          *)
(* Force(offline) unbind it before they close it).                         *)
LiveSessionIsOpen ==
  ~ overwritten /\ hash.session # Nil => sessions[hash.session] = "open"

(* An open session row is either the running shift's, or on its way to     *)
(* being bound or closed by a request in flight, or one of the orphans the *)
(* code reports: the loser of a StartShift race, a crash, an expired hash. *)
NoSilentSessionLeak ==
  ~ overwritten =>
    \A s \in Sessions : sessions[s] = "open" =>
      \/ hash.session = s
      \/ s \in orphans
      \/ \E p \in Workers : job[p].pc = "start_cas" /\ job[p].session = s
      \/ \E p \in Workers : closing(job[p]) /\ job[p].cur.session = s

(* The state log of the running shift is complete: a row for every version *)
(* of the hash since StartShift, but for those whose audit transaction is  *)
(* still to come; a crash in between is the only way to lose one.  And it  *)
(* has one winner per version: two requests never both get to audit, and   *)
(* publish call.finalized for, the same transition, and a transition whose *)
(* row is in the log has no second audit on its way.                       *)
AuditTrailComplete ==
  ~ overwritten =>
    /\ aborts = 0 /\ hash.session # Nil =>
         \A v \in 1 .. version :
           \/ \E r \in log : r.session = hash.session /\ r.version = v
           \/ \E p \in Workers : job[p].pc = "audit" /\ job[p].version + 1 = v
    /\ \A p \in Workers : job[p].pc = "audit" =>
         /\ \A q \in Workers \ {p} :
              job[q].pc = "audit" /\ job[q].cur.session = job[p].cur.session
                => job[q].version # job[p].version
         /\ \A r \in log :
              r.session = job[p].cur.session => r.version # job[p].version + 1

Abs == INSTANCE OperatorShift WITH snap <- hash

(* The request that writes in this step loaded its snapshot before the     *)
(* shift's version was reset.                                              *)
StaleWrite ==
  \E p \in Workers : /\ job[p].pc = "cas" /\ casMatches(p) /\ job[p].shift # shift
                     /\ job'[p].pc # "cas" /\ version' # version

(* Load and compare-and-set, interleaved with everybody else's, amount to  *)
(* whole operations: every change of the live snapshot is one operation of *)
(* OperatorShift on the snapshot it replaces, unless the writer loaded it  *)
(* in an earlier shift.                                                    *)
WritesAreAtomic == [][StaleWrite \/ Abs!Next]_hash

(* A call in flight is never displaced by another: whatever requests race, *)
(* current_call_id passes from one call to the next through nil only.      *)
CallNotDisplaced ==
  [][hash.call # Nil => hash'.call \in {hash.call, Nil} \/ StaleWrite]_hash

(* The same without the exception: OperatorFSM implements OperatorShift.   *)
(* internal/dialer/fsm/doc.go says the versioned script never lets         *)
(* concurrent transitions tear the snapshot.                               *)
ImplementsOperatorShift == Abs!Spec

(* The watchdog: an operator who went away does not stay on shift.         *)
AbsentGoesOffline == ~ presence ~> (presence \/ hash.state = "offline")

=============================================================================
