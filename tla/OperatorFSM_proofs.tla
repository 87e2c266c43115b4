-------------------------- MODULE OperatorFSM_proofs --------------------------
(***************************************************************************)
(* Proofs about OperatorFSM, for any number of requests, sessions, calls   *)
(* and steps.  The inductive invariant IInv adds to the checked invariants *)
(* what makes the version an optimistic lock (VersionInv), where the       *)
(* snapshots about to be written come from (UpdateInv) and who may know a  *)
(* session row (SessionInv).                                               *)
(***************************************************************************)
EXTENDS OperatorFSM, TLAPS

-----------------------------------------------------------------------------
(* Facts about the operations on snapshots.                                *)

(* buildNextSnapshot makes a well-formed snapshot of a well-formed one.    *)
LEMMA BuildType ==
  ASSUME NEW cur \in Snapshot, NEW next \in States
  PROVE  buildNextSnapshot(cur, next) \in Snapshot
BY Zenon DEF Snapshot, buildNextSnapshot

(* One operation of machine.go takes a well-formed snapshot to a well-     *)
(* formed snapshot.                                                        *)
LEMMA EffectType ==
  ASSUME NEW cur \in Snapshot, NEW upd, Effect(cur, upd)
  PROVE  upd \in Snapshot
<1>0. Offline \in Snapshot
  BY Zenon DEF Offline, Snapshot, States
<1>1. CASE upd \in EndShift(cur)
  BY <1>0, <1>1, Zenon DEF EndShift
<1>2. ASSUME NEW reason \in BOOLEAN, upd \in GoPause(cur, reason)
      PROVE  upd \in Snapshot
  <2>1. PICK next \in States : upd = [buildNextSnapshot(cur, next) EXCEPT !.pause = reason]
    BY <1>2, Zenon DEF GoPause, resolveTransition
  <2> QED BY <2>1, BuildType, Zenon DEF Snapshot
<1>3. CASE upd \in Resume(cur)
  <2>1. PICK next \in States : upd = [buildNextSnapshot(cur, next) EXCEPT !.pause = FALSE]
    BY <1>3, Zenon DEF Resume, resolveTransition
  <2> QED BY <2>1, BuildType, Zenon DEF Snapshot
<1>4. ASSUME NEW c \in Calls, upd \in RecordCallStarted(cur, c)
      PROVE  upd \in Snapshot
  <2>1. PICK next \in States : upd = [buildNextSnapshot(cur, next) EXCEPT !.call = c]
    BY <1>4, Zenon DEF RecordCallStarted, resolveTransition
  <2> QED BY <2>1, BuildType, Zenon DEF Snapshot
<1>5. ASSUME NEW o \in Outcomes, upd \in RecordCallEnded(cur, o)
      PROVE  upd \in Snapshot
  <2>1. PICK next \in States : upd = [buildNextSnapshot(cur, next) EXCEPT !.outcome = o]
    BY <1>5, Zenon DEF RecordCallEnded, resolveTransition
  <2> QED BY <2>1, BuildType, Zenon DEF Snapshot
<1>6. CASE upd \in SubmitStatus(cur)
  <2>1. PICK next \in States :
          upd = [buildNextSnapshot(cur, next) EXCEPT !.call = Nil, !.outcome = Nil]
    BY <1>6, Zenon DEF SubmitStatus, resolveTransition
  <2> QED BY <2>1, BuildType, Zenon DEF Snapshot
<1>7. CASE upd \in GoVerify(cur)
  BY <1>7, BuildType, Zenon DEF GoVerify, resolveTransition
<1>8. CASE upd \in VerifyDone(cur)
  BY <1>8, BuildType, Zenon DEF VerifyDone, resolveTransition
<1>9. ASSUME NEW target \in States, upd \in ForceState(cur, target)
      PROVE  upd \in Snapshot
  BY <1>0, <1>9, Zenon DEF ForceState, Snapshot
<1> QED
  BY <1>1, <1>2, <1>3, <1>4, <1>5, <1>6, <1>7, <1>8, <1>9, Zenon DEF Effect

(* Where the edges of the transition table lead.                           *)
LEMMA Edges ==
  ASSUME NEW cur \in Snapshot, NEW next
  PROVE /\ next \in resolveTransition(cur, "go_pause") =>
             cur.state # "pause" /\ next = "pause"
        /\ next \in resolveTransition(cur, "resume") =>
             cur.state = "pause" /\ next = "ready"
        /\ next \in resolveTransition(cur, "call_started") =>
             cur.state \in {"ready", "dialing"} /\ next \in {"dialing", "call"}
        /\ next \in resolveTransition(cur, "call_ended") =>
             cur.state \in {"dialing", "call"} /\ next = "status"
        /\ next \in resolveTransition(cur, "status_submitted") =>
             cur.state = "status" /\ next = "ready"
        /\ next \in resolveTransition(cur, "go_verify") =>
             cur.state = "status" /\ next = "verify"
        /\ next \in resolveTransition(cur, "verify_done") =>
             cur.state = "verify" /\ next = "ready"
BY Zenon DEF resolveTransition, transitions, Snapshot, States

(* The fields of a snapshot buildNextSnapshot makes.                       *)
LEMMA BuildFields ==
  ASSUME NEW cur \in Snapshot, NEW next \in States
  PROVE  LET b == buildNextSnapshot(cur, next) IN
         /\ b.state = next /\ b.session = cur.session /\ b.call = cur.call
         /\ b.pause = cur.pause
         /\ b.outcome = IF cur.state = "status" /\ next # "status" THEN Nil ELSE cur.outcome
BY Zenon DEF Snapshot, buildNextSnapshot

(* Every operation yields a snapshot whose optional fields agree with its  *)
(* state, keeps the session unless it goes offline, and unbinds it then.   *)
LEMMA EffectClean ==
  ASSUME NEW cur \in Snapshot, Clean(cur), NEW upd, Effect(cur, upd)
  PROVE  /\ Clean(upd)
         /\ upd.session = IF upd.state = "offline" THEN Nil ELSE cur.session
<1> DEFINE Goal == /\ Clean(upd)
                   /\ upd.session = IF upd.state = "offline" THEN Nil ELSE cur.session
<1>1. ASSUME upd \in EndShift(cur) PROVE Goal
  BY <1>1 DEF EndShift, Offline, Clean
<1>2. ASSUME NEW reason \in BOOLEAN, upd \in GoPause(cur, reason)
      PROVE  Goal
  <2>1. PICK next \in resolveTransition(cur, "go_pause") :
          upd = [buildNextSnapshot(cur, next) EXCEPT !.pause = reason]
    BY <1>2, Zenon DEF GoPause
  <2>2. next \in States
    BY Zenon DEF resolveTransition
  <2>3. buildNextSnapshot(cur, next) \in Snapshot
    BY <2>2, BuildType, Zenon
  <2> QED BY <2>1, <2>2, <2>3, BuildFields, Edges DEF Snapshot, Clean
<1>3. ASSUME upd \in Resume(cur)
      PROVE  Goal
  <2>1. PICK next \in resolveTransition(cur, "resume") :
          upd = [buildNextSnapshot(cur, next) EXCEPT !.pause = FALSE]
    BY <1>3, Zenon DEF Resume
  <2>2. next \in States
    BY Zenon DEF resolveTransition
  <2>3. buildNextSnapshot(cur, next) \in Snapshot
    BY <2>2, BuildType, Zenon
  <2> QED BY <2>1, <2>2, <2>3, BuildFields, Edges DEF Snapshot, Clean
<1>4. ASSUME NEW c \in Calls, upd \in RecordCallStarted(cur, c)
      PROVE  Goal
  <2>1. PICK next \in resolveTransition(cur, "call_started") :
          upd = [buildNextSnapshot(cur, next) EXCEPT !.call = c]
    BY <1>4, Zenon DEF RecordCallStarted
  <2>2. next \in States
    BY Zenon DEF resolveTransition
  <2>3. buildNextSnapshot(cur, next) \in Snapshot
    BY <2>2, BuildType, Zenon
  <2> QED BY <2>1, <2>2, <2>3, BuildFields, Edges DEF Snapshot, Clean
<1>5. ASSUME NEW o \in Outcomes, upd \in RecordCallEnded(cur, o)
      PROVE  Goal
  <2>1. PICK next \in resolveTransition(cur, "call_ended") :
          upd = [buildNextSnapshot(cur, next) EXCEPT !.outcome = o]
    BY <1>5, Zenon DEF RecordCallEnded
  <2>2. next \in States
    BY Zenon DEF resolveTransition
  <2>3. buildNextSnapshot(cur, next) \in Snapshot
    BY <2>2, BuildType, Zenon
  <2> QED BY <2>1, <2>2, <2>3, BuildFields, Edges DEF Snapshot, Clean
<1>6. ASSUME upd \in SubmitStatus(cur)
      PROVE  Goal
  <2>1. PICK next \in resolveTransition(cur, "status_submitted") :
          upd = [buildNextSnapshot(cur, next) EXCEPT !.call = Nil, !.outcome = Nil]
    BY <1>6, Zenon DEF SubmitStatus
  <2>2. next \in States
    BY Zenon DEF resolveTransition
  <2>3. buildNextSnapshot(cur, next) \in Snapshot
    BY <2>2, BuildType, Zenon
  <2> QED BY <2>1, <2>2, <2>3, BuildFields, Edges, Zenon DEF Snapshot, Clean
<1>7. ASSUME upd \in GoVerify(cur)
      PROVE  Goal
  <2>1. PICK next \in resolveTransition(cur, "go_verify") :
          upd = buildNextSnapshot(cur, next)
    BY <1>7, Zenon DEF GoVerify
  <2>2. next \in States
    BY Zenon DEF resolveTransition
  <2>3. buildNextSnapshot(cur, next) \in Snapshot
    BY <2>2, BuildType, Zenon
  <2> QED BY <2>1, <2>2, <2>3, BuildFields, Edges DEF Snapshot, Clean
<1>8. ASSUME upd \in VerifyDone(cur)
      PROVE  Goal
  <2>1. PICK next \in resolveTransition(cur, "verify_done") :
          upd = buildNextSnapshot(cur, next)
    BY <1>8, Zenon DEF VerifyDone
  <2>2. next \in States
    BY Zenon DEF resolveTransition
  <2>3. buildNextSnapshot(cur, next) \in Snapshot
    BY <2>2, BuildType, Zenon
  <2> QED BY <2>1, <2>2, <2>3, BuildFields, Edges DEF Snapshot, Clean
<1>9. ASSUME NEW target \in States, upd \in ForceState(cur, target)
      PROVE  Goal
  BY <1>9, Zenon DEF ForceState, Offline, Clean
<1> QED
  BY <1>1, <1>2, <1>3, <1>4, <1>5, <1>6, <1>7, <1>8, <1>9, Zenon DEF Effect

(* The empty snapshot, and a goroutine serving no request, are well        *)
(* formed.                                                                 *)
LEMMA OfflineType == Offline \in Snapshot /\ IdleJob \in Job
BY NilAssumption, Zenon DEF Offline, Snapshot, States, IdleJob, Job, PCs, Ops

-----------------------------------------------------------------------------
(* The inductive invariant.                                                *)

InFlight == {"cas", "audit"}

(* What a request is about to write is the effect of one operation on the  *)
(* snapshot it loaded.                                                     *)
UpdateInv ==
  \A p \in Workers : job[p].pc \in InFlight =>
    Effect(job[p].cur, job[p].upd) /\ Clean(job[p].cur)

(* Within a shift versions only grow, and no load is from the future.      *)
VersionInv ==
  \A p \in Workers :
    /\ job[p].shift <= shift
    /\ job[p].pc = "cas" /\ job[p].shift = shift => job[p].version <= version

(* The session bound into the hash has been inserted.                      *)
BoundInserted == hash.session # Nil => sessions[hash.session] # "free"

(* So has the session of a loaded snapshot, and an audit always has one.   *)
LoadedInserted ==
  \A p \in Workers :
    /\ job[p].pc \in InFlight /\ job[p].cur.session # Nil
         => sessions[job[p].cur.session] # "free"
    /\ job[p].pc = "audit" => job[p].cur.session # Nil

(* A session row is known to nobody but its inserter until start_shift.lua *)
(* binds it.                                                               *)
FreshIsPrivate ==
  \A p \in Workers : job[p].pc = "start_cas" =>
    /\ job[p].session # Nil
    /\ sessions[job[p].session] = "open"
    /\ hash.session # job[p].session
    /\ \A q \in Workers :
         /\ job[q].pc \in InFlight => job[q].cur.session # job[p].session
         /\ q # p /\ job[q].pc = "start_cas" => job[q].session # job[p].session

SessionInv == BoundInserted /\ LoadedInserted /\ FreshIsPrivate

(* The session a request is closing has been unbound.                      *)
ClosingInv ==
  ~ overwritten =>
    \A p \in Workers : closing(job[p]) => job[p].cur.session # hash.session

IInv ==
  /\ TypeOK /\ CleanSnapshot /\ UpdateInv /\ VersionInv /\ NoLostUpdate
  /\ SessionInv /\ ClosingInv /\ LiveSessionIsOpen /\ NoSilentSessionLeak

-----------------------------------------------------------------------------
(* The steps of Next by what they do to the shared state and to one job.   *)

kept == <<hash, version, sessions, log, shift, overwritten, orphans>>

(* A request, or the watchdog's Force, loads a snapshot.                   *)
LoadStep(p) ==
  /\ job[p].pc \in {"idle", "force"}
  /\ \E op \in Ops, upd \in Snapshot, call \in Calls \cup {Nil} :
       Effect(hash, upd) /\ Loaded(p, op, upd, call)
  /\ UNCHANGED kept

(* A job moves between program points at which it holds nothing.           *)
QuietStep(p) ==
  /\ job[p].pc \notin {"start_cas", "audit"}
  /\ \E j \in Job :
       /\ j.pc \in {"idle", "insert", "exists", "force"}
       /\ j.shift <= shift
       /\ job' = [job EXCEPT ![p] = j]
  /\ UNCHANGED kept

(* A job ends, and the session it held is given up.                        *)
GiveUpStep(p) ==
  /\ \E O \in SUBSET Sessions :
       /\ orphans' = orphans \cup O
       /\ job[p].pc = "start_cas" => job[p].session \in O
       /\ closing(job[p]) => job[p].cur.session \in O
  /\ Done(p)
  /\ UNCHANGED <<hash, version, sessions, log, shift, overwritten>>

(* A request that gets as far as a write has loaded the present hash and   *)
(* version, and its update is one operation on what it loaded; StartShift  *)
(* has found the operator offline.                                         *)
LEMMA RequestStep ==
  ASSUME TypeOK, SessionInv, NEW p \in Procs, Request(p)
  PROVE  LoadStep(p) \/ QuietStep(p)
<1> USE DEF FromOperator, FromElsewhere, Accept, stored, history, LoadStep, kept
<1>0. hash \in Snapshot
  BY Zenon DEF TypeOK
<1>1. ASSUME NEW op \in Ops, NEW upds, NEW call \in Calls \cup {Nil},
             \A upd \in upds : Effect(hash, upd),
             FromOperator(p, op, upds, call)
      PROVE  LoadStep(p)
  BY <1>0, <1>1, EffectType, Zenon
<1>2. ASSUME NEW op \in Ops, NEW upds, \A upd \in upds : Effect(hash, upd),
             FromElsewhere(p, op, upds)
      PROVE  LoadStep(p)
  BY <1>0, <1>2, EffectType, Zenon
<1> USE DEF Ops
<1> HIDE DEF FromOperator, FromElsewhere, Accept, stored, history, LoadStep, kept
<1>3. CASE EndShiftReq(p)
  BY <1>1, <1>3, Zenon DEF EndShiftReq, Effect
<1>4. CASE GoPauseReq(p)
  BY <1>1, <1>4, Zenon DEF GoPauseReq, Effect
<1>5. CASE ResumeReq(p)
  BY <1>1, <1>5, Zenon DEF ResumeReq, Effect
<1>6. CASE SubmitStatusReq(p)
  BY <1>1, <1>6, Zenon DEF SubmitStatusReq, Effect
<1>7. CASE GoVerifyReq(p)
  BY <1>1, <1>7, Zenon DEF GoVerifyReq, Effect
<1>8. CASE VerifyDoneReq(p)
  BY <1>1, <1>8, Zenon DEF VerifyDoneReq, Effect
<1>9. CASE handleAnswered(p)
  BY <1>2, <1>9, Zenon DEF handleAnswered, Effect
<1>10. CASE handleHangup(p)
  BY <1>2, <1>10, Zenon DEF handleHangup, Effect
<1>11. CASE ForceReq(p)
  BY <1>2, <1>11, Zenon DEF ForceReq, Effect
<1>12. CASE StartShiftReq(p)
  <2> DEFINE j == [IdleJob EXCEPT !.pc = "insert", !.op = "start_shift", !.shift = shift]
  <2>0. shift \in Nat /\ IdleJob \in Job
    BY OfflineType, Zenon DEF TypeOK
  <2>1. j \in Job
    BY <2>0, Zenon DEF Job, PCs, Ops
  <2>2. j.pc = "insert" /\ j.shift <= shift
    BY <2>0 DEF Job
  <2> HIDE DEF j
  <2>3. job' = [job EXCEPT ![p] = j] /\ UNCHANGED kept /\ job[p].pc = "idle"
    BY <1>12, Zenon DEF StartShiftReq, Accept, stored, history, kept, j
  <2> QED BY <2>1, <2>2, <2>3, Zenon DEF StartShiftReq, QuietStep
<1> QED
  BY <1>3, <1>4, <1>5, <1>6, <1>7, <1>8, <1>9, <1>10, <1>11, <1>12, Zenon DEF Request

(* Every step of Next is of one of these kinds.                            *)
LEMMA NextStep ==
  ASSUME TypeOK, SessionInv, VersionInv, Next
  PROVE  \/ \E p \in Workers :
              \/ LoadStep(p) \/ QuietStep(p) \/ GiveUpStep(p)
              \/ InsertSession(p) \/ StartShiftWins(p) \/ CasWins(p) \/ Audit(p)
         \/ HashExpires
         \/ UNCHANGED <<kept, job>>
<1> USE DEF Workers
<1>1. ASSUME NEW p \in Procs, Request(p) PROVE LoadStep(p) \/ QuietStep(p)
  BY <1>1, RequestStep, Zenon
<1>2. ASSUME NEW p \in Workers, CasConflicts(p) PROVE QuietStep(p)
  <2>1. IdleJob \in Job /\ IdleJob.pc = "idle" /\ IdleJob.shift <= shift
    BY OfflineType DEF IdleJob, TypeOK
  <2> QED BY <1>2, <2>1, Zenon DEF CasConflicts, QuietStep, Done, history, kept
<1>3. ASSUME NEW p \in Workers, StartShiftLoses(p) PROVE GiveUpStep(p)
  <2>1. job[p].session \in Sessions
    BY <1>3, Zenon DEF StartShiftLoses, SessionInv, FreshIsPrivate, TypeOK, Job
  <2> QED BY <1>3, <2>1, Zenon DEF StartShiftLoses, GiveUpStep, closing
<1>4. ASSUME NEW p \in Workers, Abort(p) PROVE GiveUpStep(p)
  <2>1. job[p] \in Job
    BY Zenon DEF TypeOK
  <2>2. job[p].pc = "start_cas" => job[p].session \in Sessions
    BY <2>1, Zenon DEF SessionInv, FreshIsPrivate, Job
  <2>3. closing(job[p]) => job[p].cur.session \in Sessions
    BY <2>1, Zenon DEF SessionInv, LoadedInserted, Job, Snapshot, closing
  <2> DEFINE O == IF job[p].pc = "start_cas" THEN {job[p].session}
                  ELSE IF closing(job[p]) THEN {job[p].cur.session} ELSE {}
  <2>4. O \in SUBSET Sessions
    BY <2>2, <2>3, Zenon
  <2>5. /\ orphans' = orphans \cup O /\ Done(p)
        /\ UNCHANGED <<hash, version, sessions, log, shift, overwritten>>
    BY <1>4, Zenon DEF Abort
  <2>6. /\ job[p].pc = "start_cas" => job[p].session \in O
        /\ closing(job[p]) => job[p].cur.session \in O
    BY Zenon DEF closing
  <2> HIDE DEF O
  <2> QED BY <2>4, <2>5, <2>6, Zenon DEF GiveUpStep
<1>5. ASSUME Watch PROVE LoadStep(Watchdog) \/ QuietStep(Watchdog)
  <2>0. job[Watchdog] \in Job /\ job[Watchdog].shift <= shift /\ hash \in Snapshot
    BY Zenon DEF TypeOK, VersionInv
  <2>1. ASSUME NEW c \in {"idle", "exists", "force"},
               job[Watchdog].pc \in {"idle", "exists"},
               job' = [job EXCEPT ![Watchdog].pc = c], UNCHANGED kept
        PROVE  QuietStep(Watchdog)
    <3> DEFINE j == [job[Watchdog] EXCEPT !.pc = c]
    <3>1. j \in Job /\ j.pc = c /\ j.shift <= shift
      BY <2>0, Zenon DEF Job, PCs
    <3>2. job' = [job EXCEPT ![Watchdog] = j]
      BY <2>1, Zenon
    <3> HIDE DEF j
    <3> QED BY <2>1, <3>1, <3>2, Zenon DEF QuietStep
  <2>2. CASE WatchState
    BY <2>1, <2>2, Zenon DEF WatchState, kept, history
  <2>3. CASE WatchPresence
    BY <2>1, <2>3, Zenon DEF WatchPresence, kept, history
  <2>4. CASE WatchForce /\ Done(Watchdog)
    <3>1. IdleJob \in Job /\ IdleJob.pc = "idle" /\ IdleJob.shift <= shift
      BY OfflineType DEF IdleJob, TypeOK
    <3> QED BY <2>4, <3>1, Zenon DEF WatchForce, Done, QuietStep, kept, history
  <2>5. CASE WatchForce /\ \E upd \in ForceState(hash, "offline") :
                              Loaded(Watchdog, "force", upd, Nil)
    <3>1. PICK upd \in ForceState(hash, "offline") : Loaded(Watchdog, "force", upd, Nil)
      BY <2>5, Zenon
    <3>2. Effect(hash, upd)
      BY Zenon DEF Effect, States
    <3>3. upd \in Snapshot
      BY <2>0, <3>2, EffectType, Zenon
    <3> QED BY <2>5, <3>1, <3>2, <3>3, Zenon DEF WatchForce, LoadStep, kept, history, Ops
  <2> QED BY <1>5, <2>2, <2>3, <2>4, <2>5, Zenon DEF Watch, WatchForce
<1>6. ASSUME Ping \/ PresenceExpires PROVE UNCHANGED <<kept, job>>
  BY <1>6, Zenon DEF Ping, PresenceExpires, stored, history, kept
<1> QED BY <1>1, <1>2, <1>3, <1>4, <1>5, <1>6, Zenon DEF Next, Write

-----------------------------------------------------------------------------
(* Type correctness.                                                       *)

(* The variables other than job, hash, sessions and log keep their types.  *)
LEMMA SmallTypes ==
  ASSUME TypeOK, [Next]_vars
  PROVE  presence' \in BOOLEAN /\ requests' \in Nat /\ aborts' \in Nat
<1> USE DEF TypeOK
<1>1. ASSUME NEW p \in Procs, Request(p)
      PROVE presence' \in BOOLEAN /\ requests' \in Nat /\ aborts' \in Nat
  <2> USE DEF Request, EndShiftReq, GoPauseReq, ResumeReq, SubmitStatusReq, GoVerifyReq,
     VerifyDoneReq, handleAnswered, handleHangup, ForceReq, StartShiftReq,
     FromOperator, FromElsewhere, Accept, stored
  <2>1. requests' = requests + 1 /\ aborts' = aborts
    BY <1>1, Zenon
  <2>2. presence' = TRUE \/ presence' = presence
    BY <1>1, Zenon
  <2>3. presence' \in BOOLEAN
    BY <2>2, Zenon
  <2>4. requests' \in Nat /\ aborts' \in Nat
    BY <2>1
  <2> QED BY <2>3, <2>4, Zenon
<1>2. ASSUME NEW p \in Workers, Write(p) \/ Abort(p)
      PROVE presence' \in BOOLEAN /\ requests' \in Nat /\ aborts' \in Nat
  BY <1>2 DEF Write, InsertSession, StartShiftWins, StartShiftLoses, CasWins, CasConflicts,
     Audit, Abort, bookkeeping
<1>3. CASE Watch
  BY <1>3, Zenon DEF Watch, WatchState, WatchPresence, WatchForce, bookkeeping
<1>4. CASE Ping \/ PresenceExpires \/ HashExpires
  <2>1. /\ requests' = requests + 1 \/ requests' = requests
        /\ aborts' = aborts
        /\ presence' = TRUE \/ presence' = FALSE \/ presence' = presence
    BY <1>4, Zenon DEF Ping, PresenceExpires, HashExpires, bookkeeping, stored
  <2>2. presence' \in BOOLEAN
    BY <2>1, Zenon
  <2>3. requests' \in Nat /\ aborts' \in Nat
    BY <2>1
  <2> QED BY <2>2, <2>3, Zenon
<1>5. CASE UNCHANGED vars
  BY <1>5, Zenon DEF vars, bookkeeping
<1> QED BY <1>1, <1>2, <1>3, <1>4, <1>5, Zenon DEF Next

(* Every step of a request, the watchdog or the clock keeps the type       *)
(* invariant.                                                              *)
LEMMA TypeStep ==
  ASSUME TypeOK, SessionInv, VersionInv, [Next]_vars
  PROVE  TypeOK'
<1>0. presence' \in BOOLEAN /\ requests' \in Nat /\ aborts' \in Nat
  BY SmallTypes, Zenon
<1> DEFINE T == /\ hash' \in Snapshot
                /\ version' \in Nat
                /\ sessions' \in [Sessions -> {"free", "open", "closed"}]
                /\ log' \subseteq LogRow
                /\ job' \in [Workers -> Job]
                /\ shift' \in Nat
                /\ overwritten' \in BOOLEAN
                /\ orphans' \subseteq Sessions
<1>1. SUFFICES T
  BY <1>0, Zenon DEF TypeOK
<1>2. ASSUME NEW p \in Workers, NEW j \in Job, job' = [job EXCEPT ![p] = j]
      PROVE  job' \in [Workers -> Job]
  BY <1>2, Zenon DEF TypeOK
<1>3. ASSUME NEW p \in Workers, Done(p) PROVE job' \in [Workers -> Job]
  BY <1>2, <1>3, OfflineType, Zenon DEF Done
<1>4. CASE UNCHANGED <<kept, job>>
  BY <1>4, Zenon DEF kept, TypeOK
<1>5. CASE HashExpires
  BY <1>5, OfflineType DEF HashExpires, TypeOK, Snapshot
<1>6. ASSUME NEW p \in Workers, LoadStep(p) PROVE T
  <2>1. PICK op \in Ops, upd \in Snapshot, call \in Calls \cup {Nil} :
          Loaded(p, op, upd, call)
    BY <1>6, Zenon DEF LoadStep
  <2> DEFINE j == [ pc |-> "cas", op |-> op, cur |-> hash, version |-> version,
                    shift |-> shift, upd |-> upd, session |-> Nil, call |-> call ]
  <2>2. j \in Job
    BY Zenon DEF TypeOK, Job, PCs
  <2>3. job' = [job EXCEPT ![p] = j]
    BY <2>1, Zenon DEF Loaded
  <2> HIDE DEF j
  <2> QED BY <1>2, <1>6, <2>2, <2>3, Zenon DEF LoadStep, kept, TypeOK
<1>7. ASSUME NEW p \in Workers, QuietStep(p) PROVE T
  BY <1>2, <1>7, Zenon DEF QuietStep, kept, TypeOK
<1>8. ASSUME NEW p \in Workers, GiveUpStep(p) PROVE T
  BY <1>3, <1>8, Zenon DEF GiveUpStep, TypeOK
<1>9. ASSUME NEW p \in Workers, InsertSession(p) PROVE T
  <2>1. PICK s \in Sessions :
          /\ sessions' = [sessions EXCEPT ![s] = "open"]
          /\ log' = log \cup {[ session |-> s, version |-> 1, state |-> "ready",
                                finalized |-> Nil ]}
          /\ job' = [job EXCEPT ![p].pc = "start_cas", ![p].session = s]
    BY <1>9, Zenon DEF InsertSession
  <2>2. [job[p] EXCEPT !.pc = "start_cas", !.session = s] \in Job
    BY ZenonT(40) DEF TypeOK, Job, PCs
  <2>3. job' = [job EXCEPT ![p] = [job[p] EXCEPT !.pc = "start_cas", !.session = s]]
    BY <2>1, Zenon DEF TypeOK
  <2>4. job' \in [Workers -> Job]
    BY <1>2, <2>2, <2>3, Zenon
  <2>5. log' \subseteq LogRow
    BY <2>1 DEF TypeOK, LogRow, States
  <2>6. sessions' \in [Sessions -> {"free", "open", "closed"}]
    BY <2>1, Zenon DEF TypeOK
  <2> QED BY <1>9, <2>4, <2>5, <2>6, Zenon DEF InsertSession, TypeOK, history
<1>10. ASSUME NEW p \in Workers, StartShiftWins(p) PROVE T
  <2>1. hash' \in Snapshot
    BY <1>10, Zenon DEF StartShiftWins, startShiftWrites, TypeOK, Job, Snapshot, States
  <2> QED BY <1>3, <1>10, <2>1 DEF StartShiftWins, startShiftWrites, TypeOK
<1>11. ASSUME NEW p \in Workers, CasWins(p) PROVE T
  <2> DEFINE j == IF job[p].cur.session = Nil THEN IdleJob
                  ELSE [job[p] EXCEPT !.pc = "audit"]
  <2>1. j \in Job
    BY OfflineType DEF TypeOK, Job, PCs
  <2>2. job' = [job EXCEPT ![p] = j]
    BY <1>11, Zenon DEF CasWins, TypeOK
  <2> HIDE DEF j
  <2>3. job[p].upd \in Snapshot
    BY Zenon DEF TypeOK, Job
  <2> QED BY <1>2, <1>11, <2>1, <2>2, <2>3 DEF CasWins, TypeOK
<1>12. ASSUME NEW p \in Workers, Audit(p) PROVE T
  <2>0. job[p] \in Job
    BY Zenon DEF TypeOK
  <2>1. job[p].cur.session \in Sessions
    BY <1>12, <2>0, Zenon DEF Audit, SessionInv, LoadedInserted, Job, Snapshot
  <2>2. finalizedCall(job[p]) \in Calls \cup {Nil}
    BY <2>0, Zenon DEF finalizedCall, Job, Snapshot
  <2>3. pendingRow(job[p]) \in LogRow
    BY <2>0, <2>1, <2>2 DEF pendingRow, LogRow, Job, Snapshot
  <2>4. log' \subseteq LogRow
    BY <1>12, <2>3, Zenon DEF Audit, TypeOK
  <2>5. sessions' \in [Sessions -> {"free", "open", "closed"}]
    BY <1>12, Zenon DEF Audit, TypeOK
  <2> QED BY <1>3, <1>12, <2>4, <2>5, Zenon DEF Audit, TypeOK, history
<1> QED
  <2>1. CASE UNCHANGED vars
    BY <1>4, <2>1, Zenon DEF vars, kept, history
  <2>2. CASE Next
    BY <1>4, <1>5, <1>6, <1>7, <1>8, <1>9, <1>10, <1>11, <1>12, <2>2, NextStep, Zenon
  <2> QED BY <2>1, <2>2, Zenon

-----------------------------------------------------------------------------
(* The version is an optimistic lock.                                      *)

LockInv == CleanSnapshot /\ UpdateInv /\ VersionInv /\ NoLostUpdate

(* Every step keeps the optimistic lock of transition.lua: the loaded      *)
(* version is never ahead of the stored one within a shift, and an equal   *)
(* version means an equal snapshot.                                        *)
LEMMA LockStep ==
  ASSUME TypeOK, SessionInv, LockInv, [Next]_vars
  PROVE  LockInv'
<1> USE DEF LockInv
<1>1. CASE UNCHANGED <<kept, job>>
  BY <1>1, Zenon DEF kept, CleanSnapshot, UpdateInv, VersionInv, NoLostUpdate, casMatches
<1>2. CASE HashExpires
  <2>1. Clean(Offline)
    BY Zenon DEF Clean, Offline
  <2>2. /\ hash' = Offline /\ shift' = shift + 1 /\ job' = job
        /\ \A p \in Workers : job[p].pc = "idle"
    BY <1>2, Zenon DEF HashExpires
  <2> QED BY <2>1, <2>2 DEF TypeOK, Job, CleanSnapshot, UpdateInv, VersionInv, NoLostUpdate,
             InFlight, casMatches
<1>3. ASSUME NEW p \in Workers, LoadStep(p) PROVE LockInv'
  <2>1. PICK op \in Ops, upd \in Snapshot, call \in Calls \cup {Nil} :
          Effect(hash, upd) /\ Loaded(p, op, upd, call)
    BY <1>3, Zenon DEF LoadStep
  <2>2. UNCHANGED <<hash, version, shift>>
    BY <1>3, Zenon DEF LoadStep, kept
  <2>3. \A q \in Workers : job'[q] =
          IF q = p THEN [ pc |-> "cas", op |-> op, cur |-> hash, version |-> version,
                          shift |-> shift, upd |-> upd, session |-> Nil, call |-> call ]
          ELSE job[q]
    BY <2>1, Zenon DEF Loaded, TypeOK
  <2>4. UpdateInv'
    BY <2>1, <2>2, <2>3, SMTT(30) DEF UpdateInv, CleanSnapshot
  <2>5. VersionInv' /\ NoLostUpdate'
    BY <2>2, <2>3 DEF VersionInv, NoLostUpdate, TypeOK, casMatches
  <2> QED BY <2>2, <2>4, <2>5, Zenon DEF CleanSnapshot
<1>4. ASSUME NEW p \in Workers, QuietStep(p) PROVE LockInv'
  <2>1. PICK j \in Job : /\ j.pc \in {"idle", "insert", "exists", "force"}
                         /\ j.shift <= shift
                         /\ job' = [job EXCEPT ![p] = j]
    BY <1>4, Zenon DEF QuietStep
  <2>2. UNCHANGED <<hash, version, shift>>
    BY <1>4, Zenon DEF QuietStep, kept
  <2>3. \A q \in Workers : job'[q] = IF q = p THEN j ELSE job[q]
    BY <2>1, Zenon DEF TypeOK
  <2>4. j.pc \notin InFlight
    BY <2>1, Zenon DEF InFlight
  <2> QED BY <2>1, <2>2, <2>3, <2>4 DEF CleanSnapshot, UpdateInv, VersionInv, NoLostUpdate,
             casMatches
<1>5. ASSUME NEW p \in Workers, Done(p), UNCHANGED <<hash, version, shift>>
      PROVE  LockInv'
  <2>1. \A q \in Workers : job'[q] = IF q = p THEN IdleJob ELSE job[q]
    BY <1>5, Zenon DEF Done, TypeOK
  <2>2. IdleJob.pc \notin InFlight /\ IdleJob.shift = 0 /\ shift \in Nat
    BY Zenon DEF IdleJob, InFlight, TypeOK
  <2>3. 0 <= shift /\ IdleJob.pc # "cas"
    BY <2>2 DEF InFlight
  <2> QED BY <1>5, <2>1, <2>2, <2>3, Zenon DEF CleanSnapshot, UpdateInv, VersionInv, NoLostUpdate,
             casMatches
<1>6. ASSUME NEW p \in Workers, GiveUpStep(p) PROVE LockInv'
  BY <1>5, <1>6, Zenon DEF GiveUpStep
<1>7. ASSUME NEW p \in Workers, Audit(p) PROVE LockInv'
  BY <1>5, <1>7, Zenon DEF Audit, history
<1>8. ASSUME NEW p \in Workers, InsertSession(p) PROVE LockInv'
  <2>1. PICK s \in Sessions :
          job' = [job EXCEPT ![p].pc = "start_cas", ![p].session = s]
    BY <1>8, Zenon DEF InsertSession
  <2>2. /\ \A q \in Workers \ {p} : job'[q] = job[q]
        /\ job'[p].pc = "start_cas" /\ job'[p].shift = job[p].shift
    BY <2>1, Zenon DEF TypeOK, Job
  <2>3. UNCHANGED <<hash, version, shift>>
    BY <1>8, Zenon DEF InsertSession, history
  <2> QED BY <2>2, <2>3, Zenon DEF CleanSnapshot, UpdateInv, VersionInv, NoLostUpdate,
             casMatches, InFlight
<1>9. ASSUME NEW p \in Workers, StartShiftWins(p) PROVE LockInv'
  <2>1. \A q \in Workers : job'[q] = IF q = p THEN IdleJob ELSE job[q]
    BY <1>9, Zenon DEF StartShiftWins, Done, TypeOK
  <2>2. shift' = shift + 1 /\ shift \in Nat
    BY <1>9, Zenon DEF StartShiftWins, TypeOK
  <2>3. \A q \in Workers : job'[q].shift <= shift /\ job'[q].shift \in Nat
    BY <2>1, <2>2 DEF VersionInv, IdleJob, TypeOK, Job
  <2>4. UpdateInv'
    BY <2>1, SMTT(30) DEF UpdateInv, IdleJob, InFlight
  <2>5. VersionInv' /\ NoLostUpdate'
    BY <2>2, <2>3 DEF VersionInv, NoLostUpdate
  <2>6. CleanSnapshot'
    <3>1. hash = Offline
      BY <1>9, Zenon DEF StartShiftWins, CleanSnapshot, Clean
    <3>2. hash' = [Offline EXCEPT !.state = "ready", !.session = job[p].session]
      BY <1>9, <3>1, Zenon DEF StartShiftWins, startShiftWrites
    <3> QED BY <3>2, Zenon DEF CleanSnapshot, Clean, Offline
  <2> QED BY <2>4, <2>5, <2>6, Zenon
<1>10. ASSUME NEW p \in Workers, CasWins(p) PROVE LockInv'
  <2>0. job[p] \in Job /\ job[p].cur \in Snapshot /\ version \in Nat
    BY Zenon DEF TypeOK, Job
  <2>1. /\ job'[p].pc \in {"idle", "audit"}
        /\ job'[p].shift <= shift
        /\ job'[p].pc = "audit" => job'[p].cur = job[p].cur /\ job'[p].upd = job[p].upd
        /\ \A q \in Workers \ {p} : job'[q] = job[q]
    BY <1>10, <2>0 DEF CasWins, IdleJob, Job, TypeOK, VersionInv
  <2>2. Effect(job[p].cur, job[p].upd) /\ Clean(job[p].cur)
    BY <1>10, Zenon DEF CasWins, UpdateInv, InFlight
  <2>3. hash' = job[p].upd /\ version' = version + 1 /\ shift' = shift
    BY <1>10, Zenon DEF CasWins
  <2>4. CleanSnapshot'
    BY <2>0, <2>2, <2>3, EffectClean, Zenon DEF CleanSnapshot
  <2>5. UpdateInv'
    BY <2>1, <2>2, Zenon DEF UpdateInv, InFlight
  <2>6. VersionInv'
    BY <2>0, <2>1, <2>3 DEF VersionInv, TypeOK, Job
  <2>7. NoLostUpdate'
    BY <2>0, <2>1, <2>3 DEF VersionInv, NoLostUpdate, TypeOK, Job, casMatches
  <2> QED BY <2>4, <2>5, <2>6, <2>7, Zenon
<1> QED
  <2>1. CASE UNCHANGED vars
    BY <1>1, <2>1, Zenon DEF vars, kept, history
  <2>2. CASE Next
    BY <1>1, <1>2, <1>3, <1>4, <1>6, <1>7, <1>8, <1>9, <1>10, <2>2, NextStep, Zenon
  <2> QED BY <2>1, <2>2, Zenon

-----------------------------------------------------------------------------
(* Sessions: bound while open, closed only when unbound, never forgotten.  *)

OpenInv == SessionInv /\ ClosingInv /\ LiveSessionIsOpen /\ NoSilentSessionLeak

(* Every step keeps account of the operator_sessions rows: StartShift      *)
(* opens one before it binds it, going offline unbinds one before it       *)
(* closes it.                                                              *)
LEMMA SessionStep ==
  ASSUME TypeOK, LockInv, OpenInv, [Next]_vars
  PROVE  OpenInv'
<1> USE DEF OpenInv, SessionInv
<1> USE NilAssumption
<1>0. hash \in Snapshot /\ \A q \in Workers : job[q] \in Job /\ job[q].cur \in Snapshot
  BY Zenon DEF TypeOK, Job
<1>r. ASSUME NEW p \in Workers,
             \A q \in Workers \ {p} : job'[q] = job[q],
             job'[p].pc \notin {"start_cas", "cas", "audit"},
             hash' = hash,
             \A t \in Sessions :
               \/ sessions'[t] = sessions[t]
               \/ sessions'[t] = "closed" /\ \A q \in Workers :
                    job[q].pc = "start_cas" => job[q].session # t
      PROVE  SessionInv'
  <2>1. BoundInserted'
    BY <1>0, <1>r, Zenon DEF BoundInserted, Snapshot
  <2>2. LoadedInserted'
    <3> SUFFICES ASSUME NEW q \in Workers, job'[q].pc \in InFlight
                 PROVE  /\ job'[q].cur.session # Nil => sessions'[job'[q].cur.session] # "free"
                        /\ job'[q].pc = "audit" => job'[q].cur.session # Nil
      BY Zenon DEF LoadedInserted, InFlight
    <3>1. job'[q] = job[q]
      BY <1>r, Zenon DEF InFlight
    <3> QED BY <1>0, <1>r, <3>1 DEF LoadedInserted, Snapshot
  <2>3. FreshIsPrivate'
    <3> SUFFICES ASSUME NEW q \in Workers, job'[q].pc = "start_cas"
                 PROVE  /\ job'[q].session # Nil
                        /\ sessions'[job'[q].session] = "open"
                        /\ hash'.session # job'[q].session
                        /\ \A w \in Workers :
                             /\ job'[w].pc \in InFlight => job'[w].cur.session # job'[q].session
                             /\ w # q /\ job'[w].pc = "start_cas"
                                  => job'[w].session # job'[q].session
      BY Zenon DEF FreshIsPrivate
    <3>1. job'[q] = job[q] /\ job[q].session \in Sessions
      BY <1>0, <1>r DEF FreshIsPrivate, Job
    <3>2. job[q].session # Nil /\ sessions'[job[q].session] = "open" /\ hash'.session # job[q].session
      BY <1>r, <3>1 DEF FreshIsPrivate
    <3>3. ASSUME NEW w \in Workers, job'[w].pc \in InFlight
          PROVE  job'[w].cur.session # job[q].session
      BY <1>r, <3>1, <3>3 DEF FreshIsPrivate, InFlight
    <3>4. ASSUME NEW w \in Workers, w # q, job'[w].pc = "start_cas"
          PROVE  job'[w].session # job[q].session
      BY <1>r, <3>1, <3>4 DEF FreshIsPrivate
    <3> QED BY <3>1, <3>2, <3>3, <3>4, Zenon
  <2> QED BY <2>1, <2>2, <2>3, Zenon
<1>1. CASE UNCHANGED <<kept, job>>
  BY <1>1 DEF kept, BoundInserted, LoadedInserted, FreshIsPrivate, ClosingInv, LiveSessionIsOpen,
     NoSilentSessionLeak
<1>2. CASE HashExpires
  <2>1. /\ hash' = Offline /\ Offline.session = Nil /\ UNCHANGED <<job, sessions, overwritten>>
        /\ orphans' = orphans \cup ({hash.session} \ {Nil})
        /\ \A p \in Workers : job[p].pc = "idle"
    BY <1>2, Zenon DEF HashExpires, Offline
  <2>2. SessionInv' /\ ClosingInv' /\ LiveSessionIsOpen'
    BY <2>1, Zenon DEF BoundInserted, LoadedInserted, FreshIsPrivate, ClosingInv, LiveSessionIsOpen,
       InFlight, closing
  <2>3. NoSilentSessionLeak'
    BY <2>1, Zenon DEF NoSilentSessionLeak, closing
  <2> QED BY <2>2, <2>3, Zenon
<1>3. ASSUME NEW p \in Workers, LoadStep(p) PROVE OpenInv'
  <2>1. PICK op \in Ops, upd \in Snapshot, call \in Calls \cup {Nil} : Loaded(p, op, upd, call)
    BY <1>3, Zenon DEF LoadStep
  <2>2. UNCHANGED <<hash, sessions, overwritten, orphans>>
    BY <1>3, Zenon DEF LoadStep, kept
  <2>3. /\ \A q \in Workers \ {p} : job'[q] = job[q]
        /\ job'[p].pc = "cas" /\ job'[p].cur = hash
    BY <2>1, Zenon DEF Loaded, TypeOK
  <2>4. job[p].pc \notin {"start_cas", "audit"}
    BY <1>3, Zenon DEF LoadStep
  <2>5. BoundInserted' /\ LoadedInserted'
    BY <2>2, <2>3 DEF BoundInserted, LoadedInserted, InFlight
  <2>6. FreshIsPrivate'
    BY <2>2, <2>3 DEF FreshIsPrivate, InFlight
  <2> QED BY <2>2, <2>3, <2>4, <2>5, <2>6 DEF ClosingInv, LiveSessionIsOpen, NoSilentSessionLeak, closing
<1>4. ASSUME NEW p \in Workers, QuietStep(p) PROVE OpenInv'
  <2>1. PICK j \in Job : /\ j.pc \in {"idle", "insert", "exists", "force"}
                         /\ job' = [job EXCEPT ![p] = j]
    BY <1>4, Zenon DEF QuietStep
  <2>2. UNCHANGED <<hash, sessions, overwritten, orphans>>
    BY <1>4, Zenon DEF QuietStep, kept
  <2>3. /\ \A q \in Workers \ {p} : job'[q] = job[q]
        /\ job'[p].pc \notin {"start_cas", "audit", "cas"}
        /\ job[p].pc \notin {"start_cas", "audit"}
    BY <1>4, <2>1, Zenon DEF QuietStep, TypeOK
  <2>4. SessionInv'
    BY <1>r, <2>2, <2>3, Zenon
  <2> QED BY <2>2, <2>3, <2>4, SMTT(30) DEF ClosingInv, LiveSessionIsOpen, NoSilentSessionLeak, closing
<1>5. ASSUME NEW p \in Workers, GiveUpStep(p) PROVE OpenInv'
  <2>1. PICK O \in SUBSET Sessions :
          /\ orphans' = orphans \cup O
          /\ job[p].pc = "start_cas" => job[p].session \in O
          /\ closing(job[p]) => job[p].cur.session \in O
    BY <1>5, Zenon DEF GiveUpStep
  <2>2. /\ \A q \in Workers \ {p} : job'[q] = job[q]
        /\ job'[p].pc = "idle"
        /\ UNCHANGED <<hash, sessions, overwritten>>
    BY <1>5, Zenon DEF GiveUpStep, Done, IdleJob, TypeOK
  <2>3. SessionInv'
    BY <1>r, <2>2, Zenon
  <2>4. ClosingInv' /\ LiveSessionIsOpen'
    BY <2>2, Zenon DEF ClosingInv, LiveSessionIsOpen, closing
  <2>5. NoSilentSessionLeak'
    BY <2>1, <2>2 DEF NoSilentSessionLeak, closing
  <2> QED BY <2>3, <2>4, <2>5, Zenon
<1>6. ASSUME NEW p \in Workers, InsertSession(p) PROVE OpenInv'
  <2>1. PICK s \in Sessions :
          /\ sessions[s] = "free"
          /\ sessions' = [sessions EXCEPT ![s] = "open"]
          /\ job' = [job EXCEPT ![p].pc = "start_cas", ![p].session = s]
    BY <1>6, Zenon DEF InsertSession
  <2>2. /\ \A q \in Workers \ {p} : job'[q] = job[q]
        /\ job'[p].pc = "start_cas" /\ job'[p].session = s
        /\ job[p].pc = "insert"
    BY <1>6, <2>1 DEF InsertSession, TypeOK, Job
  <2>3. /\ UNCHANGED <<hash, overwritten, orphans>>
        /\ \A t \in Sessions : sessions'[t] = IF t = s THEN "open" ELSE sessions[t]
    BY <1>6, <2>1, Zenon DEF InsertSession, history, TypeOK
  <2>4. SessionInv'
    <3>1. s # Nil /\ hash.session # s
      BY <2>1, Zenon DEF BoundInserted
    <3>2. \A q \in Workers : /\ job[q].pc \in InFlight => job[q].cur.session # s
                             /\ job[q].pc = "start_cas" => job[q].session # s
      BY <2>1, <3>1, Zenon DEF LoadedInserted, FreshIsPrivate
    <3>3. \A q \in Workers : job'[q].pc \in InFlight => q # p
      BY <2>2, Zenon DEF InFlight
    <3>4. hash'.session # Nil => sessions'[hash'.session] # "free"
      BY <1>0, <2>3, Zenon DEF BoundInserted, Snapshot
    <3>5. ASSUME NEW q \in Workers
          PROVE  /\ job'[q].pc \in InFlight /\ job'[q].cur.session # Nil
                      => sessions'[job'[q].cur.session] # "free"
                 /\ job'[q].pc = "audit" => job'[q].cur.session # Nil
      BY <1>0, <2>2, <2>3, <3>3, SMTT(30) DEF LoadedInserted, Snapshot, InFlight
    <3>6. ASSUME NEW q \in Workers, job'[q].pc = "start_cas"
          PROVE  /\ job'[q].session # Nil
                 /\ sessions'[job'[q].session] = "open"
                 /\ hash'.session # job'[q].session
      BY <1>0, <2>2, <2>3, <3>1, <3>6, SMTT(30) DEF FreshIsPrivate, Job
    <3>7. ASSUME NEW q \in Workers, job'[q].pc = "start_cas", NEW r \in Workers
          PROVE  /\ job'[r].pc \in InFlight => job'[r].cur.session # job'[q].session
                 /\ r # q /\ job'[r].pc = "start_cas" => job'[r].session # job'[q].session
      BY <2>2, <3>2, <3>3, <3>7 DEF FreshIsPrivate
    <3> QED BY <3>4, <3>5, <3>6, <3>7, Zenon DEF BoundInserted, LoadedInserted, FreshIsPrivate
  <2>5. ClosingInv' /\ LiveSessionIsOpen'
    BY <1>0, <2>2, <2>3 DEF ClosingInv, LiveSessionIsOpen, closing, Snapshot
  <2>6. NoSilentSessionLeak'
    BY <2>2, <2>3, SMTT(30) DEF NoSilentSessionLeak, closing
  <2> QED BY <2>4, <2>5, <2>6, Zenon
<1>7. ASSUME NEW p \in Workers, StartShiftWins(p) PROVE OpenInv'
  <2>1. /\ job[p].pc = "start_cas"
        /\ \A q \in Workers \ {p} : job'[q] = job[q]
        /\ job'[p].pc = "idle"
        /\ UNCHANGED <<sessions, overwritten, orphans>>
    BY <1>7, Zenon DEF StartShiftWins, Done, IdleJob, TypeOK
  <2>2. hash'.session = job[p].session /\ hash.session = Nil
    BY <1>0, <1>7 DEF StartShiftWins, startShiftWrites, LockInv, CleanSnapshot, Clean, Offline,
       Snapshot
  <2>3. SessionInv'
    <3>1. BoundInserted'
      BY <2>1, <2>2, Zenon DEF BoundInserted, FreshIsPrivate
    <3>2. LoadedInserted'
      BY <2>1, Zenon DEF LoadedInserted, InFlight
    <3>3. FreshIsPrivate'
      BY <2>1, <2>2 DEF FreshIsPrivate, InFlight
    <3> QED BY <3>1, <3>2, <3>3, Zenon
  <2>4. ClosingInv' /\ LiveSessionIsOpen'
    BY <2>1, <2>2 DEF FreshIsPrivate, ClosingInv, LiveSessionIsOpen, closing, InFlight
  <2>5. NoSilentSessionLeak'
    BY <2>1, <2>2, SMTT(30) DEF NoSilentSessionLeak, closing
  <2> QED BY <2>3, <2>4, <2>5, Zenon
<1>8. ASSUME NEW p \in Workers, CasWins(p) PROVE OpenInv'
  <2>1. /\ job[p].pc = "cas"
        /\ \A q \in Workers \ {p} : job'[q] = job[q]
        /\ job[p].cur.session = Nil => job'[p].pc = "idle"
        /\ job[p].cur.session # Nil =>
             job'[p].pc = "audit" /\ job'[p].cur = job[p].cur /\ job'[p].upd = job[p].upd
        /\ hash' = job[p].upd
        /\ UNCHANGED <<sessions, orphans>>
    BY <1>0, <1>8, ZenonT(40) DEF CasWins, IdleJob, TypeOK, Job
  <2>2. hash'.session = IF hash'.state = "offline" THEN Nil ELSE job[p].cur.session
    <3>1. Effect(job[p].cur, job[p].upd) /\ Clean(job[p].cur)
      BY <2>1, Zenon DEF LockInv, UpdateInv, InFlight
    <3> QED BY <1>0, <2>1, <3>1, EffectClean, Zenon
  <2>3. ~ overwritten' => ~ overwritten /\ hash = job[p].cur
    BY <1>8, <2>1, Zenon DEF CasWins, LockInv, NoLostUpdate
  <2>4. SessionInv'
    <3>1. BoundInserted'
      BY <2>1, <2>2, Zenon DEF BoundInserted, LoadedInserted, InFlight
    <3>2. LoadedInserted'
      BY <2>1, ZenonT(40) DEF LoadedInserted, InFlight
    <3>3. FreshIsPrivate'
      BY <2>1, <2>2, SMTT(30) DEF FreshIsPrivate, InFlight
    <3> QED BY <3>1, <3>2, <3>3, Zenon
  <2>5. ClosingInv' /\ LiveSessionIsOpen'
    BY <2>1, <2>2, <2>3, SMTT(30) DEF LoadedInserted, ClosingInv, LiveSessionIsOpen, closing
  <2>6. NoSilentSessionLeak'
    BY <2>1, <2>2, <2>3, SMTT(30) DEF NoSilentSessionLeak, closing
  <2> QED BY <2>4, <2>5, <2>6, Zenon
<1>9. ASSUME NEW p \in Workers, Audit(p) PROVE OpenInv'
  <2>1. /\ job[p].pc = "audit"
        /\ \A q \in Workers \ {p} : job'[q] = job[q]
        /\ job'[p].pc = "idle"
        /\ UNCHANGED <<hash, overwritten, orphans>>
    BY <1>9, Zenon DEF Audit, Done, IdleJob, TypeOK, history
  <2>2. \A t \in Sessions : sessions'[t] =
          IF closing(job[p]) /\ t = job[p].cur.session THEN "closed" ELSE sessions[t]
    BY <1>9, Zenon DEF Audit, closing, TypeOK
  <2>3. SessionInv'
    <3>1. \A q \in Workers : job[q].pc = "start_cas" => job[q].session # job[p].cur.session
      BY <2>1, Zenon DEF FreshIsPrivate, InFlight
    <3>2. \A t \in Sessions :
            \/ sessions'[t] = sessions[t]
            \/ sessions'[t] = "closed" /\ \A q \in Workers :
                 job[q].pc = "start_cas" => job[q].session # t
      BY <2>2, <3>1, Zenon
    <3>3. hash' = hash /\ job'[p].pc \notin {"start_cas", "cas", "audit"}
      BY <2>1, Zenon
    <3> HIDE DEF SessionInv
    <3> QED BY ONLY <1>r, <2>1, <3>2, <3>3, Zenon
  <2>4. ClosingInv' /\ LiveSessionIsOpen'
    BY <1>0, <2>1, <2>2 DEF ClosingInv, LiveSessionIsOpen, closing, Snapshot
  <2>5. NoSilentSessionLeak'
    BY <2>1, <2>2, SMTT(30) DEF NoSilentSessionLeak, closing
  <2> QED BY <2>3, <2>4, <2>5, Zenon
<1> QED
  <2>1. CASE UNCHANGED vars
    BY <1>1, <2>1, Zenon DEF vars, kept, history
  <2>2. CASE Next
    BY <1>1, <1>2, <1>3, <1>4, <1>5, <1>6, <1>7, <1>8, <1>9, <2>2, NextStep, Zenon DEF LockInv
  <2> QED BY <2>1, <2>2, Zenon

-----------------------------------------------------------------------------
(* The inductive invariant holds of an operator nobody has touched.        *)
LEMMA Initially == Init => IInv
<1> SUFFICES ASSUME Init PROVE IInv
  BY Zenon
<1>1. TypeOK
  BY OfflineType, Zenon DEF Init, TypeOK
<1>2. \A p \in Workers : job[p] = IdleJob
  BY Zenon DEF Init
<1>3. IdleJob.pc = "idle" /\ IdleJob.shift = 0
  BY Zenon DEF IdleJob
<1>4. CleanSnapshot
  BY Zenon DEF Init, CleanSnapshot, Clean, Offline
<1>5. UpdateInv /\ VersionInv /\ NoLostUpdate
  BY <1>2, <1>3 DEF Init, UpdateInv, VersionInv, NoLostUpdate, InFlight
<1>6. SessionInv /\ ClosingInv /\ LiveSessionIsOpen /\ NoSilentSessionLeak
  BY <1>2, <1>3, Zenon DEF Init, SessionInv, BoundInserted, LoadedInserted, FreshIsPrivate,
     ClosingInv, LiveSessionIsOpen, NoSilentSessionLeak,
     InFlight, closing, Offline
<1> QED BY <1>1, <1>4, <1>5, <1>6, Zenon DEF IInv

(* Every step of OperatorFSM preserves the inductive invariant.            *)
LEMMA Inductive == IInv /\ [Next]_vars => IInv'
BY TypeStep, LockStep, SessionStep, Zenon DEF IInv, LockInv, OpenInv

(* The inductive invariant holds in every reachable state, for any number  *)
(* of requests, sessions, calls and crashes.                               *)
THEOREM Invariance == Spec => []IInv
BY Initially, Inductive, PTL DEF Spec

(* Every reachable state is well typed: whatever requests race, the hash   *)
(* and every snapshot about to be written are snapshots.                   *)
THEOREM TypeCorrect == Spec => []TypeOK
BY Invariance, PTL DEF IInv

(* The optional fields of the hash agree with its state, so start_shift.lua*)
(* may rely on an offline hash being empty.                                *)
THEOREM HashIsClean == Spec => []CleanSnapshot
BY Invariance, PTL DEF IInv

(* transition.lua never loses an update to a request of the same shift.    *)
THEOREM OptimisticLock == Spec => []NoLostUpdate
BY Invariance, PTL DEF IInv

(* The session of a running shift is open until the shift is over.         *)
THEOREM RunningSessionOpen == Spec => []LiveSessionIsOpen
BY Invariance, PTL DEF IInv

(* No open session row is lost track of, except where the code says so.    *)
THEOREM SessionsAccountedFor == Spec => []NoSilentSessionLeak
BY Invariance, PTL DEF IInv

(* Every step of the detailed machine that is not a stale write is one     *)
(* operation of OperatorShift, or leaves the live snapshot alone.          *)
LEMMA StepSimulates == IInv /\ [Next]_vars => [StaleWrite \/ Abs!Next]_hash
<1> SUFFICES ASSUME IInv, Next, hash' # hash
             PROVE  StaleWrite \/ Abs!Next
  BY Zenon DEF vars
<1> USE DEF IInv
<1>1. CASE HashExpires
  BY <1>1, Zenon DEF HashExpires, Abs!Next, Abs!Lapse, Abs!Offline, Offline
<1>2. ASSUME NEW p \in Workers, StartShiftWins(p) PROVE Abs!Next
  <2>1. hash = Offline /\ job[p].session \in Sessions
    BY <1>2, Zenon DEF StartShiftWins, CleanSnapshot, Clean, SessionInv, FreshIsPrivate, TypeOK, Job
  <2>2. hash.state = "offline"
    BY <1>2, Zenon DEF StartShiftWins
  <2>3. hash' = [Offline EXCEPT !.state = "ready", !.session = job[p].session]
    BY <1>2, <2>1, Zenon DEF StartShiftWins, startShiftWrites
  <2> QED BY <2>1, <2>2, <2>3, Zenon DEF Abs!Next, Abs!StartShift, Abs!Offline, Offline
<1>3. ASSUME NEW p \in Workers, CasWins(p) PROVE StaleWrite \/ Abs!Next
  <2>1. Effect(job[p].cur, hash')
    BY <1>3, Zenon DEF CasWins, UpdateInv, InFlight
  <2>2. CASE job[p].shift = shift
    <3>1. Effect(hash, hash')
      BY <1>3, <2>1, <2>2, Zenon DEF CasWins, NoLostUpdate
    <3>2. Abs!Effect(hash, hash')
      BY <3>1, Zenon DEF Effect, EndShift, GoPause, Resume, RecordCallStarted,
         RecordCallEnded, SubmitStatus, GoVerify, VerifyDone, ForceState,
         resolveTransition, buildNextSnapshot, transitions, States, Outcomes, Offline,
         Abs!Effect, Abs!EndShift, Abs!GoPause, Abs!Resume, Abs!RecordCallStarted,
         Abs!RecordCallEnded, Abs!SubmitStatus, Abs!GoVerify, Abs!VerifyDone,
         Abs!ForceState, Abs!resolveTransition, Abs!buildNextSnapshot, Abs!transitions,
         Abs!States, Abs!Outcomes, Abs!Offline
    <3> QED BY <3>2, Zenon DEF Abs!Next, Abs!Operation
  <2>3. CASE job[p].shift # shift
    <3>1. job'[p].pc # "cas" /\ version' # version
      BY <1>3 DEF CasWins, IdleJob, TypeOK, Job
    <3> QED BY <1>3, <2>3, <3>1, Zenon DEF CasWins, StaleWrite
  <2> QED BY <2>2, <2>3, Zenon
<1>4. \A p \in Workers : ~ ( \/ LoadStep(p) \/ QuietStep(p) \/ GiveUpStep(p)
                             \/ InsertSession(p) \/ Audit(p) )
  BY Zenon DEF LoadStep, QuietStep, GiveUpStep, InsertSession, Audit, kept
<1> QED BY <1>1, <1>2, <1>3, <1>4, NextStep, Zenon DEF kept

(* Load and compare-and-set amount to atomic operations within a shift.    *)
THEOREM AtomicWithinShift == Spec => WritesAreAtomic
BY Invariance, StepSimulates, PTL DEF Spec, WritesAreAtomic

-----------------------------------------------------------------------------
(* The state log.                                                          *)

(* A log row belongs to a session that has been inserted.                  *)
LogInserted == \A r \in log : sessions[r.session] # "free"

(* A session that is not bound yet has the row of its StartShift, and no   *)
(* other.                                                                  *)
FreshLogged ==
  \A p \in Workers : job[p].pc = "start_cas" =>
    /\ \E r \in log : r.session = job[p].session /\ r.version = 1
    /\ \A r \in log : r.session = job[p].session => r.version = 1

(* Nothing of the running shift is logged, or about to be, ahead of the    *)
(* version of the hash.                                                    *)
NoneAhead ==
  ~ overwritten /\ hash.session # Nil =>
    /\ \A r \in log : r.session = hash.session => r.version <= version
    /\ \A p \in Workers : job[p].pc = "audit" /\ job[p].cur.session = hash.session
                            => job[p].version + 1 <= version

(* The first half of AuditTrailComplete, for the audits of this session.   *)
Trail ==
  ~ overwritten /\ aborts = 0 /\ hash.session # Nil =>
    \A v \in 1 .. version :
      \/ \E r \in log : r.session = hash.session /\ r.version = v
      \/ \E p \in Workers : /\ job[p].pc = "audit" /\ job[p].cur.session = hash.session
                            /\ job[p].version + 1 = v

(* Its second half.                                                        *)
OneAuditor ==
  ~ overwritten =>
    \A p \in Workers : job[p].pc = "audit" =>
      /\ \A q \in Workers \ {p} :
           job[q].pc = "audit" /\ job[q].cur.session = job[p].cur.session
             => job[q].version # job[p].version
      /\ \A r \in log : r.session = job[p].cur.session => r.version # job[p].version + 1

LogInv == LogInserted /\ FreshLogged /\ NoneAhead /\ Trail /\ OneAuditor

(* A request leaves its audit with the row written, unless it dies.        *)
LEMMA AuditEnds ==
  ASSUME TypeOK, [Next]_vars, aborts' = 0
  PROVE  /\ aborts = 0
         /\ \A p \in Workers : job[p].pc = "audit" =>
              job'[p] = job[p] \/ pendingRow(job[p]) \in log'
<1> DEFINE Goal == /\ aborts = 0
                   /\ \A p \in Workers : job[p].pc = "audit" =>
                        job'[p] = job[p] \/ pendingRow(job[p]) \in log'
<1>1. ASSUME NEW p \in Workers, job[p].pc # "audit", aborts' = aborts,
             \A q \in Workers \ {p} : job'[q] = job[q]
      PROVE  Goal
  BY <1>1, Zenon
<1>2. ASSUME NEW p \in Procs, Request(p) PROVE Goal
  <2>1. job[p].pc = "idle" /\ aborts' = aborts
    BY <1>2, Zenon DEF Request, EndShiftReq, GoPauseReq, ResumeReq, SubmitStatusReq, GoVerifyReq,
       VerifyDoneReq, handleAnswered, handleHangup, ForceReq, StartShiftReq,
       FromOperator, FromElsewhere, Accept, stored
  <2>2. \E j : job' = [job EXCEPT ![p] = j]
    BY <1>2, Zenon DEF Request, EndShiftReq, GoPauseReq, ResumeReq, SubmitStatusReq, GoVerifyReq,
       VerifyDoneReq, handleAnswered, handleHangup, ForceReq, StartShiftReq,
       FromOperator, FromElsewhere, Loaded
  <2>3. QED
    BY <1>1, <2>1, <2>2, Zenon DEF TypeOK, Workers
<1>3. ASSUME NEW p \in Workers, InsertSession(p) \/ StartShiftWins(p) \/ StartShiftLoses(p)
                                  \/ CasWins(p) \/ CasConflicts(p)
      PROVE  Goal
  <2>1. job[p].pc # "audit" /\ aborts' = aborts
    BY <1>3, Zenon
       DEF InsertSession, StartShiftWins, StartShiftLoses, CasWins, CasConflicts, bookkeeping
  <2>2. \A q \in Workers \ {p} : job'[q] = job[q]
    BY <1>3, Zenon
       DEF InsertSession, StartShiftWins, StartShiftLoses, CasWins, CasConflicts, Done, TypeOK
  <2>3. QED
    BY <1>1, <2>1, <2>2, Zenon
<1>4. ASSUME NEW p \in Workers, Audit(p) PROVE Goal
  BY <1>4, Zenon DEF Audit, Done, bookkeeping, TypeOK
<1>5. ASSUME NEW p \in Workers, Abort(p) PROVE Goal
  BY <1>5, SMTT(30) DEF Abort, TypeOK
<1>6. CASE Watch
  <2>1. Watchdog \in Workers /\ job[Watchdog].pc # "audit" /\ aborts' = aborts
    BY <1>6, Zenon DEF Workers, Watch, WatchState, WatchPresence, WatchForce, bookkeeping
  <2>2. \A q \in Workers \ {Watchdog} : job'[q] = job[q]
    BY <1>6, Zenon DEF Watch, WatchState, WatchPresence, WatchForce, Done, Loaded, TypeOK
  <2>3. QED
    BY <1>1, <2>1, <2>2, Zenon
<1>7. CASE Ping \/ PresenceExpires \/ HashExpires \/ UNCHANGED vars
  BY <1>7, Zenon DEF Ping, PresenceExpires, HashExpires, vars, bookkeeping, stored
<1>8. QED
  BY <1>2, <1>3, <1>4, <1>5, <1>6, <1>7, Zenon DEF Next, Write

(* A step that neither writes the hash, nor a row, nor begins an audit or  *)
(* the binding of a session.                                               *)
LEMMA LogUntouched ==
  ASSUME IInv, LogInv, [Next]_vars, UNCHANGED <<hash, version, log, overwritten, sessions>>,
         \A p \in Workers : job'[p].pc \in {"start_cas", "audit"} => job'[p] = job[p]
  PROVE  LogInv'
<1>1. LogInserted'
  BY Zenon DEF LogInv, LogInserted
<1>2. FreshLogged'
  BY Zenon DEF LogInv, FreshLogged
<1>3. NoneAhead'
  BY Zenon DEF LogInv, NoneAhead
<1>4. OneAuditor'
  BY DEF LogInv, OneAuditor
<1>5. Trail'
  <2> SUFFICES ASSUME ~ overwritten, aborts' = 0, hash.session # Nil, NEW v \in 1 .. version
               PROVE  \/ \E r \in log : r.session = hash.session /\ r.version = v
                      \/ \E p \in Workers : /\ job'[p].pc = "audit"
                                            /\ job'[p].cur.session = hash.session
                                            /\ job'[p].version + 1 = v
    BY Zenon DEF Trail
  <2>1. /\ aborts = 0
        /\ \A p \in Workers : job[p].pc = "audit" =>
             job'[p] = job[p] \/ pendingRow(job[p]) \in log
    BY AuditEnds, Zenon DEF IInv
  <2>2. CASE \E r \in log : r.session = hash.session /\ r.version = v
    BY <2>2, Zenon
  <2>3. ASSUME NEW p \in Workers, job[p].pc = "audit", job[p].cur.session = hash.session,
               job[p].version + 1 = v
        PROVE  \/ \E r \in log : r.session = hash.session /\ r.version = v
               \/ \E q \in Workers : /\ job'[q].pc = "audit"
                                     /\ job'[q].cur.session = hash.session
                                     /\ job'[q].version + 1 = v
    <3>1. pendingRow(job[p]).session = hash.session /\ pendingRow(job[p]).version = v
      BY <2>3, Zenon DEF pendingRow
    <3>2. QED
      BY <2>1, <2>3, <3>1, Zenon
  <2>4. QED
    BY <2>1, <2>2, <2>3, Zenon DEF LogInv, Trail
<1>6. QED
  BY <1>1, <1>2, <1>3, <1>4, <1>5, Zenon DEF LogInv

(* startSessionAndAudit: the rows of a session that was free are none.     *)
LEMMA LogOnInsert ==
  ASSUME IInv, LogInv, NEW p \in Workers, InsertSession(p)
  PROVE  LogInv'
<1>1. PICK s \in Sessions :
        /\ sessions[s] = "free" /\ sessions' = [sessions EXCEPT ![s] = "open"]
        /\ log' = log \cup {[session |-> s, version |-> 1, state |-> "ready", finalized |-> Nil]}
        /\ job' = [job EXCEPT ![p].pc = "start_cas", ![p].session = s]
  BY Zenon DEF InsertSession
<1>2. /\ \A q \in Workers \ {p} : job'[q] = job[q]
      /\ job'[p].pc = "start_cas" /\ job'[p].session = s /\ job[p].pc = "insert"
  BY <1>1 DEF InsertSession, IInv, TypeOK, Job
<1>3. UNCHANGED <<hash, version, aborts, overwritten>>
  BY Zenon DEF InsertSession, bookkeeping, history
<1>4. \A t \in Sessions : sessions'[t] = IF t = s THEN "open" ELSE sessions[t]
  BY <1>1, Zenon DEF IInv, TypeOK
<1>5. \A r \in log : r.session \in Sessions /\ r.session # s
  BY <1>1, Zenon DEF IInv, TypeOK, LogRow, LogInv, LogInserted
<1>6. /\ \A r \in log' : r \in log \/ (r.session = s /\ r.version = 1)
      /\ \E r \in log' : r.session = s /\ r.version = 1
      /\ log \subseteq log'
  <2> DEFINE new == [session |-> s, version |-> 1, state |-> "ready", finalized |-> Nil]
  <2>1. new.session = s /\ new.version = 1 /\ log' = log \cup {new}
    BY <1>1, Zenon
  <2> HIDE DEF new
  <2>2. QED
    BY <2>1, Zenon
<1>7. /\ hash.session # s \/ hash.session = Nil
      /\ \A q \in Workers : /\ job[q].pc \in InFlight => job[q].cur.session # s
                            /\ job[q].pc = "start_cas" => job[q].session # s
  BY <1>1, NilAssumption, Zenon DEF IInv, SessionInv, BoundInserted, LoadedInserted, FreshIsPrivate
<1>8. s # Nil
  BY NilAssumption, Zenon
<1>9. LogInserted'
  BY <1>4, <1>5, <1>6, Zenon DEF LogInv, LogInserted
<1>10. FreshLogged'
  BY <1>2, <1>5, <1>6, <1>7, SMTT(30) DEF LogInv, FreshLogged
<1>11. NoneAhead'
  BY <1>2, <1>3, <1>6, <1>7, <1>8, Zenon DEF LogInv, NoneAhead
<1>12. Trail'
  BY <1>2, <1>3, <1>6 DEF LogInv, Trail
<1>13. OneAuditor'
  BY <1>2, <1>3, <1>6, <1>7, SMTT(30) DEF LogInv, OneAuditor, InFlight
<1>14. QED
  BY <1>9, <1>10, <1>11, <1>12, <1>13, Zenon DEF LogInv

(* start_shift.lua: the version restarts at 1, which is logged.            *)
LEMMA LogOnStart ==
  ASSUME IInv, LogInv, NEW p \in Workers, StartShiftWins(p)
  PROVE  LogInv'
<1>1. /\ job[p].pc = "start_cas" /\ version' = 1 /\ UNCHANGED <<log, sessions, overwritten, aborts>>
      /\ hash'.session = job[p].session
  BY Zenon DEF StartShiftWins, startShiftWrites, bookkeeping, IInv, TypeOK, Snapshot
<1>2. \A q \in Workers : job'[q].pc # "idle" => job'[q] = job[q] /\ q # p
  BY Zenon DEF StartShiftWins, Done, IdleJob, IInv, TypeOK
<1>3. \A q \in Workers : job[q].pc = "audit" => job[q].cur.session # job[p].session
  BY <1>1, Zenon DEF IInv, SessionInv, FreshIsPrivate, InFlight
<1>4. LogInserted' /\ FreshLogged'
  <2>1. LogInserted'
    BY <1>1, Zenon DEF LogInv, LogInserted
  <2>2. FreshLogged'
    BY <1>1, <1>2, SMTT(30) DEF LogInv, FreshLogged
  <2>3. QED
    BY <2>1, <2>2, Zenon
<1>5. OneAuditor'
  BY <1>1, <1>2 DEF LogInv, OneAuditor
<1>6. NoneAhead'
  BY <1>1, <1>2, <1>3, SMTT(30) DEF LogInv, FreshLogged, NoneAhead
<1>7. Trail'
  BY <1>1, SMTT(30) DEF LogInv, FreshLogged, Trail
<1>8. QED
  BY <1>4, <1>6, <1>7, <1>5, Zenon DEF LogInv

(* transition.lua: the new version is the writer's to audit, and no one    *)
(* else's.                                                                 *)
LEMMA LogOnWrite ==
  ASSUME IInv, LogInv, NEW p \in Workers, CasWins(p)
  PROVE  LogInv'
<1>0. job[p] \in Job /\ version \in Nat /\ job[p].cur \in Snapshot
  BY Zenon DEF IInv, TypeOK, Job
<1>1. /\ job[p].pc = "cas" /\ job[p].version = version /\ version' = version + 1
      /\ UNCHANGED <<log, sessions, aborts>>
      /\ \A q \in Workers \ {p} : job'[q] = job[q]
  BY Zenon DEF CasWins, casMatches, bookkeeping, IInv, TypeOK
<1>2. /\ job[p].cur.session = Nil => job'[p].pc = "idle"
      /\ job[p].cur.session # Nil => /\ job'[p].pc = "audit" /\ job'[p].cur = job[p].cur
                                     /\ job'[p].version = version
  BY <1>0, <1>1, Zenon DEF CasWins, IdleJob, IInv, TypeOK, Job
<1>3. ~ overwritten' => ~ overwritten /\ hash = job[p].cur
  BY <1>1, Zenon DEF CasWins, IInv, NoLostUpdate
<1>4. hash'.session \in {Nil, job[p].cur.session}
  <2>1. Effect(job[p].cur, job[p].upd) /\ Clean(job[p].cur) /\ hash' = job[p].upd
    BY <1>1, Zenon DEF CasWins, IInv, UpdateInv, InFlight
  <2>2. QED
    BY <1>0, <2>1, EffectClean, Zenon
<1>5. LogInserted' /\ FreshLogged'
  BY <1>1, <1>2, SMTT(30) DEF LogInv, LogInserted, FreshLogged
<1>6. ASSUME ~ overwritten', hash.session # Nil
      PROVE  /\ \A r \in log : r.session = hash.session => r.version <= version /\ r.version \in Nat
             /\ \A q \in Workers : job[q].pc = "audit" /\ job[q].cur.session = hash.session
                                     => job[q].version + 1 <= version /\ job[q].version \in Nat
  BY <1>3, <1>6, Zenon DEF LogInv, NoneAhead, IInv, TypeOK, LogRow, Job
<1>7. NoneAhead'
  <2> SUFFICES ASSUME ~ overwritten', hash'.session # Nil
               PROVE  /\ \A r \in log : r.session = hash.session => r.version <= version + 1
                      /\ \A q \in Workers :
                           job'[q].pc = "audit" /\ job'[q].cur.session = hash.session
                             => job'[q].version + 1 <= version + 1
    BY <1>1, <1>3, <1>4, Zenon DEF NoneAhead
  <2>1. hash.session # Nil
    BY <1>3, <1>4, Zenon
  <2>2. \A r \in log : r.session = hash.session => r.version <= version + 1
    BY <1>0, <1>6, <2>1, SMTT(30)
  <2>3. ASSUME NEW q \in Workers, job'[q].pc = "audit", job'[q].cur.session = hash.session
        PROVE  job'[q].version + 1 <= version + 1
    <3>1. CASE q = p
      BY <1>0, <1>2, <2>3, <3>1
    <3>2. CASE q # p
      BY <1>0, <1>1, <1>6, <2>1, <2>3, <3>2, SMTT(30)
    <3>3. QED
      BY <3>1, <3>2, Zenon
  <2>4. QED
    BY <2>2, <2>3, Zenon
<1>8. OneAuditor'
  <2> SUFFICES ASSUME ~ overwritten', NEW q \in Workers, job'[q].pc = "audit"
               PROVE  /\ \A w \in Workers \ {q} :
                           job'[w].pc = "audit" /\ job'[w].cur.session = job'[q].cur.session
                             => job'[w].version # job'[q].version
                      /\ \A r \in log : r.session = job'[q].cur.session
                                          => r.version # job'[q].version + 1
    BY <1>1, Zenon DEF OneAuditor
  <2>1. CASE q = p
    <3>1. job[p].cur.session = hash.session /\ hash.session # Nil
      BY <1>2, <1>3, <2>1, Zenon
    <3>2. ASSUME NEW w \in Workers \ {p}, job'[w].pc = "audit",
                 job'[w].cur.session = job'[p].cur.session
          PROVE  job'[w].version # job'[p].version
      <4>1. job'[w] = job[w] /\ job'[p].cur.session = hash.session /\ job'[p].version = version
        BY <1>1, <1>2, <3>1, Zenon
      <4>2. QED
        BY <1>0, <1>6, <3>1, <3>2, <4>1
    <3>3. \A r \in log : r.session = job'[p].cur.session => r.version # job'[p].version + 1
      <4>1. job'[p].cur.session = hash.session /\ job'[p].version = version
        BY <1>2, <3>1, Zenon
      <4>2. QED
        BY <1>0, <1>6, <3>1, <4>1, SMTT(30)
    <3>4. QED
      BY <2>1, <3>2, <3>3, Zenon
  <2>2. CASE q # p
    <3>1. job'[q] = job[q] /\ ~ overwritten
      BY <1>1, <1>3, <2>2, Zenon
    <3>2. ASSUME NEW w \in Workers \ {q}, job'[w].pc = "audit",
                 job'[w].cur.session = job'[q].cur.session
          PROVE  job'[w].version # job'[q].version
      <4>1. CASE w = p
        BY <1>0, <1>1, <1>2, <1>3, <1>6, <3>1, <3>2, <4>1, SMTT(30)
      <4>2. CASE w # p
        BY <1>1, <3>1, <3>2, <4>2, ZenonT(40) DEF LogInv, OneAuditor
      <4>3. QED
        BY <4>1, <4>2, Zenon
    <3>3. QED
      BY <3>1, <3>2, Zenon DEF LogInv, OneAuditor
  <2>3. QED
    BY <2>1, <2>2, Zenon
<1>9. Trail'
  <2> SUFFICES ASSUME ~ overwritten', aborts' = 0, hash'.session # Nil, NEW v \in 1 .. version + 1
               PROVE  \/ \E r \in log : r.session = hash'.session /\ r.version = v
                      \/ \E q \in Workers : /\ job'[q].pc = "audit"
                                            /\ job'[q].cur.session = hash'.session
                                            /\ job'[q].version + 1 = v
    BY <1>1, Zenon DEF Trail
  <2>1. hash'.session = hash.session /\ job[p].cur.session = hash.session /\ ~ overwritten
    BY <1>3, <1>4, Zenon
  <2>2. CASE v = version + 1
    BY <1>2, <2>1, <2>2, Zenon
  <2>3. CASE v \in 1 .. version
    <3>1. \/ \E r \in log : r.session = hash.session /\ r.version = v
          \/ \E q \in Workers : /\ job[q].pc = "audit" /\ job[q].cur.session = hash.session
                                /\ job[q].version + 1 = v
      BY <1>1, <2>1, <2>3, Zenon DEF LogInv, Trail
    <3>2. QED
      BY <1>1, <2>1, <3>1, Zenon
  <2>4. QED
    BY <1>0, <2>2, <2>3, SMTT(30)
<1>10. QED
  BY <1>5, <1>7, <1>8, <1>9, Zenon DEF LogInv

(* auditTransition and closeSessionAndAudit: the row takes the place of    *)
(* the pending audit.                                                      *)
LEMMA LogOnAudit ==
  ASSUME IInv, LogInv, NEW p \in Workers, Audit(p)
  PROVE  LogInv'
<1> DEFINE row == pendingRow(job[p])
<1>1. /\ job[p].pc = "audit" /\ log' = log \cup {row}
      /\ UNCHANGED <<hash, version, overwritten, aborts>>
      /\ job'[p].pc = "idle" /\ \A q \in Workers \ {p} : job'[q] = job[q]
  BY Zenon DEF Audit, Done, IdleJob, bookkeeping, history, IInv, TypeOK
<1>2. row.session = job[p].cur.session /\ row.version = job[p].version + 1
  BY Zenon DEF pendingRow
<1>3. job[p].cur.session \in Sessions /\ sessions[job[p].cur.session] # "free"
  BY <1>1, Zenon DEF IInv, SessionInv, LoadedInserted, InFlight, TypeOK, Job, Snapshot
<1>4. \A t \in Sessions : sessions[t] # "free" => sessions'[t] # "free"
  BY Zenon DEF Audit, IInv, TypeOK
<1> HIDE DEF row
<1>5. LogInserted'
  <2>1. \A r \in log : r.session \in Sessions
    BY Zenon DEF IInv, TypeOK, LogRow
  <2>2. QED
    BY <1>1, <1>2, <1>3, <1>4, <2>1, Zenon DEF LogInv, LogInserted
<1>6. FreshLogged'
  <2>1. \A q \in Workers : job[q].pc = "start_cas" => row.session # job[q].session
    BY <1>1, <1>2 DEF IInv, SessionInv, FreshIsPrivate, InFlight
  <2>2. QED
    BY <1>1, <2>1, SMTT(30) DEF LogInv, FreshLogged
<1>7. NoneAhead'
  BY <1>1, <1>2, Zenon DEF LogInv, NoneAhead
<1>8. Trail'
  BY <1>1, <1>2 DEF LogInv, Trail
<1>9. OneAuditor'
  <2>1. \A q \in Workers : job[q].version \in Nat
    BY Zenon DEF IInv, TypeOK, Job
  <2>2. QED
    BY <1>1, <1>2, <2>1, SMTT(30) DEF LogInv, OneAuditor
<1>10. QED
  BY <1>5, <1>6, <1>7, <1>8, <1>9, Zenon DEF LogInv

(* Every step keeps the account of the state log.                          *)
LEMMA LogStep == IInv /\ LogInv /\ [Next]_vars => LogInv'
<1> SUFFICES ASSUME IInv, LogInv, [Next]_vars PROVE LogInv'
  BY Zenon
<1>1. CASE UNCHANGED <<kept, job>>
  BY <1>1, LogUntouched, Zenon DEF kept
<1>2. CASE HashExpires
  <2>1. /\ hash'.session = Nil /\ UNCHANGED <<job, sessions, log, aborts, overwritten>>
    BY <1>2, Zenon DEF HashExpires, Offline, bookkeeping
  <2>2. QED
    BY <2>1, ZenonT(40) DEF LogInv, LogInserted, FreshLogged, NoneAhead, Trail, OneAuditor
<1>3. ASSUME NEW p \in Workers, LoadStep(p) \/ QuietStep(p) \/ GiveUpStep(p) PROVE LogInv'
  <2>1. UNCHANGED <<hash, version, log, overwritten, sessions>>
    BY <1>3, Zenon DEF LoadStep, QuietStep, GiveUpStep, kept
  <2>2. /\ job'[p].pc \notin {"start_cas", "audit"}
        /\ \A q \in Workers \ {p} : job'[q] = job[q]
    <3>1. CASE LoadStep(p)
      BY <3>1, SMTT(30) DEF LoadStep, Loaded, IInv, TypeOK
    <3>2. CASE QuietStep(p)
      BY <3>2, Zenon DEF QuietStep, IInv, TypeOK
    <3>3. CASE GiveUpStep(p)
      BY <3>3, Zenon DEF GiveUpStep, Done, IdleJob, IInv, TypeOK
    <3>4. QED
      BY <1>3, <3>1, <3>2, <3>3, Zenon
  <2>3. QED
    BY <2>1, <2>2, LogUntouched, Zenon
<1>4. CASE UNCHANGED vars
  BY <1>1, <1>4, Zenon DEF vars, kept, history
<1>5. QED
  BY <1>1, <1>2, <1>3, <1>4, LogOnInsert, LogOnStart, LogOnWrite, LogOnAudit, NextStep, Zenon
     DEF IInv

(* The state log of the running shift has a row, or an audit on its way,   *)
(* for every version of the hash, and one of them only, whatever requests  *)
(* race; a crash between the hash and Postgres is the only way to lose one *)
(* (auditTransition, closeSessionAndAudit).                                *)
THEOREM AuditsComplete == Spec => []AuditTrailComplete
<1>1. Init => LogInv
  <2> SUFFICES ASSUME Init PROVE LogInv
    BY Zenon
  <2>1. log = {} /\ hash.session = Nil /\ \A p \in Workers : job[p].pc = "idle"
    BY Zenon DEF Init, IdleJob, Offline
  <2>2. LogInserted /\ FreshLogged /\ OneAuditor
    BY <2>1, Zenon DEF LogInserted, FreshLogged, OneAuditor
  <2>3. NoneAhead /\ Trail
    BY <2>1, Zenon DEF NoneAhead, Trail
  <2>4. QED
    BY <2>2, <2>3, Zenon DEF LogInv
<1>2. LogInv => AuditTrailComplete
  <2> SUFFICES ASSUME LogInv PROVE AuditTrailComplete
    BY Zenon
  <2>1. QED
    BY Zenon DEF LogInv, Trail, OneAuditor, AuditTrailComplete
<1>3. QED
  BY Invariance, LogStep, <1>1, <1>2, PTL DEF Spec

-----------------------------------------------------------------------------
(* One operation of machine.go binds no call where another is in flight.   *)
LEMMA EffectCall ==
  ASSUME NEW cur \in Snapshot, NEW upd, Effect(cur, upd), cur.call # Nil
  PROVE  upd.call \in {cur.call, Nil}
<1>1. ASSUME NEW next \in States, NEW reason \in BOOLEAN, NEW o \in Outcomes \cup {Nil}
      PROVE  LET new == buildNextSnapshot(cur, next)
             IN /\ new.call = cur.call /\ [new EXCEPT !.pause = reason].call = cur.call
                /\ [new EXCEPT !.outcome = o].call = cur.call
                /\ [new EXCEPT !.call = Nil, !.outcome = Nil].call = Nil
                /\ \A c : [new EXCEPT !.call = c].call = c
  BY Zenon DEF buildNextSnapshot, Snapshot
<1>2. Nil \in Outcomes \cup {Nil} /\ FALSE \in BOOLEAN
  BY Zenon
<1>3. CASE upd \in EndShift(cur)
  <2>1. upd = Offline
    BY <1>3, Zenon DEF EndShift
  <2>2. Offline.call = Nil
    BY Zenon DEF Offline
  <2>3. QED
    BY <2>1, <2>2, Zenon
<1>4. CASE \E target \in States : upd \in ForceState(cur, target)
  <2>1. PICK target \in States : upd \in ForceState(cur, target)
    BY <1>4, Zenon
  <2>2. upd.call = Nil
    BY <2>1, Zenon DEF ForceState, Offline
  <2>3. QED
    BY <2>2, Zenon
<1>5. CASE \E reason \in BOOLEAN : upd \in GoPause(cur, reason)
  <2>1. PICK reason \in BOOLEAN, next \in States :
          upd = [buildNextSnapshot(cur, next) EXCEPT !.pause = reason]
    BY <1>5, Zenon DEF GoPause, resolveTransition
  <2>2. QED
    BY <1>1, <1>2, <2>1, Zenon
<1>6. CASE upd \in Resume(cur) \/ upd \in SubmitStatus(cur) \/ upd \in GoVerify(cur)
             \/ upd \in VerifyDone(cur)
  <2> DEFINE new(next) == buildNextSnapshot(cur, next)
  <2>1. PICK next \in States :
          \/ upd = new(next) \/ upd = [new(next) EXCEPT !.pause = FALSE]
          \/ upd = [new(next) EXCEPT !.call = Nil, !.outcome = Nil]
    BY <1>6, Zenon DEF Resume, SubmitStatus, GoVerify, VerifyDone, resolveTransition
  <2>2. QED
    BY <1>1, <1>2, <2>1, Zenon
<1>7. CASE \E c \in Calls : upd \in RecordCallStarted(cur, c)
  <2>1. PICK c \in Calls, next \in States :
          /\ upd = [buildNextSnapshot(cur, next) EXCEPT !.call = c] /\ cur.call \in {Nil, c}
    BY <1>7, Zenon DEF RecordCallStarted, resolveTransition
  <2>2. QED
    BY <1>1, <1>2, <2>1, Zenon
<1>8. CASE \E o \in Outcomes : upd \in RecordCallEnded(cur, o)
  <2>1. PICK o \in Outcomes, next \in States :
          upd = [buildNextSnapshot(cur, next) EXCEPT !.outcome = o]
    BY <1>8, Zenon DEF RecordCallEnded, resolveTransition
  <2>2. QED
    BY <1>1, <1>2, <2>1, Zenon
<1>9. QED
  BY <1>3, <1>5, <1>6, <1>7, <1>8, <1>4, Zenon DEF Effect

(* Whatever requests race, current_call_id passes from one call to another *)
(* through nil only, unless the writer loaded its snapshot in an earlier   *)
(* shift (RecordCallStarted, transition.lua).                              *)
THEOREM CallsAreNotDisplaced == Spec => CallNotDisplaced
<1>1. IInv /\ [Next]_vars =>
        [hash.call # Nil => hash'.call \in {hash.call, Nil} \/ StaleWrite]_hash
  <2> SUFFICES ASSUME IInv, Next, hash' # hash, hash.call # Nil
               PROVE  hash'.call \in {hash.call, Nil} \/ StaleWrite
    BY Zenon DEF vars
  <2>1. CASE HashExpires
    BY <2>1, Zenon DEF HashExpires, Offline
  <2>2. ASSUME NEW p \in Workers, StartShiftWins(p) PROVE hash'.call = hash.call
    BY <2>2, Zenon DEF StartShiftWins, startShiftWrites, IInv, TypeOK, Snapshot
  <2>3. ASSUME NEW p \in Workers, CasWins(p)
        PROVE  hash'.call \in {hash.call, Nil} \/ StaleWrite
    <3>1. Effect(job[p].cur, hash') /\ job[p].cur \in Snapshot
      BY <2>3, Zenon DEF CasWins, IInv, UpdateInv, InFlight, TypeOK, Job
    <3>2. CASE job[p].shift = shift
      BY <2>3, <3>1, <3>2, EffectCall, Zenon DEF CasWins, IInv, NoLostUpdate
    <3>3. CASE job[p].shift # shift
      <4>1. job'[p].pc # "cas" /\ version' # version
        BY <2>3 DEF CasWins, IdleJob, IInv, TypeOK, Job
      <4>2. QED
        BY <2>3, <3>3, <4>1, Zenon DEF CasWins, StaleWrite
    <3>4. QED
      BY <3>2, <3>3, Zenon
  <2>4. \A p \in Workers : ~ ( \/ LoadStep(p) \/ QuietStep(p) \/ GiveUpStep(p)
                               \/ InsertSession(p) \/ Audit(p) )
    BY Zenon DEF LoadStep, QuietStep, GiveUpStep, InsertSession, Audit, kept
  <2>5. QED
    BY <2>1, <2>2, <2>3, <2>4, NextStep, Zenon DEF kept, IInv
<1>2. QED
  BY Invariance, <1>1, PTL DEF Spec, CallNotDisplaced

=============================================================================
