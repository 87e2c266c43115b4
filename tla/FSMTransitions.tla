--------------------------- MODULE FSMTransitions ---------------------------
(***************************************************************************)
(* The operator state machine as pure operators on snapshots:              *)
(* internal/dialer/fsm/transitions.go and the mutate callbacks that        *)
(* internal/dialer/fsm/machine.go passes to applyEventFull.                *)
(*                                                                         *)
(* Each operation is an operator from the snapshot a request loaded to the *)
(* set of snapshots it may try to write.  The empty set is the early       *)
(* return: a rejected edge, a failed pre-check, an idempotent no-op.       *)
(*                                                                         *)
(* Data abstractions.  project_id is bound and cleared together with       *)
(* session_id, respondent_id together with current_call_id, so one field   *)
(* stands for each pair.  The six status outcomes are kept as the two      *)
(* classes IsSuccessClass tells apart.  A pause reason is present or not.  *)
(*                                                                         *)
(* A definition called Fault... is a plausible mistake in the definition   *)
(* after it, kept to show that a property notices it; nothing uses it.     *)
(***************************************************************************)

CONSTANTS Sessions, Calls, Nil

ASSUME NilAssumption == Nil \notin Sessions \cup Calls \cup {"success", "other"}

States == {"offline", "ready", "dialing", "call", "status", "verify", "pause"}

Outcomes == {"success", "other"}

Snapshot == [ state   : States,
              session : Sessions \cup {Nil},
              call    : Calls \cup {Nil},
              outcome : Outcomes \cup {Nil},
              pause   : BOOLEAN ]

(* What load returns for a missing hash, and what EndShift and             *)
(* Force(offline) write: every optional field cleared.                     *)
Offline == [ state |-> "offline", session |-> Nil, call |-> Nil,
             outcome |-> Nil, pause |-> FALSE ]

transitions ==
  { <<"offline", "start_shift", "ready">>,
    <<"ready",   "end_shift",   "offline">>,
    <<"pause",   "end_shift",   "offline">>,
    <<"status",  "end_shift",   "offline">>,
    <<"ready",   "go_pause",    "pause">>,
    <<"dialing", "go_pause",    "pause">>,
    <<"call",    "go_pause",    "pause">>,
    <<"status",  "go_pause",    "pause">>,
    <<"verify",  "go_pause",    "pause">>,
    <<"pause",   "resume",      "ready">>,
    <<"ready",   "call_started", "dialing">>,
    <<"dialing", "call_started", "call">>,
    <<"dialing", "call_ended",  "status">>,
    <<"dialing", "call_failed", "status">>,
    <<"call",    "call_ended",  "status">>,
    <<"status",  "status_submitted", "ready">>,
    <<"status",  "go_verify",   "verify">>,
    <<"verify",  "verify_done", "ready">> }

(* The states the event leads to: one, or none when the edge is missing or *)
(* the verify guard on the carried outcome rejects it.                     *)
resolveTransition(cur, event) ==
  { next \in States :
      /\ <<cur.state, event, next>> \in transitions
      /\ (cur.state = "status" /\ event = "go_verify") => cur.outcome = "success" }

(* Fault: the outcome is carried on.                                       *)
FaultOutcomeKept(cur, next) == [cur EXCEPT !.state = next]

(* The common part of every write: the outcome does not outlive status.    *)
buildNextSnapshot(cur, next) ==
  [cur EXCEPT !.state = next,
              !.outcome = IF cur.state = "status" /\ next # "status" THEN Nil ELSE @]

EndShift(cur) == { Offline : next \in resolveTransition(cur, "end_shift") }

GoPause(cur, reason) ==
  { [buildNextSnapshot(cur, next) EXCEPT !.pause = reason] :
      next \in resolveTransition(cur, "go_pause") }

(* GoReady and Resume fire the same event with the same mutation.          *)
Resume(cur) ==
  { [buildNextSnapshot(cur, next) EXCEPT !.pause = FALSE] :
      next \in resolveTransition(cur, "resume") }

(* Fault: the call in flight is not looked at.                             *)
FaultAnyCall(cur, call) ==
  { [buildNextSnapshot(cur, next) EXCEPT !.call = call] :
      next \in resolveTransition(cur, "call_started") }

(* A different call in flight is refused; a replay in state call is a      *)
(* no-op; otherwise the call is pinned and the edge taken.                 *)
RecordCallStarted(cur, call) ==
  { [buildNextSnapshot(cur, next) EXCEPT !.call = call] :
      next \in { n \in resolveTransition(cur, "call_started") :
                   /\ cur.call \in {Nil, call}
                   /\ ~ (cur.state = "call" /\ cur.call = call) } }

(* req.CallID is not consulted: whatever call is bound is ended.           *)
RecordCallEnded(cur, outcome) ==
  { [buildNextSnapshot(cur, next) EXCEPT !.outcome = outcome] :
      next \in resolveTransition(cur, "call_ended") }

SubmitStatus(cur) ==
  { [buildNextSnapshot(cur, next) EXCEPT !.call = Nil, !.outcome = Nil] :
      next \in resolveTransition(cur, "status_submitted") }

GoVerify(cur) ==
  { buildNextSnapshot(cur, next) : next \in resolveTransition(cur, "go_verify") }

VerifyDone(cur) ==
  { buildNextSnapshot(cur, next) : next \in resolveTransition(cur, "verify_done") }

(* Fault: offline keeps the session bound.                                 *)
FaultForceKeepsSession(cur, target) ==
  { [Offline EXCEPT !.state = target, !.session = cur.session] :
      s \in {cur.state} \ {target} }

(* Machine.Force bypasses the table and clears everything but the session, *)
(* which only an offline target unbinds.                                   *)
ForceState(cur, target) ==
  { [Offline EXCEPT !.state = target,
                    !.session = IF target = "offline" THEN Nil ELSE cur.session] :
      s \in {cur.state} \ {target} }

(* One operation takes a snapshot to another.                              *)
Effect(cur, upd) ==
  \/ upd \in EndShift(cur)
  \/ \E reason \in BOOLEAN : upd \in GoPause(cur, reason)
  \/ upd \in Resume(cur)
  \/ \E c \in Calls : upd \in RecordCallStarted(cur, c)
  \/ \E o \in Outcomes : upd \in RecordCallEnded(cur, o)
  \/ upd \in SubmitStatus(cur)
  \/ upd \in GoVerify(cur)
  \/ upd \in VerifyDone(cur)
  \/ \E target \in States : upd \in ForceState(cur, target)

(* The optional fields agree with the state.                               *)
Clean(s) ==
  /\ s.outcome # Nil => s.state = "status"
  /\ s.pause => s.state = "pause"
  /\ s.state = "offline" => s = Offline

=============================================================================
