---------------------------- MODULE OperatorShift ----------------------------
(***************************************************************************)
(* What OperatorFSM promises its callers: one operator's snapshot moves by *)
(* whole operations, each reading the snapshot it replaces.  There are no  *)
(* requests in flight here, no versions and no database: every operation   *)
(* of api.OperatorFSM is one step.  OperatorFSM is shown to implement this *)
(* module as long as no request outlives the shift it was issued in.       *)
(***************************************************************************)
EXTENDS FSMTransitions

VARIABLE snap

Init == snap = Offline

(* A shift begins with nothing left over from the one before.              *)
StartShift ==
  /\ snap.state = "offline"
  /\ \E s \in Sessions : snap' = [Offline EXCEPT !.state = "ready", !.session = s]

Operation == Effect(snap, snap')

(* The hash's time-to-live runs out: the operator is implicitly offline.   *)
Lapse == snap' = Offline

Next == StartShift \/ Operation \/ Lapse

Spec == Init /\ [][Next]_snap

=============================================================================
