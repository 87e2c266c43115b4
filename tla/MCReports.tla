----------------------------- MODULE MCReports ------------------------------
(***************************************************************************)
(* Report jobs and billing for TLC.  They share no state, so a behaviour   *)
(* moves one of them and a property is evaluated where its part moves.     *)
(* Liveness is checked, so no symmetry is declared.                        *)
(***************************************************************************)
EXTENDS ReportJobs, Billing

VARIABLE scenario

(* Three finished calls: a recorded success, a busy line of another        *)
(* project, and an event that cannot be decoded.                           *)
mcFin ==
  [a |-> [project |-> "p", trunk |-> "t", seconds |-> 90, status |-> "success", bytes |-> 1,
          at |-> 3, sound |-> TRUE],
   b |-> [project |-> "q", trunk |-> "u", seconds |-> 0, status |-> "busy", bytes |-> 4,
          at |-> 4, sound |-> TRUE],
   z |-> [project |-> "q", trunk |-> "t", seconds |-> 1, status |-> "busy", bytes |-> 1,
          at |-> 4, sound |-> FALSE]]
mcFee == [p |-> 7, q |-> 2]
mcImported == [d \in 0..8 |-> IF d = 4 THEN 2 ELSE 0]
mcDefaults == [trunks |-> [t |-> 2], wage |-> 5, bases |-> 1, storage |-> 1, fixed |-> 3,
               version |-> 0]
mcPatches == {[trunks |-> [t |-> 4, u |-> 1], wage |-> 6], [fixed |-> -1]}

jobs == scenario = "jobs"
billing == scenario = "billing"

MCInit == scenario \in {"jobs", "billing"} /\ Init /\ BillingInit

MCNext ==
  /\ UNCHANGED scenario
  /\ \/ jobs /\ Next /\ UNCHANGED billingVars
     \/ billing /\ BillingNext /\ UNCHANGED vars

(* The fairness of ReportJobs and of Billing, each for its own behaviours  *)
(* (of Billing's, what the calls that can be charged need).                *)
MCSpec ==
  /\ MCInit /\ [][MCNext]_<<scenario, vars, billingVars>>
  /\ \A w \in Workers : WF_vars(jobs /\ handleJobRun(w))
  /\ \A j \in Jobs : /\ WF_vars(jobs /\ \E w \in Workers : Deliver(w, j))
                     /\ WF_vars(jobs /\ LeaseExpires(j))
                     /\ WF_vars(jobs /\ Create(j))
  /\ \A c \in {d \in FinCalls : chargeable(d)} :
       SF_billingVars(billing /\ \E s \in Subscribers : DeliverFinalized(s, c))
  /\ \A s \in Subscribers :
       WF_billingVars(billing /\ (handle(s) \/ ReadsTariff(s) \/ OnCallFinalized(s)))


(* What is settled stays: a job that has ended keeps its outcome, and a    *)
(* call is charged once, at the rates then in force.                       *)
SettledIsFinal == TerminalIsFinal /\ ChargedOnce

(* The reports of billing agree on the calls of a period, whichever way    *)
(* they are summed.                                                        *)
SumsAgree == billing => BillingTypeOK /\ ReportsAgree
=============================================================================
