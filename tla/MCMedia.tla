-------------------------------- MODULE MCMedia --------------------------------
(***************************************************************************)
(* Model-checking instance of the recordings and of the channel router,    *)
(* which share no state: racing commits from an empty table (commit), two  *)
(* worker processes sweeping two stored recordings (keep), one recording   *)
(* from its upload to its end (whole), and the slots of two FreeSWITCH     *)
(* nodes (channels).                                                       *)
(***************************************************************************)
EXTENDS Retention, ChannelRouter

CONSTANTS w1, w2, q1, q2

VARIABLE scenario

mcOrgs == [c \in RecCalls |-> "own"]
mcListeners == {[roles |-> {"admin"}, org |-> "own"],
                [roles |-> {"supervisor"}, org |-> "other"],
                [roles |-> {"operator"}, org |-> "own"]}
mcTrunks == <<[id |-> 2, gateway |-> "g", cost |-> 2, weight |-> 1, capacity |-> 5],
              [id |-> 1, gateway |-> "g", cost |-> 2, weight |-> 0, capacity |-> 5],
              [id |-> 3, gateway |-> "g", cost |-> 1, weight |-> 1, capacity |-> 0]>>

(* A plan that erases the next day and would be cold only after that, and  *)
(* one that leaves both days out.                                          *)
mcPlans == {[cold |-> 2, delete |-> 1], [cold |-> -1, delete |-> -1]}

(* The table after q1 committed the calls of S on day 0.                   *)
Stored(S) ==
  LET row == [NoRec EXCEPT !.status = "stored", !.by = q1, !.committedAt = 0, !.coldAt = 1, !.deleteAt = 1]
      logged == buildOutboxEvent(writeAuditRow(NoTrail))
  IN /\ recRows = [c \in RecCalls |-> IF c \in S THEN row ELSE NoRec]
     /\ objects = [c \in RecCalls |-> IF c \in S THEN "audio" ELSE "none"]
     /\ rectrail = [c \in RecCalls |-> IF c \in S THEN logged ELSE NoTrail]
     /\ creq = [q \in CommitRequests |-> NoCommit]
     /\ rday = 0 /\ recFaults = 0
     /\ WorkersInit

vars == <<scenario, retentionVars, routerVars>>

Init ==
  /\ RouterInit
  /\ \/ scenario \in {"commit", "whole", "channels"} /\ RetentionInit
     \/ scenario = "keep" /\ Stored(RecCalls)

(* One call, committed once, swept by w1 and checked by both processes,    *)
(* never listened to.                                                      *)
OneCall ==
  /\ sweeper'[w2] = Asleep
  /\ \A c \in RecCalls \ {1} : objects'[c] = "none"
  /\ \A q \in CommitRequests \ {q1} : creq'[q] = NoCommit
  /\ recRows[1] # NoRec => creq'[q1] = NoCommit
  /\ rectrail'[1].accessed = 0

(* Both requests may carry call 1 and differ in the days they ask for; the *)
(* other call is q2's, and its days are left out.                          *)
OneChoice ==
  \A q \in CommitRequests :
    creq'[q].pc # "idle" /\ creq'[q].call # 1 => q = q2 /\ creq'[q].delete = Epoch

Next ==
  /\ UNCHANGED scenario
  /\ \/ scenario = "commit" /\ RecordingsNext /\ OneChoice /\ rday' < MaxRecDay /\ UNCHANGED <<passVars, routerVars>>
     \/ scenario = "keep" /\ StorageNext /\ UNCHANGED <<passVars, routerVars>>
     \/ scenario = "keep" /\ SweepsNext /\ UNCHANGED routerVars
     \/ scenario = "whole" /\ RetentionNext /\ OneCall /\ UNCHANGED routerVars
     \/ scenario = "channels" /\ RouterNext /\ 2 \in healthyFs' /\ UNCHANGED retentionVars

(* RetentionFairness and RouterFairness, each of the part that moves.      *)
swept == scenario \in {"keep", "whole"}
sweeps(w) == scenario = "keep" \/ (scenario = "whole" /\ w = w1)
routed == scenario = "channels"

Fairness ==
  /\ \A w \in Workers : WF_retentionVars(sweeps(w) /\ RetentionStep(w))
  /\ WF_retentionVars(swept /\ PassDay /\ UNCHANGED passVars)
  /\ WF_routerVars(routed /\ Reconciles)
  /\ \A q \in RouteRequests : WF_routerVars(routed /\ GoesOn(q))
  /\ \A n \in FsNodes : WF_routerVars(routed /\ Recovers(n))

Spec == Init /\ [][Next]_vars /\ Fairness

-----------------------------------------------------------------------------
(* The rows a client collects by following next from an empty cursor.      *)
RECURSIVE AllPages(_, _)
AllPages(who, s) ==
  LET page == searchRecordings(who, s)
  IN page.items \o (IF page.more THEN AllPages(who, [s EXCEPT !.cursor = page.next])
                    ELSE <<>>)

(* Following the cursors from the first page lists every recording of the  *)
(* tenant once, newest first, rows committed on the same instant included, *)
(* whatever page size below the maximum is asked for; nobody is shown a    *)
(* recording of another tenant.                                            *)
PagesCoverOnce ==
  \A who \in RecCallers :
    requireRole(who, {"admin", "supervisor"}) =>
      \A limit \in 0..(SearchMax - 1), status \in {{}, {"cold", "deleted"}} :
        LET s == parseSearchQuery(limit, status)
            wanted == {c \in RecCalls : /\ CallOrg[c] = who.org /\ recRows[c] # NoRec
                                        /\ status = {} \/ recRows[c].status \in status}
            got == AllPages(who, s)
        IN /\ ToSet(got) = wanted /\ Len(got) = Cardinality(wanted)
           /\ \A i, j \in 1..Len(got) : i < j => newestFirst(got[i], got[j])

(* Recordings are accounted for (internal/recording): committed once and   *)
(* announced once, listed once by the pages, erased once and completely,   *)
(* and never called damaged without damage.                                *)
RecordsAreAccounted ==
  ~routed => RetentionTypeOK /\ RecordedOnce /\ PagesCoverOnce /\ ErasedIsAccounted /\ NoFalseAlarm

(* A recording past its delete_at is erased in the end, whichever worker   *)
(* crashes between the object and the row, loses its session or meets a    *)
(* failing statement.                                                      *)
ExpiredIsErased ==
  \A c \in RecCalls : (swept /\ c \in dueDeletes) ~> (recRows[c].status = "deleted")

(* The channel counter of a node (telephony/router, dialer/capacity)       *)
(* conserves the slots it gives out: see SlotsAreConserved.                *)
ChannelsAreBounded == routed => RouterTypeOK /\ SlotsAreConserved
=============================================================================
