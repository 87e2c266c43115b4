----------------------------- MODULE MCPipeline -----------------------------
(***************************************************************************)
(* Model checking of the outbox and the analytics ingest together.         *)
(*                                                                         *)
(* The ingest only reads the stream, the relays only add to it, and the    *)
(* bus may deliver a copy as late as it likes, so it makes no difference   *)
(* to the ingest whether a copy is published late or delivered late.  The  *)
(* replicas therefore start when the relays have come to rest, which       *)
(* leaves out the product of the two state spaces and nothing else.        *)
(***************************************************************************)
EXTENDS AnalyticsIngest

atRest ==
  /\ appended = Events
  /\ \A r \in Relays : ~ relay[r].open
  /\ drainable = {}

MCNext == (OutboxNext /\ UNCHANGED ingestVars) \/ (atRest /\ IngestNext)

(* The instance waits for all its events to be appended; that they are is  *)
(* part of the instance and not a claim about the modules that append.     *)
MCSpec == Init /\ [][MCNext]_vars
            /\ \A r \in Relays : WF_vars(RelayStep(r) /\ UNCHANGED ingestVars)
            /\ \A p \in Replicas :
                 /\ WF_vars(atRest /\ HandlerStep(p))
                 /\ WF_vars(atRest /\ FlusherStep(p))
                 /\ WF_vars(atRest /\ ProcessStep(p))
            /\ \A e \in Events : WF_vars(AppendEvent(e) /\ UNCHANGED ingestVars)

(* Events are accounted for on their way into ClickHouse (analytics        *)
(* ingest.go, dedup.go): what is acknowledged is written, held or reported *)
(* lost, an event is counted once but for faults, and the LRU remembers    *)
(* the last DedupSize ids.                                                 *)
EventsAreAccounted == TypeOK /\ AckedIsAccounted /\ OneRowPerEvent /\ DedupWindow
=============================================================================
