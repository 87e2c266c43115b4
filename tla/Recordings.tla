------------------------------ MODULE Recordings ------------------------------
(***************************************************************************)
(* internal/recording: committing an uploaded call recording, reading it   *)
(* back and searching.  The ingest agent uploads the encrypted audio to    *)
(* the object store and then calls Commit over gRPC; Commit writes the     *)
(* call_recordings row, its audit row and the outbox event in one          *)
(* transaction, and a repeated Commit of a call is answered as a replay.   *)
(*                                                                         *)
(* A recording is known by its call (call_id is UNIQUE); calls are numbers *)
(* so that (committed_at, id) can be compared as the search does.          *)
(***************************************************************************)
EXTENDS Integers, FiniteSets, Sequences, Functions

CONSTANTS
  RecCalls,        \* the calls of the dialler, numbers
  CallOrg,         \* the tenant of each call
  CommitRequests,  \* Commit requests in flight at one time
  RecCallers,      \* HTTP callers: [roles, org]
  Plans,           \* retention plans agents send: [cold, delete], each a day or Unset
  SearchDefault,   \* defaultSearchLimit
  SearchMax,       \* maxSearchLimit
  MaxRecDay,       \* bound: the last day of the clock
  MaxRecFaults,    \* bound: failed transactions, crashes, lost sessions
  MaxAccess        \* bound: audited accesses of one recording

ASSUME RecordingsAssumption ==
  /\ RecCalls \subseteq Nat
  /\ Plans \subseteq [cold : Nat \cup {-1}, delete : Nat \cup {-1}]
  /\ SearchDefault \in 1..SearchMax

VARIABLES
  recRows,   \* call_recordings
  objects,   \* the object store: what lies under the recording's key
  rectrail,  \* audit_log rows and outbox events, counted per recording
  creq,      \* the Commit requests
  rday,      \* the clock, in days
  recFaults  \* faults so far

recordingVars == <<recRows, objects, rectrail, creq, rday, recFaults>>

Never == -1
Unset == -1   \* a timestamp the request leaves out
Epoch == 0    \* 1970-01-01: past on every day of the clock
RecOrgs == {CallOrg[c] : c \in RecCalls}

NoRec == [status |-> "none", by |-> "nobody", committedAt |-> Never,
          coldAt |-> Never, deleteAt |-> Never,
          verifiedAt |-> Never, integrity |-> "unknown"]
NoTrail == [committed |-> 0, uploaded |-> 0, accessed |-> 0, cold |-> 0,
            erased |-> 0, deleted |-> 0, verified |-> 0, rotted |-> 0]
NoCommit == [pc |-> "idle", call |-> 0, now |-> Never, cold |-> Epoch, delete |-> Epoch]

RecordingsInit ==
  /\ recRows = [c \in RecCalls |-> NoRec]
  /\ objects = [c \in RecCalls |-> "none"]
  /\ rectrail = [c \in RecCalls |-> NoTrail]
  /\ creq = [q \in CommitRequests |-> NoCommit]
  /\ rday = 0
  /\ recFaults = 0

recFault == recFaults < MaxRecFaults /\ recFaults' = recFaults + 1

-----------------------------------------------------------------------------
(* The world: the agent's upload, damage at rest, and time.                *)

(* The ingest agent puts the audio before it commits (external).           *)
Upload(c) ==
  /\ objects[c] = "none" /\ recRows[c] = NoRec
  /\ objects' = [objects EXCEPT ![c] = "audio"]
  /\ UNCHANGED <<recRows, rectrail, creq, rday, recFaults>>

Rot(c) ==
  /\ objects[c] = "audio" /\ recFault
  /\ objects' = [objects EXCEPT ![c] = "damaged"]
  /\ rectrail' = [rectrail EXCEPT ![c].rotted = @ + 1]
  /\ UNCHANGED <<recRows, creq, rday>>

PassDay ==
  /\ rday < MaxRecDay
  /\ rday' = rday + 1
  /\ UNCHANGED <<recRows, objects, rectrail, creq, recFaults>>

-----------------------------------------------------------------------------
(* Commit.                                                                 *)

(* The certificate's SPIFFE URI names the agent's tenant; anything else is *)
(* refused before the handler runs.                                        *)
ParsePeerIdentity(cert) == cert.scheme = "spiffe" /\ cert.org \in RecOrgs

(* The tenant claimed in the request must be the certificate's.            *)
sameTenant(cert, in) == ParsePeerIdentity(cert) /\ in.org = cert.org

(* The handler turns the timestamps of the request into instants; one that *)
(* is left out becomes the epoch.                                          *)
AsTime(t) == IF t = Unset THEN Epoch ELSE t
IsZero(t) == t = Never

(* Identity, provenance and content: complete, or refused.  No instant the *)
(* handler makes is the zero time, so a plan left out passes.              *)
validateCommitContent(in) == in.complete /\ ~IsZero(AsTime(in.plan.delete)) /\ ~IsZero(AsTime(in.plan.cold))
validateCommit(in) == validateCommitContent(in)

(* Certificates and requests an agent may come with.                       *)
Certificates == [scheme : {"spiffe", "https"}, org : RecOrgs]
CommitInputs == [call : RecCalls, org : RecOrgs, complete : BOOLEAN, plan : Plans]

LookupCallContext(org, c) == CallOrg[c] = org

Commit(q, cert, in) ==
  /\ creq[q].pc = "idle"
  /\ sameTenant(cert, in) /\ validateCommit(in)
  /\ LookupCallContext(in.org, in.call)
  /\ objects[in.call] # "none" \/ recRows[in.call] # NoRec
  /\ creq' = [creq EXCEPT ![q] = [pc |-> "insert", call |-> in.call, now |-> rday,
                                  cold |-> AsTime(in.plan.cold), delete |-> AsTime(in.plan.delete)]]
  /\ UNCHANGED <<recRows, objects, rectrail, rday, recFaults>>

(* The transactions that hold an uncommitted row of call c.                *)
inserting(c) == {p \in CommitRequests : creq[p].pc = "announce" /\ creq[p].call = c}

FaultAnnouncesReplay(q) ==
  /\ creq[q].pc = "insert" /\ inserting(creq[q].call) = {}
  /\ creq' = [creq EXCEPT ![q].pc = "announce"]
  /\ UNCHANGED <<recRows, objects, rectrail, rday, recFaults>>

(* INSERT .. ON CONFLICT (call_id) DO NOTHING: a fresh row goes on to its  *)
(* audit row and event, a committed one is a replay and writes nothing,    *)
(* and behind another transaction's uncommitted row the statement waits.   *)
InsertRecordingIdempotent(q) ==
  LET c == creq[q].call
  IN /\ creq[q].pc = "insert"
     /\ creq' = [creq EXCEPT ![q] =
          IF recRows[c] # NoRec THEN NoCommit
          ELSE [@ EXCEPT !.pc = IF inserting(c) = {} THEN "announce" ELSE "wait"]]
     /\ UNCHANGED <<recRows, objects, rectrail, rday, recFaults>>

(* The waiting INSERT wakes up.  Its read-back runs in the snapshot taken  *)
(* before the wait: a row committed meanwhile is a conflict it cannot see, *)
(* the scan of NULL fails and the transaction is rolled back.              *)
InsertResumes(q) ==
  LET c == creq[q].call
  IN /\ creq[q].pc = "wait" /\ inserting(c) = {}
     /\ creq' = [creq EXCEPT ![q] =
          IF recRows[c] # NoRec THEN NoCommit ELSE [@ EXCEPT !.pc = "announce"]]
     /\ UNCHANGED <<recRows, objects, rectrail, rday, recFaults>>

(* The days of the plan are the request's, whatever the day of the commit. *)
storeRowFromInput(q) ==
  [status |-> "stored", by |-> q, committedAt |-> creq[q].now,
   coldAt |-> creq[q].cold, deleteAt |-> creq[q].delete,
   verifiedAt |-> Never, integrity |-> "unknown"]

writeAuditRow(t) == [t EXCEPT !.committed = @ + 1]
buildOutboxEvent(t) == [t EXCEPT !.uploaded = @ + 1]

(* The rest of the transaction: row, audit row and event commit together.  *)
commitTx(q) ==
  LET c == creq[q].call
  IN /\ recRows' = [recRows EXCEPT ![c] = storeRowFromInput(q)]
     /\ rectrail' = [rectrail EXCEPT ![c] = buildOutboxEvent(writeAuditRow(@))]

(* The transaction commits, or any of its statements fails and it is       *)
(* rolled back; the agent may call again.                                  *)
FinishCommit(q) ==
  /\ creq[q].pc = "announce"
  /\ creq' = [creq EXCEPT ![q] = NoCommit]
  /\ \/ commitTx(q) /\ UNCHANGED recFaults
     \/ recFault /\ UNCHANGED <<recRows, rectrail>>
  /\ UNCHANGED <<objects, rday>>

-----------------------------------------------------------------------------
(* Reading.                                                                *)

NotFound == [error |-> "recording.not_found"]
Gone == [error |-> "recording.already_deleted"]
Forbidden == [error |-> "auth.insufficient_role"]

GetByCallID(org, c) == IF CallOrg[c] = org THEN recRows[c] ELSE NoRec

LookupTenant(c) == IF recRows[c] = NoRec THEN NotFound ELSE [org |-> CallOrg[c]]

Get(org, c) == IF GetByCallID(org, c) = NoRec THEN NotFound ELSE GetByCallID(org, c)

(* The agent's own Get, for the tenant of its certificate only.            *)
GetRecording(cert, org, c) ==
  IF sameTenant(cert, [org |-> org]) THEN Get(org, c)
  ELSE [error |-> "PermissionDenied"]

requireRole(who, roles) == who.roles \cap roles # {}

(* What VerifyChecksum finds: the stored bytes hash to the row's sha256,   *)
(* or they do not; a missing row, a deleted one or a missing object is an  *)
(* error.                                                                  *)
VerifyChecksum(org, c) ==
  LET row == GetByCallID(org, c)
  IN CASE row = NoRec            -> NotFound
       [] row.status = "deleted" -> Gone
       [] objects[c] = "none"    -> NotFound
       [] OTHER                  -> [ok |-> objects[c] = "audio"]

verifyChecksum(who, c) ==
  IF requireRole(who, {"admin"}) THEN VerifyChecksum(who.org, c) ELSE Forbidden

(* Audio is served only after the DEK is unwrapped and every byte is       *)
(* authenticated; a damaged object fails to decrypt.                       *)
decryptable(c) == objects[c] = "audio"

OpenAudioStream(org, c) ==
  LET row == GetByCallID(org, c)
  IN CASE row = NoRec            -> NotFound
       [] row.status = "deleted" -> Gone
       [] objects[c] = "none"    -> NotFound
       [] ~decryptable(c)        -> [error |-> "recording.internal_error"]
       [] OTHER                  -> [audio |-> c]

writeAccessAudit(c) == rectrail' = [rectrail EXCEPT ![c].accessed = @ + 1]

(* GET /calls/:id/recording, without a Range header: what is served is     *)
(* audited in a transaction of its own, whose failure is only logged.      *)
streamRecording(who, c) ==
  /\ requireRole(who, {"admin", "supervisor"})
  /\ OpenAudioStream(who.org, c) = [audio |-> c]
  /\ rectrail[c].accessed < MaxAccess
  /\ writeAccessAudit(c)
  /\ UNCHANGED <<recRows, objects, creq, rday, recFaults>>

-----------------------------------------------------------------------------
(* Search: keyset pages in the order (committed_at, id) descending.        *)

NoCursor == [at |-> Never, id |-> Never]

(* A cursor is both halves or none; a caller's own text is refused.        *)
encodeCursor(c) == [at |-> recRows[c].committedAt, id |-> c]
decodeCursor(cur) == cur = NoCursor \/ (cur.at # Never /\ cur.id # Never)

validateSearchStatus(status) == status \subseteq {"stored", "cold", "deleted"}

clampSearch(limit) ==
  CASE limit <= 0        -> SearchDefault
    [] limit > SearchMax -> SearchMax
    [] OTHER             -> limit

below(c, cur) ==
  \/ recRows[c].committedAt < cur.at
  \/ recRows[c].committedAt = cur.at /\ c < cur.id

FaultComparesInstants(c, cur) == cur = NoCursor \/ recRows[c].committedAt < cur.at

beforeCursor(c, cur) == cur = NoCursor \/ below(c, cur)

(* The WHERE clause: tenant, calls of the project and operator asked for,  *)
(* status, period, and rows below the cursor.                              *)
buildSearchSQL(org, s) ==
  {c \in RecCalls : /\ GetByCallID(org, c) # NoRec
                    /\ c \in s.calls
                    /\ s.status = {} \/ recRows[c].status \in s.status
                    /\ recRows[c].committedAt \in s.from..(s.to - 1)
                    /\ beforeCursor(c, s.cursor)}

newestFirst(a, b) ==
  \/ recRows[a].committedAt > recRows[b].committedAt
  \/ recRows[a].committedAt = recRows[b].committedAt /\ a > b

Take(s, n) == SubSeq(s, 1, IF n < Len(s) THEN n ELSE Len(s))

(* ORDER BY: the row at i has i - 1 newer ones before it.                  *)
StoreSearch(org, s, limit) ==
  LET found == buildSearchSQL(org, s)
  IN Take([i \in 1..Cardinality(found) |->
             CHOOSE c \in found : Cardinality({d \in found : newestFirst(d, c)}) = i - 1], limit)

(* One row more than the page is fetched to learn whether there is more,   *)
(* never more than SearchMax: a page of SearchMax never says so.           *)
Search(org, s) ==
  LET limit == clampSearch(s.limit)
      peek  == IF limit + 1 < SearchMax THEN limit + 1 ELSE SearchMax
      rows  == StoreSearch(org, s, peek)
      more  == Len(rows) > limit
      items == Take(rows, limit)
  IN [items |-> items, more |-> more,
      next |-> IF more THEN encodeCursor(items[Len(items)]) ELSE NoCursor]

(* The query string: no parameter asks for everything from the start.      *)
parseSearchQuery(limit, status) ==
  [calls |-> RecCalls, status |-> status, from |-> 0, to |-> MaxRecDay + 1,
   cursor |-> NoCursor, limit |-> limit]

searchRecordings(who, s) ==
  IF ~requireRole(who, {"admin", "supervisor"}) THEN Forbidden
  ELSE IF ~(validateSearchStatus(s.status) /\ decodeCursor(s.cursor))
       THEN [error |-> "recording.invalid_input"]
       ELSE Search(who.org, s)

-----------------------------------------------------------------------------
CommitNext(q) ==
  \/ \E cert \in Certificates, in \in CommitInputs : Commit(q, cert, in)
  \/ InsertRecordingIdempotent(q)
  \/ InsertResumes(q)
  \/ FinishCommit(q)

StorageNext == PassDay \/ \E c \in RecCalls : Upload(c) \/ Rot(c)

RecordingsNext ==
  \/ StorageNext
  \/ \E q \in CommitRequests : CommitNext(q)
  \/ \E who \in RecCallers, c \in RecCalls : streamRecording(who, c)

RecordingsTypeOK ==
  /\ \A c \in RecCalls :
       /\ recRows[c].status \in {"none", "stored", "cold", "deleted"}
       /\ recRows[c].by \in CommitRequests \cup {"nobody"}
       /\ recRows[c].verifiedAt \in Never..MaxRecDay
       /\ recRows[c].integrity \in {"unknown", "match", "mismatch"}
       /\ objects[c] \in {"none", "audio", "damaged"}
  /\ rday \in 0..MaxRecDay /\ recFaults \in 0..MaxRecFaults

(* However many Commits of a call race, retry after a failed transaction   *)
(* or repeat an answered one, the row has exactly one committed audit row  *)
(* and one uploaded event, and no event precedes its row.                  *)
RecordedOnce ==
  \A c \in RecCalls :
    LET n == IF recRows[c] = NoRec THEN 0 ELSE 1
    IN rectrail[c].committed = n /\ rectrail[c].uploaded = n
=============================================================================
