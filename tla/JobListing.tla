----------------------------- MODULE JobListing -----------------------------
(***************************************************************************)
(* The paged listing of reports_jobs: PG.List of internal/reports/store,   *)
(* read page by page while jobs are inserted.  created_at has the          *)
(* resolution of the database clock, the cursor that of a Unix second.     *)
(***************************************************************************)
EXTENDS Naturals, FiniteSets

CONSTANTS Ids,            \* job ids, ordered
          RequestedLimit, \* ListJobsFilter.Limit
          TicksPerSecond, \* database clock ticks in a second
          NoCursor,
          MaxClock        \* bound: the clock

VARIABLES
  clock,  \* now() of the database
  rows,   \* the tenant's jobs: created_at and id
  reader  \* the client: next cursor, rows seen, rows there when it began

vars == <<clock, rows, reader>>

Init ==
  /\ clock = 0
  /\ rows = {}
  /\ reader = [ pc |-> "idle", cursor |-> NoCursor, seen |-> {}, promised |-> {} ]

(* PG.Create: created_at defaults to now().                                *)
Create(id) ==
  /\ \A r \in rows : r.id # id
  /\ rows' = rows \cup {[ at |-> clock, id |-> id ]}
  /\ UNCHANGED <<clock, reader>>

Tick == clock < MaxClock /\ clock' = clock + 1 /\ UNCHANGED <<rows, reader>>

clampLimit(limit) == IF limit <= 0 THEN 100 ELSE IF limit > 500 THEN 500 ELSE limit

encodeCursor(r) == [ sec |-> r.at \div TicksPerSecond, id |-> r.id ]

decodeCursor(c) == [ at |-> c.sec * TicksPerSecond, id |-> c.id ]

(* Row comparison (a.created_at, a.id) < (b.created_at, b.id).             *)
before(a, b) == a.at < b.at \/ (a.at = b.at /\ a.id < b.id)

(* buildListQuery: WHERE (created_at, id) < cursor ORDER BY both DESC      *)
(* LIMIT.                                                                  *)
listed(cursor) ==
  LET C == { r \in rows : cursor = NoCursor \/ before(r, decodeCursor(cursor)) } IN
  { r \in C : Cardinality({ q \in C : before(r, q) }) < clampLimit(RequestedLimit) }

(* PG.List: a full page carries the cursor of its last row.                *)
nextCursor(page) ==
  IF Cardinality(page) = clampLimit(RequestedLimit)
  THEN encodeCursor(CHOOSE r \in page : \A q \in page \ {r} : before(r, q))
  ELSE NoCursor

(* One page; a listing without a next cursor is complete.                  *)
List ==
  LET first == reader.pc = "idle"
      page  == listed(reader.cursor)
  IN  /\ reader.pc \in {"idle", "paging"}
      /\ reader' = [ pc       |-> IF nextCursor(page) = NoCursor THEN "done" ELSE "paging",
                     cursor   |-> nextCursor(page),
                     seen     |-> reader.seen \cup page,
                     promised |-> IF first THEN rows ELSE reader.promised ]
      /\ UNCHANGED <<clock, rows>>

Next == Tick \/ List \/ \E id \in Ids : Create(id)

Spec == Init /\ [][Next]_vars

-----------------------------------------------------------------------------
(* "Unix seconds are sufficient because the keyset predicate tiebreaks on  *)
(* id within the same second": a client that follows the cursors to the    *)
(* end has seen every job there was when it began.                         *)
EveryRowListed == reader.pc = "done" => reader.promised \subseteq reader.seen
=============================================================================
