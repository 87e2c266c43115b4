----------------------- MODULE RetryOrchestrator_proofs -----------------------
(***************************************************************************)
(* For any respondents, orchestrators, workers and faults, the queue, the  *)
(* table and the sweep agree (RespondentsAreKept).                         *)
(*                                                                         *)
(* DedupIsBacked and NoSilentStrand are inductive beside the types.  That  *)
(* nobody is dialled twice is not: the sweep enqueues from a list it made  *)
(* earlier.  Own says who answers for a respondent while nothing fails:    *)
(* the queue, a worker, the generator, or the one leader's list, and no    *)
(* two of them at once.                                                    *)
(***************************************************************************)
EXTENDS RetryOrchestrator, FiniteSetTheorems, SequenceTheorems, TLAPS

Todo == [ resp : Respondents, attempts : Nat ]

(* A sweep that has listed rows has one in hand.                           *)
Busy == \A o \in Replicas : replica[o].pc \in {"commit", "rows", "mark"} => replica[o].todo # << >>

Types == TypeOK /\ Busy

-----------------------------------------------------------------------------
(* A batch is a sequence of different rows.                                *)
LEMMA Batches ==
  ASSUME NEW S \in SUBSET Respondents, NEW s \in byDue(S)
  PROVE  /\ firstRows(s) \in Seq(S)
         /\ \A i, j \in DOMAIN firstRows(s) : i # j => firstRows(s)[i] # firstRows(s)[j]
<1>1. IsFiniteSet(S)
  BY RetryAssumption, FS_Subset, Zenon
<1>2. Cardinality(S) \in Nat
  BY <1>1, FS_CardinalityType, Zenon
<1>3. s \in Seq(S) /\ Len(s) = Cardinality(S) /\ \A i, j \in 1 .. Len(s) : i # j => s[i] # s[j]
  BY <1>2 DEF byDue
<1> DEFINE n == IF Len(s) > BatchLimit THEN BatchLimit ELSE Len(s)
<1>4. n \in Nat /\ n <= Len(s)
  BY <1>2, <1>3, RetryAssumption
<1> HIDE DEF n
<1>5. /\ SubSeq(s, 1, n) \in Seq(S) /\ Len(SubSeq(s, 1, n)) = n
      /\ \A i \in 1 .. n : SubSeq(s, 1, n)[i] = s[i]
  BY <1>3, <1>4
<1>6. QED
  BY <1>3, <1>4, <1>5 DEF firstRows, n

(* What an item becomes in enqueue.lua and requeue.lua.                    *)
LEMMA ItemTypes ==
  /\ \A p \in Nat : capped(p) \in 0 .. MaxPriority
  /\ \A r \in Respondents, p \in Nat, a \in Nat, t \in Nat :
       [ resp |-> r, priority |-> capped(p), at |-> t, attempt |-> a ] \in Item
  /\ \A item \in Item, t \in Nat :
       /\ [ item EXCEPT !.priority = capped(@ + 1), !.at = t ] \in Item
       /\ [ item EXCEPT !.priority = capped(@ + 1), !.at = t ].resp = item.resp
<1>1. \A p \in Nat : capped(p) \in 0 .. MaxPriority
  BY QueueAssumption DEF capped
<1>2. \A item \in Item : item.priority + 1 \in Nat
  BY QueueAssumption DEF Item
<1>3. QED
  BY <1>1, <1>2, Zenon DEF Item

(* The scripts of the queue keep its types.                                *)
LEMMA QueueTypes ==
  ASSUME zset \subseteq Item, dedup \subseteq Respondents
  PROVE  /\ \A r \in Respondents, p \in Nat, a \in Nat, t \in Nat :
              EnqueueRespondent(r, p, a, t) => zset' \subseteq Item /\ dedup' \subseteq Respondents
         /\ \A item \in Item, d \in Nat, t \in Nat :
              Requeue(item, d, t) => zset' \subseteq Item /\ dedup' \subseteq Respondents
         /\ \A item : PickNext(item) => zset' \subseteq Item /\ dedup' \subseteq Respondents
         /\ \A r : Remove(r) => zset' \subseteq Item /\ dedup' \subseteq Respondents
         /\ QueueExpires => zset' \subseteq Item /\ dedup' \subseteq Respondents
<1>1. ASSUME NEW r \in Respondents, NEW p \in Nat, NEW a \in Nat, NEW t \in Nat,
             EnqueueRespondent(r, p, a, t)
      PROVE  zset' \subseteq Item /\ dedup' \subseteq Respondents
  <2>1. [ resp |-> r, priority |-> capped(p), at |-> t, attempt |-> a ] \in Item
    BY ItemTypes, Zenon
  <2>2. QED
    BY <1>1, <2>1, Zenon DEF EnqueueRespondent, queue
<1>2. ASSUME NEW item \in Item, NEW d \in Nat, NEW t \in Nat, Requeue(item, d, t)
      PROVE  zset' \subseteq Item /\ dedup' \subseteq Respondents
  <2>1. t + d \in Nat /\ item.resp \in Respondents
    BY DEF Item
  <2>2. [ item EXCEPT !.priority = capped(@ + 1), !.at = t + d ] \in Item
    BY <2>1, ItemTypes, Zenon
  <2>3. QED
    BY <1>2, <2>1, <2>2, Zenon DEF Requeue
<1>3. QED
  BY <1>1, <1>2, Zenon DEF PickNext, Remove, QueueExpires

(* The next row, or the end of the sweep.                                  *)
LEMMA NextRow ==
  ASSUME Types, NEW o \in Replicas, replica[o].pc \in {"rows", "mark"}, nextRow(o)
  PROVE  /\ replica' \in [Replicas -> Replica] /\ Busy'
         /\ \A q \in Replicas \ {o} : replica'[q] = replica[q]
         /\ replica'[o].todo = Tail(replica[o].todo) /\ replica'[o].pc \in {"idle", "rows"}
         /\ replica'[o].conn = replica[o].conn
         /\ Head(replica[o].todo) \in Todo
<1>1. replica[o] \in Replica /\ replica[o].todo \in Seq(Todo) /\ replica[o].todo # << >>
  BY Zenon DEF Types, TypeOK, Replica, Busy, Todo
<1>2. /\ Tail(replica[o].todo) \in Seq(Todo) /\ Head(replica[o].todo) \in Todo
      /\ Len(replica[o].todo) # 1 => Tail(replica[o].todo) # << >>
  <2>1. ASSUME NEW s \in Seq(Todo), s # << >>
        PROVE  /\ Tail(s) \in Seq(Todo) /\ Head(s) \in Todo
               /\ Len(s) # 1 => Tail(s) # << >>
    <3>1. Len(s) \in Nat /\ Len(s) > 0
      BY <2>1, EmptySeq
    <3>2. Tail(s) \in Seq(Todo) /\ Head(s) \in Todo /\ Len(Tail(s)) = Len(s) - 1
      BY <2>1, HeadTailProperties, Zenon
    <3>3. Len(<< >>) = 0
      BY EmptySeq, Zenon
    <3>4. Len(Tail(s)) # 0 => Tail(s) # << >>
      BY <3>3, Zenon
    <3>5. QED
      BY <3>1, <3>2, <3>4
  <2>2. QED
    BY <1>1, <2>1, Zenon
<1>3. /\ replica'[o] = [replica[o] EXCEPT !.todo = Tail(replica[o].todo),
                          !.pc = IF Len(replica[o].todo) = 1 THEN "idle" ELSE "rows"]
      /\ \A q \in Replicas \ {o} : replica'[q] = replica[q]
      /\ DOMAIN replica' = Replicas /\ replica' = [q \in Replicas |-> replica'[q]]
  BY Zenon DEF nextRow, Types, TypeOK
<1>4. /\ replica'[o] \in Replica /\ replica'[o].todo = Tail(replica[o].todo)
      /\ replica'[o].conn = replica[o].conn
      /\ replica'[o].pc = IF Len(replica[o].todo) = 1 THEN "idle" ELSE "rows"
  BY <1>1, <1>2, <1>3, Zenon DEF Replica, PCs, Todo
<1>5. replica' \in [Replicas -> Replica]
  BY <1>3, <1>4 DEF Types, TypeOK
<1>6. Busy'
  <2>1. replica'[o].pc \in {"commit", "rows", "mark"} => replica'[o].todo # << >>
    BY <1>2, <1>4, Zenon
  <2>2. ASSUME NEW q \in Replicas \ {o}, replica'[q].pc \in {"commit", "rows", "mark"}
        PROVE  replica'[q].todo # << >>
    BY <1>3, <2>2, Zenon DEF Types, Busy
  <2>3. QED
    BY <2>1, <2>2, Zenon DEF Busy
<1>7. QED
  BY <1>2, <1>3, <1>4, <1>5, <1>6, Zenon

(* A replica changes its program counter alone.                            *)
LEMMA Goto ==
  ASSUME Types, NEW o \in Replicas, NEW pc \in PCs, goto(o, pc),
         pc \in {"commit", "rows", "mark"} => replica[o].todo # << >>
  PROVE  /\ replica' \in [Replicas -> Replica] /\ Busy'
         /\ \A q \in Replicas \ {o} : replica'[q] = replica[q]
         /\ replica'[o].pc = pc /\ replica'[o].todo = replica[o].todo
         /\ replica'[o].conn = replica[o].conn
BY ZenonT(40) DEF goto, Types, TypeOK, Replica, Busy

(* The rows of a listing.                                                  *)
LEMMA Listing ==
  ASSUME Types, NEW o \in Replicas, ListMatureRetries(o)
  PROVE  /\ replica' \in [Replicas -> Replica] /\ Busy'
         /\ \A q \in Replicas \ {o} : replica'[q] = replica[q]
         /\ replica'[o].conn = replica[o].conn
         /\ replica'[o].pc \in {"idle", "commit"}
         /\ \A i \in DOMAIN replica'[o].todo :
              mature(replica'[o].todo[i].resp) /\ replica'[o].todo[i].resp \in Respondents
         /\ \A i, j \in DOMAIN replica'[o].todo :
              i # j => replica'[o].todo[i].resp # replica'[o].todo[j].resp
<1> DEFINE S == { r \in Respondents : mature(r) } \ locked
<1>1. PICK s \in byDue(S) :
        replica' = [replica EXCEPT
          ![o].pc = IF firstRows(s) = << >> THEN "idle" ELSE "commit",
          ![o].todo = [i \in DOMAIN firstRows(s) |->
                         [ resp |-> firstRows(s)[i], attempts |-> rows[firstRows(s)[i]].attempts ]]]
  BY Zenon DEF ListMatureRetries
<1> DEFINE batch == firstRows(s)
           todo == [i \in DOMAIN batch |-> [ resp |-> batch[i], attempts |-> rows[batch[i]].attempts ]]
<1>2. batch \in Seq(S) /\ \A i, j \in DOMAIN batch : i # j => batch[i] # batch[j]
  BY Batches, Zenon
<1>3. replica' = [replica EXCEPT ![o].pc = IF batch = << >> THEN "idle" ELSE "commit",
                                 ![o].todo = todo]
  BY <1>1, Zenon
<1> HIDE DEF batch
<1>4. DOMAIN batch = 1 .. Len(batch) /\ Len(batch) \in Nat /\ \A i \in DOMAIN batch : batch[i] \in S
  BY <1>2
<1>5. \A r \in S : r \in Respondents /\ mature(r) /\ rows[r].attempts \in Nat
  BY Zenon DEF Types, TypeOK, Row
<1>6. /\ \A i \in DOMAIN batch : todo[i].resp = batch[i] /\ todo[i] \in Todo
      /\ DOMAIN todo = DOMAIN batch
  BY <1>4, <1>5, Zenon DEF Todo
<1>7. todo \in Seq(Todo) /\ (todo = << >> => batch = << >>)
  <2>1. todo = [i \in 1 .. Len(batch) |-> todo[i]]
    BY <1>4, <1>6, Zenon
  <2>2. \A i \in 1 .. Len(batch) : todo[i] \in Todo
    BY <1>4, <1>6, Zenon
  <2> HIDE DEF todo
  <2>3. todo \in Seq(Todo) /\ Len(todo) = Len(batch)
    BY <1>4, <1>6, <2>1, <2>2
  <2>4. QED
    BY <1>2, <2>3
<1> HIDE DEF todo
<1>8. /\ \A q \in Replicas \ {o} : replica'[q] = replica[q]
      /\ replica'[o] = [replica[o] EXCEPT !.pc = IF batch = << >> THEN "idle" ELSE "commit",
                                          !.todo = todo]
      /\ replica' = [q \in Replicas |-> replica'[q]]
  BY <1>3, Zenon DEF Types, TypeOK
<1>9. /\ replica'[o] \in Replica /\ replica'[o].todo = todo /\ replica'[o].conn = replica[o].conn
      /\ replica'[o].pc = IF batch = << >> THEN "idle" ELSE "commit"
  <2> DEFINE pc == IF batch = << >> THEN "idle" ELSE "commit"
  <2>1. pc \in PCs
    BY Zenon DEF PCs
  <2>2. replica[o] \in [ conn : BOOLEAN, pc : PCs, todo : Seq(Todo) ]
    BY Zenon DEF Types, TypeOK, Replica, Todo
  <2>3. replica'[o] = [replica[o] EXCEPT !.pc = pc, !.todo = todo]
    BY <1>8, Zenon
  <2> HIDE DEF pc
  <2>4. /\ replica'[o] \in [ conn : BOOLEAN, pc : PCs, todo : Seq(Todo) ]
        /\ replica'[o].todo = todo /\ replica'[o].conn = replica[o].conn /\ replica'[o].pc = pc
    BY <1>7, <2>1, <2>2, <2>3, ZenonT(40)
  <2>5. QED
    BY <2>4, Zenon DEF Replica, Todo, pc
<1>10. replica' \in [Replicas -> Replica] /\ Busy'
  BY <1>7, <1>8, <1>9, ZenonT(40) DEF Types, TypeOK, Busy
<1>11. QED
  BY <1>2, <1>4, <1>5, <1>6, <1>8, <1>9, <1>10
-----------------------------------------------------------------------------
(* The fields of a row that a disposition writes.                          *)
LEMMA Applied ==
  ASSUME TypeOK, NEW status \in Dispositions, NEW time \in {0, now + 1}, NEW a \in Nat
  PROVE  /\ Apply(status, a, time).delay \in Nat
         /\ Apply(status, a, time).retry \in BOOLEAN
<1>1. now \in Nat /\ time \in Nat /\ RetryDelay \in Nat
  BY RetryAssumption DEF TypeOK
<1>2. callbackDelay(time) \in Nat
  BY <1>1 DEF callbackDelay
<1>3. \A d \in Nat : retryWithCap(a, d).delay \in Nat /\ retryWithCap(a, d).retry \in BOOLEAN
  BY Zenon DEF retryWithCap
<1>4. CASE status = "final"
  BY <1>4, Zenon DEF Apply
<1>5. CASE status = "no_answer"
  BY <1>1, <1>3, <1>5, Zenon DEF Apply
<1>6. CASE status = "callback"
  BY <1>2, <1>3, <1>6, Zenon DEF Apply
<1>7. CASE status = "tech_failure"
  BY <1>1, <1>7, Zenon DEF Apply
<1>8. QED
  BY <1>4, <1>5, <1>6, <1>7, Zenon DEF Dispositions

(* What Conclude does: the row waits for a later sweep or is done with.    *)
LEMMA Concluded ==
  ASSUME TypeOK, NEW item \in held, Conclude(item)
  PROVE  /\ rows' \in [Respondents -> Row]
         /\ item.resp \in Respondents
         /\ \A r \in Respondents \ {item.resp} : rows'[r] = rows[r]
         /\ \/ rows'[item.resp].status = "pending" /\ rows'[item.resp].due # Nil
            \/ rows'[item.resp].status \in {"completed", "exhausted"}
<1>1. item.resp \in Respondents
  BY Zenon DEF TypeOK, Item
<1> DEFINE r == item.resp
<1>2. PICK status \in Dispositions, time \in {0, now + 1} :
        rows' = [rows EXCEPT ![r] = decided(@, Apply(status, @.attempts, time))]
  BY Zenon DEF Conclude
<1> DEFINE d == Apply(status, rows[r].attempts, time)
           st == IF d.retry THEN "pending" ELSE IF d.exhausted THEN "exhausted" ELSE "completed"
           at == IF d.counts THEN rows[r].attempts + 1 ELSE rows[r].attempts
           due == IF d.retry THEN now + d.delay ELSE Nil
<1>3. rows[r] \in Row /\ rows[r].attempts \in Nat /\ now \in Nat
  BY <1>1 DEF TypeOK, Row
<1>4. d.delay \in Nat
  BY <1>3, Applied, Zenon
<1>5. /\ \A q \in Respondents \ {r} : rows'[q] = rows[q]
      /\ rows'[r] = decided(rows[r], d)
      /\ rows' = [q \in Respondents |-> rows'[q]]
  BY <1>1, <1>2, ZenonT(40) DEF TypeOK
<1> HIDE DEF d
<1>6. /\ st \in Statuses /\ at \in Nat /\ due \in Nat \cup {Nil}
      /\ \/ st = "pending" /\ due # Nil
         \/ st \in {"completed", "exhausted"}
  BY <1>3, <1>4, RetryAssumption DEF Statuses
<1>7. rows'[r] = [rows[r] EXCEPT !.status = st, !.attempts = at, !.due = due]
  BY <1>5, Zenon DEF decided
<1> HIDE DEF st, at, due
<1>8. rows'[r] \in Row /\ rows'[r].status = st /\ rows'[r].due = due
  BY <1>3, <1>6, <1>7, Zenon DEF Row
<1>9. rows' \in [Respondents -> Row]
  BY <1>5, <1>8, Zenon DEF TypeOK
<1>10. QED
  BY <1>1, <1>5, <1>6, <1>8, <1>9, ZenonT(40)

(* What setStatus does.                                                    *)
LEMMA StatusSet ==
  ASSUME TypeOK, NEW r \in Respondents, NEW status \in Statuses, setStatus(r, status)
  PROVE  /\ rows' \in [Respondents -> Row]
         /\ \A q \in Respondents \ {r} : rows'[q] = rows[q]
         /\ rows'[r].status = status /\ rows'[r].due = Nil
BY Zenon DEF setStatus, TypeOK, Row

(* The rows of a list are respondents.                                     *)
LEMMA TodoResp ==
  ASSUME NEW s \in Seq(Todo)
  PROVE  \A i \in DOMAIN s : s[i].resp \in Respondents
<1>1. \A i \in DOMAIN s : s[i] \in Todo
  OBVIOUS
<1>2. \A t \in Todo : t.resp \in Respondents
  BY Zenon DEF Todo
<1>3. QED
  BY <1>1, <1>2, Zenon

(* The row in hand.                                                        *)
LEMMA RowInHand ==
  ASSUME Types, NEW o \in Replicas, replica[o].pc \in {"commit", "rows", "mark"}
  PROVE  /\ replica[o].todo \in Seq(Todo) /\ replica[o].todo # << >>
         /\ Len(replica[o].todo) \in Nat \ {0}
         /\ Head(replica[o].todo) \in Todo /\ Head(replica[o].todo) = replica[o].todo[1]
         /\ Head(replica[o].todo).resp \in Respondents
<1>1. replica[o].todo \in Seq(Todo) /\ replica[o].todo # << >>
  BY Zenon DEF Types, TypeOK, Replica, Busy, Todo
<1>2. Len(replica[o].todo) \in Nat \ {0} /\ Head(replica[o].todo) \in Todo
  BY <1>1, EmptySeq, HeadTailProperties, Zenon
<1>3. QED
  BY <1>1, <1>2 DEF Todo

(* The count of faults.                                                    *)
LEMMA FaultCounted ==
  ASSUME TypeOK, Fault
  PROVE  faults' \in 0 .. MaxFaults /\ faults' # 0
BY RetryAssumption DEF Fault, TypeOK

(* Every step keeps the types.                                             *)
LEMMA TypeStep ==
  ASSUME Types, [Next]_vars
  PROVE  Types'
<1> USE DEF Types
<1>1. ASSUME NEW o \in Replicas, Acquire(o)
      PROVE  Types'
  BY <1>1, ZenonT(40) DEF Acquire, TypeOK, Busy, Replica, PCs, queue
<1>2. ASSUME NEW o \in Replicas, ListMatureRetries(o)
      PROVE  Types'
  BY <1>2, Listing, Zenon DEF ListMatureRetries, TypeOK, queue
<1>3. ASSUME NEW o \in Replicas, ListCommits(o)
      PROVE  Types'
  BY <1>3, Goto, RowInHand, Zenon DEF ListCommits, TypeOK, PCs, queue
<1>4. ASSUME NEW o \in Replicas, MarkExhausted(o)
      PROVE  Types'
  BY <1>4, NextRow, StatusSet, RowInHand, Zenon DEF MarkExhausted, TypeOK, Statuses, queue
<1>5. ASSUME NEW o \in Replicas, SkipUndecryptable(o)
      PROVE  Types'
  BY <1>5, NextRow, Zenon DEF SkipUndecryptable, TypeOK, queue
<1>6. ASSUME NEW o \in Replicas, EnqueueRetry(o)
      PROVE  Types'
  <2>1. /\ replica[o].todo # << >> /\ Head(replica[o].todo).resp \in Respondents
        /\ Head(replica[o].todo).attempts \in Nat
    BY <1>6, RowInHand, Zenon DEF EnqueueRetry, Todo
  <2>2. replica' \in [Replicas -> Replica] /\ Busy'
    BY <1>6, <2>1, Goto, Zenon DEF EnqueueRetry, PCs
  <2>3. zset' \subseteq Item /\ dedup' \subseteq Respondents
    <3>1. now \in Nat /\ 1 + Head(replica[o].todo).attempts \in Nat
          /\ Head(replica[o].todo).attempts + 1 \in Nat
      BY <2>1 DEF TypeOK
    <3>2. QED
      BY <1>6, <2>1, <3>1, QueueTypes, Zenon DEF EnqueueRetry, TypeOK
  <2>4. QED
    BY <1>6, <2>2, <2>3, Zenon DEF EnqueueRetry, TypeOK
<1>7. ASSUME NEW o \in Replicas, MarkScheduled(o)
      PROVE  Types'
  BY <1>7, NextRow, StatusSet, RowInHand DEF MarkScheduled, TypeOK, Statuses, queue
<1>8. ASSUME NEW o \in Replicas, SkipRow(o)
      PROVE  Types'
  BY <1>8, NextRow, FaultCounted, Zenon DEF SkipRow, TypeOK, queue
<1>9. ASSUME NEW o \in Replicas, Crash(o)
      PROVE  Types'
  <2>1. IdleReplica \in Replica
    BY EmptySeq, Zenon DEF IdleReplica, Replica, PCs
  <2>2. IdleReplica.pc = "idle"
    BY Zenon DEF IdleReplica
  <2>3. QED
    BY <1>9, <2>1, <2>2, FaultCounted, Zenon DEF Crash, TypeOK, Busy, queue
<1>10. ASSUME NEW o \in Replicas, SessionLost(o)
       PROVE  Types'
  BY <1>10, FaultCounted, Zenon DEF SessionLost, TypeOK, Busy, queue
<1>11. ASSUME NEW r \in Respondents, Persist(r)
       PROVE  Types'
  BY <1>11, ZenonT(40) DEF Persist, TypeOK, Busy, Row, Statuses, queue
<1>12. ASSUME NEW r \in Respondents, EnqueueNew(r)
       PROVE  Types'
  <2>1. now \in Nat /\ 0 \in Nat
    BY DEF TypeOK
  <2>2. zset' \subseteq Item /\ dedup' \subseteq Respondents
    BY <1>12, <2>1, QueueTypes, Zenon DEF EnqueueNew, TypeOK
  <2>3. QED
    BY <1>12, <2>2, Zenon DEF EnqueueNew, TypeOK, Busy
<1>13. ASSUME NEW r \in Respondents, EnqueueFails(r)
       PROVE  Types'
  BY <1>13, FaultCounted, Zenon DEF EnqueueFails, TypeOK, Busy, queue
<1>14. ASSUME NEW r \in Respondents, Withdraw(r)
       PROVE  Types'
  BY <1>14, QueueTypes, Zenon DEF Withdraw, TypeOK, Busy
<1>15. ASSUME NEW item \in zset, Pick(item)
       PROVE  Types'
  BY <1>15, QueueTypes, Zenon DEF Pick, TypeOK, Busy
<1>16. ASSUME NEW item \in held, Conclude(item)
       PROVE  Types'
  <2>1. rows' \in [Respondents -> Row]
    BY <1>16, Concluded, Zenon
  <2>2. /\ held' \subseteq held /\ stranded' \subseteq stranded
        /\ UNCHANGED <<queue, replica, now, lock, creating, faults>>
    BY <1>16, Zenon DEF Conclude
  <2>3. QED
    BY <2>1, <2>2, Zenon DEF TypeOK, Busy, queue
<1>17. ASSUME NEW item \in held, PutBack(item)
       PROVE  Types'
  <2>1. now \in Nat /\ RetryDelay \in Nat /\ item \in Item
    BY RetryAssumption DEF TypeOK
  <2>2. zset' \subseteq Item /\ dedup' \subseteq Respondents
    BY <1>17, <2>1, QueueTypes, Zenon DEF PutBack, TypeOK
  <2>3. QED
    BY <1>17, <2>2, Zenon DEF PutBack, TypeOK, Busy
<1>18. ASSUME NEW item \in held, WorkerCrash(item)
       PROVE  Types'
  BY <1>18, FaultCounted, Zenon DEF WorkerCrash, TypeOK, Item, Busy, queue
<1>19. CASE Expire
  <2>1. Queued \subseteq Respondents
    BY Zenon DEF Queued, TypeOK, Item
  <2>2. QED
    BY <1>19, <2>1, QueueTypes, FaultCounted, Zenon DEF Expire, TypeOK, Busy
<1>20. CASE Tick
  BY <1>20, RetryAssumption DEF Tick, TypeOK, Busy, queue
<1>21. CASE UNCHANGED vars
  BY <1>21, Zenon DEF vars, TypeOK, Busy, queue
<1>22. QED
  BY <1>1, <1>2, <1>3, <1>4, <1>5, <1>6, <1>7, <1>8, <1>9, <1>10, <1>11, <1>12, <1>13, <1>14,
     <1>15, <1>16, <1>17, <1>18, <1>19, <1>20, <1>21, ZenonT(40) DEF Next, Sweep
-----------------------------------------------------------------------------
(* The dedup set and the strands.                                          *)

(* The scripts leave no dedup entry without a member.                      *)
LEMMA DedupStep ==
  ASSUME TypeOK, DedupIsBacked, [Next]_vars
  PROVE  DedupIsBacked'
<1> USE DEF DedupIsBacked, Queued
<1>1. ASSUME NEW r, NEW p, NEW a, NEW t, EnqueueRespondent(r, p, a, t)
      PROVE  DedupIsBacked'
  BY <1>1, Zenon DEF EnqueueRespondent, queue
<1>2. ASSUME NEW item, PickNext(item)
      PROVE  DedupIsBacked'
  BY <1>2, Zenon DEF PickNext
<1>3. ASSUME NEW item \in Item, NEW d \in Nat, NEW t \in Nat, Requeue(item, d, t)
      PROVE  DedupIsBacked'
  <2>1. t + d \in Nat
    OBVIOUS
  <2>2. [ item EXCEPT !.priority = capped(@ + 1), !.at = t + d ].resp = item.resp
    BY <2>1, ItemTypes, Zenon
  <2>3. QED
    BY <1>3, <2>2, Zenon DEF Requeue
<1>4. ASSUME NEW r, Remove(r)
      PROVE  DedupIsBacked'
  BY <1>4, Zenon DEF Remove
<1>5. ASSUME NEW o \in Replicas, Sweep(o) \/ SkipRow(o) \/ Crash(o) \/ SessionLost(o)
      PROVE  DedupIsBacked'
  BY <1>1, <1>5, Zenon
     DEF Sweep, SkipRow, Crash, SessionLost, Acquire, ListMatureRetries, ListCommits,
     MarkExhausted, SkipUndecryptable, EnqueueRetry, MarkScheduled, queue
<1>6. ASSUME NEW r \in Respondents, Persist(r) \/ EnqueueNew(r) \/ EnqueueFails(r) \/ Withdraw(r)
      PROVE  DedupIsBacked'
  BY <1>1, <1>4, <1>6, Zenon DEF Persist, EnqueueNew, EnqueueFails, Withdraw, queue
<1>7. ASSUME NEW item \in held, PutBack(item)
      PROVE  DedupIsBacked'
  <2>1. now \in Nat /\ RetryDelay \in Nat /\ item \in Item
    BY RetryAssumption DEF TypeOK
  <2>2. QED
    BY <1>3, <1>7, <2>1, Zenon DEF PutBack
<1>8. QED
  BY <1>2, <1>5, <1>6, <1>7, Zenon
     DEF Next, vars, Pick, Conclude, WorkerCrash, Expire, QueueExpires,
     Tick, queue

waits(r) == rows[r].status = "dialing" \/ (rows[r].status = "pending" /\ rows[r].due = Nil)

(* Nobody who waits for a call is forgotten.                               *)
LEMMA StrandStep ==
  ASSUME Types, DedupIsBacked, NoSilentStrand, [Next]_vars
  PROVE  NoSilentStrand'
<1> SUFFICES ASSUME NEW r \in Respondents, waits(r)', r \notin stranded'
             PROVE  ~ untracked(r)'
  BY Zenon DEF NoSilentStrand, waits
<1> USE DEF untracked, holding, Queued
<1>1. waits(r) => ~ untracked(r) \/ r \in stranded
  BY Zenon DEF NoSilentStrand, waits
<1>2. ASSUME NEW q, NEW p, NEW a, NEW t, EnqueueRespondent(q, p, a, t)
      PROVE  Queued \subseteq Queued' /\ q \in Queued'
  BY <1>2, Zenon DEF EnqueueRespondent, queue, DedupIsBacked
<1>3. ASSUME UNCHANGED rows, UNCHANGED stranded, UNCHANGED creating, UNCHANGED held,
             Queued \subseteq Queued'
      PROVE  ~ untracked(r)'
  BY <1>1, <1>3, Zenon DEF waits
<1>4. ASSUME NEW o \in Replicas, Sweep(o)
      PROVE  ~ untracked(r)'
  <2>1. CASE Acquire(o) \/ ListMatureRetries(o) \/ ListCommits(o) \/ SkipUndecryptable(o)
    BY <1>3, <2>1, Zenon DEF Acquire, ListMatureRetries, ListCommits, SkipUndecryptable, queue
  <2>2. CASE EnqueueRetry(o)
    BY <1>2, <1>3, <2>2, Zenon DEF EnqueueRetry
  <2>3. CASE MarkExhausted(o)
    <3>1. Head(replica[o].todo).resp \in Respondents
      BY <2>3, RowInHand, Zenon DEF MarkExhausted
    <3>2. \/ rows'[r] = rows[r]
          \/ rows'[r].status = "exhausted"
      BY <2>3, <3>1, StatusSet, Zenon DEF MarkExhausted, Types, Statuses
    <3>3. waits(r)
      BY <3>2, Zenon DEF waits
    <3>4. QED
      BY <1>1, <2>3, <3>3, Zenon DEF MarkExhausted, queue
  <2>4. CASE MarkScheduled(o)
    <3>1. Head(replica[o].todo).resp \in Respondents
      BY <2>4, RowInHand, Zenon DEF MarkScheduled
    <3>2. r # Head(replica[o].todo).resp => rows'[r] = rows[r]
      BY <2>4, <3>1, StatusSet, Zenon DEF MarkScheduled, Types, Statuses
    <3>3. r # Head(replica[o].todo).resp => waits(r)
      BY <3>2, Zenon DEF waits
    <3>4. QED
      BY <1>1, <2>4, <3>3, Zenon DEF MarkScheduled, queue
  <2>5. QED
    BY <1>4, <2>1, <2>2, <2>3, <2>4, ZenonT(40) DEF Sweep
<1>5. ASSUME NEW o \in Replicas, SkipRow(o) \/ Crash(o) \/ SessionLost(o)
      PROVE  ~ untracked(r)'
  BY <1>3, <1>5, Zenon DEF SkipRow, Crash, SessionLost, queue
<1>6. ASSUME NEW q \in Respondents, Persist(q)
      PROVE  ~ untracked(r)'
  <2>1. r # q => rows'[r] = rows[r]
    BY <1>6, Zenon DEF Persist, Types, TypeOK
  <2>2. r # q => waits(r)
    BY <2>1, Zenon DEF waits
  <2>3. QED
    BY <1>1, <1>6, <2>2, Zenon DEF Persist, queue
<1>7. ASSUME NEW q \in Respondents, EnqueueNew(q)
      PROVE  ~ untracked(r)'
  <2>1. waits(r)
    BY <1>7, Zenon DEF EnqueueNew, waits
  <2>2. QED
    BY <1>1, <1>2, <1>7, <2>1, Zenon DEF EnqueueNew
<1>8. ASSUME NEW q \in Respondents, EnqueueFails(q)
      PROVE  ~ untracked(r)'
  BY <1>1, <1>8, Zenon DEF EnqueueFails, waits, queue
<1>9. ASSUME NEW q \in Respondents, Withdraw(q)
      PROVE  ~ untracked(r)'
  <2>1. waits(r) /\ r # q
    BY <1>9, Zenon DEF Withdraw, waits
  <2>2. r \in Queued => r \in Queued'
    BY <1>9, <2>1, Zenon DEF Withdraw, Remove
  <2>3. QED
    BY <1>1, <1>9, <2>1, <2>2, Zenon DEF Withdraw
<1>10. ASSUME NEW item \in zset, Pick(item)
       PROVE  ~ untracked(r)'
  <2>1. waits(r)
    BY <1>10, Zenon DEF Pick, waits
  <2>2. QED
    BY <1>1, <1>10, <2>1, Zenon DEF Pick, PickNext
<1>11. ASSUME NEW item \in held, Conclude(item)
       PROVE  ~ untracked(r)'
  <2>1. r # item.resp /\ rows'[r] = rows[r]
    BY <1>11, Concluded, Zenon DEF Types, waits
  <2>2. waits(r)
    BY <2>1, Zenon DEF waits
  <2>3. QED
    BY <1>1, <1>11, <2>1, <2>2, Zenon DEF Conclude, queue
<1>12. ASSUME NEW item \in held, PutBack(item)
       PROVE  ~ untracked(r)'
  <2>1. now + RetryDelay \in Nat /\ item \in Item
    BY RetryAssumption DEF Types, TypeOK
  <2>2. [ item EXCEPT !.priority = capped(@ + 1), !.at = now + RetryDelay ].resp = item.resp
    BY <2>1, ItemTypes, Zenon
  <2>3. waits(r)
    BY <1>12, Zenon DEF PutBack, waits
  <2>4. item.resp \in Queued' /\ Queued \subseteq Queued'
    BY <1>12, <2>2, Zenon DEF PutBack, Requeue
  <2>5. QED
    BY <1>1, <1>12, <2>3, <2>4, Zenon DEF PutBack
<1>13. ASSUME NEW item \in held, WorkerCrash(item)
       PROVE  ~ untracked(r)'
  BY <1>1, <1>13, Zenon DEF WorkerCrash, waits, queue
<1>14. CASE Expire
  BY <1>1, <1>14, Zenon DEF Expire, waits
<1>15. CASE Tick \/ UNCHANGED vars
  BY <1>3, <1>15, Zenon DEF Tick, vars, queue
<1>16. QED
  BY <1>4, <1>5, <1>6, <1>7, <1>8, <1>9, <1>10, <1>11, <1>12, <1>13, <1>14, <1>15, ZenonT(40)
     DEF Next
-----------------------------------------------------------------------------
(* Who answers for a respondent while nothing fails.                       *)

(* A replica that believes it leads holds the lock, and only it sweeps.    *)
Lead ==
  \A o \in Replicas :
    /\ replica[o].conn => lock = o
    /\ replica[o].pc # "idle" => replica[o].conn

(* A respondent is queued once, or held once, or with the generator.       *)
Items ==
  /\ Queued \subseteq dedup
  /\ \A x, y \in zset \cup held : x.resp = y.resp => x = y
  /\ zset \cap held = {}
  /\ \A r \in creating : r \notin Queued /\ ~ holding(r)

sweeping(o) == replica[o].pc \in {"commit", "rows", "mark"}

(* Row i of the list is still to be enqueued.                              *)
ahead(o, i) == replica[o].pc # "mark" \/ i # 1

retries(r) == rows[r].status = "pending" /\ rows[r].due # Nil

(* The row was enqueued and is about to be marked.                         *)
marking(r) ==
  \E o \in Replicas : replica[o].pc = "mark" /\ Head(replica[o].todo).resp = r

(* A row waiting for its time is in nobody's hands until it is enqueued,   *)
(* and neither are the rows of a list.                                     *)
Lists ==
  /\ \A r \in Respondents :
       /\ rows[r].status = "absent" => untracked(r)
       /\ retries(r) => untracked(r) \/ marking(r)
  /\ \A o \in Replicas : sweeping(o) =>
       /\ \A i, j \in DOMAIN replica[o].todo :
            i # j => replica[o].todo[i].resp # replica[o].todo[j].resp
       /\ \A i \in DOMAIN replica[o].todo :
            /\ rows[replica[o].todo[i].resp].status # "absent"
            /\ ahead(o, i) => untracked(replica[o].todo[i].resp)

Own == faults = 0 => Lead /\ Items /\ Lists

(* Enqueuing someone in nobody's hands.                                    *)
LEMMA ItemsEnqueue ==
  ASSUME Items, NEW r, NEW p, NEW a, NEW t, EnqueueRespondent(r, p, a, t),
         r \notin Queued, ~ holding(r), UNCHANGED held,
         creating' \subseteq creating, r \notin creating'
  PROVE  Items' /\ (\A q : q # r /\ untracked(q) => untracked(q)')
<1> DEFINE item == [ resp |-> r, priority |-> capped(p), at |-> t, attempt |-> a ]
<1>1. item.resp = r
  BY Zenon
<1>2. \/ UNCHANGED <<zset, dedup>>
      \/ zset' = zset \cup {item} /\ dedup' = dedup \cup {r}
  BY Zenon DEF EnqueueRespondent, queue
<1> HIDE DEF item
<1>3. QED
  BY <1>1, <1>2 DEF Items, Queued, holding, untracked

(* Each list keeps its promise while no replica moves, if nobody in no     *)
(* one's hands gets into some, and nobody starts waiting for their time    *)
(* while somebody has them.                                                *)
LEMMA ListsKept ==
  ASSUME Types, Lists, UNCHANGED replica,
         \A q \in Respondents : rows[q].status # "absent" /\ untracked(q) => untracked(q)',
         \A q \in Respondents : rows'[q].status = "absent" =>
           rows[q].status = "absent" /\ untracked(q)',
         \A q \in Respondents : retries(q)' => untracked(q)' \/ retries(q)
  PROVE  Lists'
<1>1. ASSUME NEW r \in Respondents
      PROVE  /\ rows'[r].status = "absent" => untracked(r)'
             /\ retries(r)' => untracked(r)' \/ marking(r)'
  <2>1. marking(r) => marking(r)'
    BY Zenon DEF marking
  <2>2. retries(r) => rows[r].status # "absent"
    BY Zenon DEF retries
  <2>3. QED
    BY <2>1, <2>2, Zenon DEF Lists
<1>2. ASSUME NEW o \in Replicas, sweeping(o)'
      PROVE  /\ sweeping(o) /\ replica'[o].todo = replica[o].todo
             /\ \A i \in DOMAIN replica[o].todo :
                  replica[o].todo[i].resp \in Respondents /\ (ahead(o, i)' <=> ahead(o, i))
  <2>1. replica[o].todo \in Seq(Todo)
    BY <1>2, RowInHand, Zenon DEF sweeping
  <2>2. \A i \in DOMAIN replica[o].todo : replica[o].todo[i].resp \in Respondents
    BY <2>1, TodoResp, ZenonT(40)
  <2>3. QED
    BY <1>2, <2>2, Zenon DEF sweeping, ahead
<1>3. ASSUME NEW o \in Replicas, sweeping(o)'
      PROVE  /\ \A i, j \in DOMAIN replica'[o].todo :
                  i # j => replica'[o].todo[i].resp # replica'[o].todo[j].resp
             /\ \A i \in DOMAIN replica'[o].todo :
                  /\ rows'[replica'[o].todo[i].resp].status # "absent"
                  /\ ahead(o, i)' => \A x : x = replica'[o].todo[i].resp => untracked(x)'
  BY <1>2, <1>3, SMTT(30) DEF Lists
<1>4. QED
  BY <1>1, <1>3, Zenon DEF Lists

(* The rows after the first, in the list without it.                       *)
LEMMA TailOfTodo ==
  ASSUME NEW s \in Seq(Todo), Len(s) \in Nat \ {0}
  PROVE  /\ 1 \in DOMAIN s
         /\ \A i, j \in DOMAIN Tail(s) : i # j => i + 1 # j + 1
         /\ \A i \in DOMAIN Tail(s) :
              /\ Tail(s)[i] = s[i + 1] /\ i + 1 \in DOMAIN s /\ i + 1 # 1
              /\ s[i + 1].resp \in Respondents
<1>1. s # << >>
  BY EmptySeq, Zenon
<1>2. Tail(s) \in Seq(Todo) /\ Len(Tail(s)) = Len(s) - 1
      /\ \A i \in 1 .. Len(Tail(s)) : Tail(s)[i] = s[i + 1]
  BY <1>1, HeadTailProperties, Zenon
<1>3. DOMAIN Tail(s) = 1 .. Len(s) - 1 /\ DOMAIN s = 1 .. Len(s)
  BY <1>2
<1>4. \A i \in 1 .. Len(s) : s[i].resp \in Respondents
  BY <1>3, TodoResp, Zenon
<1>5. /\ 1 \in 1 .. Len(s)
      /\ \A i, j \in 1 .. Len(s) - 1 : i # j => i + 1 # j + 1
      /\ \A i \in 1 .. Len(s) - 1 : i + 1 \in 1 .. Len(s) /\ i + 1 # 1
  OBVIOUS
<1>6. QED
  BY <1>2, <1>3, <1>4, <1>5, Zenon

(* The replica o moves on with a shorter list, and everyone whose row      *)
(* changed is out of the way.                                              *)
LEMMA ListsOnNextRow ==
  ASSUME Types, Lead, Lists, NEW o \in Replicas, replica[o].pc \in {"rows", "mark"}, nextRow(o),
         NEW row, row = Head(replica[o].todo).resp,
         \A q \in Respondents : untracked(q)' <=> untracked(q),
         \A q \in Respondents \ {row} : rows'[q] = rows[q],
         \/ rows'[row] = rows[row] /\ replica[o].pc = "rows"
         \/ rows'[row].status \notin {"absent", "pending"}
  PROVE  Lists'
<1> DEFINE todo == replica[o].todo
<1>1. /\ todo \in Seq(Todo) /\ Len(todo) \in Nat \ {0} /\ Head(todo) = todo[1]
      /\ row \in Respondents /\ row = todo[1].resp
  BY RowInHand, Zenon
<1>2. /\ \A q \in Replicas \ {o} : replica'[q] = replica[q]
      /\ replica'[o].todo = Tail(todo) /\ replica'[o].pc \in {"idle", "rows"}
  BY NextRow, Zenon
<1>3. \A q \in Replicas \ {o} : replica[q].pc = "idle"
  BY RetryAssumption, Zenon DEF Lead
<1> HIDE DEF todo
<1>4. /\ 1 \in DOMAIN todo
      /\ \A i, j \in DOMAIN Tail(todo) : i # j => i + 1 # j + 1
      /\ \A i \in DOMAIN Tail(todo) :
           /\ Tail(todo)[i] = todo[i + 1] /\ i + 1 \in DOMAIN todo /\ i + 1 # 1
           /\ todo[i + 1].resp \in Respondents
  BY <1>1, TailOfTodo, Zenon
<1>5. /\ \A i, j \in DOMAIN todo : i # j => todo[i].resp # todo[j].resp
      /\ \A i \in DOMAIN todo : /\ rows[todo[i].resp].status # "absent"
                                /\ i # 1 => untracked(todo[i].resp)
  BY Zenon DEF Lists, sweeping, ahead, todo
<1>6. ASSUME NEW q \in Replicas, sweeping(q)'
      PROVE  q = o
  BY <1>2, <1>3, <1>6, Zenon DEF sweeping
<1>7. ASSUME NEW i \in DOMAIN Tail(todo), NEW j \in DOMAIN Tail(todo), i # j
      PROVE  Tail(todo)[i].resp # Tail(todo)[j].resp
  <2>1. i + 1 # j + 1
    BY <1>4, <1>7, Zenon
  <2>2. /\ Tail(todo)[i] = todo[i + 1] /\ i + 1 \in DOMAIN todo
        /\ Tail(todo)[j] = todo[j + 1] /\ j + 1 \in DOMAIN todo
    BY <1>4, Zenon
  <2>3. QED
    BY <1>5, <2>1, <2>2, Zenon
<1>8. ASSUME NEW i \in DOMAIN Tail(todo)
      PROVE  \A x : x = Tail(todo)[i].resp => rows'[x].status # "absent" /\ untracked(x)'
  <2> TAKE x
  <2> HAVE x = Tail(todo)[i].resp
  <2>1. x = todo[i + 1].resp /\ x \in Respondents /\ x # row /\ i + 1 \in DOMAIN todo /\ i + 1 # 1
    <3>1. x = todo[i + 1].resp /\ i + 1 \in DOMAIN todo /\ i + 1 # 1 /\ x \in Respondents
      BY <1>4, Zenon
    <3>2. \A k \in DOMAIN todo : k # 1 => todo[k].resp # todo[1].resp
      BY <1>4, <1>5, ZenonT(40)
    <3>3. todo[i + 1].resp # todo[1].resp
      BY <3>1, <3>2, Zenon
    <3>4. QED
      BY <1>1, <3>1, <3>3, ZenonT(40)
  <2>2. untracked(x) /\ rows[x].status # "absent"
    BY <1>5, <2>1, Zenon
  <2>3. QED
    BY <2>1, <2>2, Zenon
<1>9. ASSUME NEW r \in Respondents
      PROVE  /\ rows'[r].status = "absent" => untracked(r)'
             /\ retries(r)' => untracked(r)' \/ marking(r)'
  <2>1. rows[r].status = "absent" => untracked(r)
    BY Zenon DEF Lists
  <2>2. marking(r) => replica[o].pc = "mark" /\ r = row
    BY <1>3, ZenonT(40) DEF marking
  <2>3. retries(r) => untracked(r) \/ marking(r)
    BY Zenon DEF Lists
  <2>4. CASE r = row
    BY <2>1, <2>2, <2>3, <2>4, ZenonT(40) DEF retries
  <2>5. CASE r # row
    BY <2>1, <2>2, <2>3, <2>5, ZenonT(40) DEF retries
  <2>6. QED
    BY <2>4, <2>5, Zenon
<1>10. \A i \in DOMAIN replica'[o].todo :
         /\ rows'[replica'[o].todo[i].resp].status # "absent"
         /\ untracked(replica[o].todo[i].resp)'
  BY <1>2, <1>8, ZenonT(40) DEF untracked, holding, Queued
<1>11. \A i, j \in DOMAIN replica'[o].todo :
         i # j => replica'[o].todo[i].resp # replica'[o].todo[j].resp
  BY <1>2, <1>7, ZenonT(40)
<1>12. QED
  BY <1>6, <1>9, <1>10, <1>11, Zenon DEF Lists

(* Every step that is no fault keeps the leader.                           *)
LEMMA LeadStep ==
  ASSUME Types, Lead, [Next]_vars, faults = 0, faults' = 0
  PROVE  Lead'
<1>1. ASSUME NEW o \in Replicas, Acquire(o)
      PROVE  Lead'
  <2>1. /\ replica'[o].conn = TRUE /\ \A q \in Replicas \ {o} : replica'[q] = replica[q]
    BY <1>1, Zenon DEF Acquire, Types, TypeOK, Replica
  <2>2. lock' = o
    BY <1>1, Zenon DEF Acquire, Lead
  <2>3. \A q \in Replicas \ {o} : ~ replica[q].conn
    BY <1>1, RetryAssumption, Zenon DEF Acquire, Lead
  <2>4. QED
    BY <2>1, <2>2, <2>3, Zenon DEF Lead
<1>2. ASSUME NEW o \in Replicas, ListMatureRetries(o)
      PROVE  Lead'
  BY <1>2, Listing, ZenonT(40) DEF ListMatureRetries, Lead
<1>3. ASSUME NEW o \in Replicas, ListCommits(o)
      PROVE  Lead'
  <2>1. /\ replica[o].pc = "commit" /\ goto(o, "rows") /\ lock' = lock
    BY <1>3, Zenon DEF ListCommits
  <2>2. replica[o].todo # << >>
    BY <2>1, RowInHand, Zenon
  <2>3. "rows" \in PCs
    BY Zenon DEF PCs
  <2>4. /\ \A q \in Replicas \ {o} : replica'[q] = replica[q]
        /\ replica'[o].pc = "rows" /\ replica'[o].conn = replica[o].conn
    BY <2>1, <2>2, <2>3, Goto, Zenon
  <2>5. QED
    BY <2>1, <2>4, Zenon DEF Lead
<1>4. ASSUME NEW o \in Replicas, EnqueueRetry(o)
      PROVE  Lead'
  <2>1. /\ replica[o].pc = "rows" /\ goto(o, "mark") /\ lock' = lock
    BY <1>4, Zenon DEF EnqueueRetry
  <2>2. replica[o].todo # << >>
    BY <2>1, RowInHand, Zenon
  <2>3. "mark" \in PCs
    BY Zenon DEF PCs
  <2>4. /\ \A q \in Replicas \ {o} : replica'[q] = replica[q]
        /\ replica'[o].pc = "mark" /\ replica'[o].conn = replica[o].conn
    BY <2>1, <2>2, <2>3, Goto, ZenonT(40)
  <2>5. QED
    BY <2>1, <2>4, Zenon DEF Lead
<1>5. ASSUME NEW o \in Replicas, MarkExhausted(o) \/ SkipUndecryptable(o) \/ MarkScheduled(o)
      PROVE  Lead'
  BY <1>5, NextRow DEF MarkExhausted, SkipUndecryptable, MarkScheduled, Lead
<1>6. CASE UNCHANGED <<replica, lock>>
  BY <1>6, Zenon DEF Lead
<1>7. ~ Fault
  BY FaultCounted, Zenon DEF Types
<1>8. QED
  BY <1>1, <1>2, <1>3, <1>4, <1>5, <1>6, <1>7, Zenon
     DEF Next, vars, Sweep, SkipRow, Crash, SessionLost,
     Persist, EnqueueNew, EnqueueFails, Withdraw, Pick, Conclude, PutBack, WorkerCrash, Expire, Tick
-----------------------------------------------------------------------------
(* The sweep's own steps.                                                  *)

(* The leader is the only one that sweeps.                                 *)
LEMMA OthersIdle ==
  ASSUME Lead, NEW o \in Replicas, replica[o].pc # "idle" \/ lock = Nil
  PROVE  \A q \in Replicas \ {o} : replica[q].pc = "idle"
BY RetryAssumption, Zenon DEF Lead

(* Nobody's hands change.                                                  *)
LEMMA HandsKept ==
  ASSUME UNCHANGED <<queue, held, creating>>
  PROVE  (Items => Items') /\ \A q : untracked(q)' <=> untracked(q)
BY Zenon DEF Items, untracked, holding, Queued, queue

(* The lock makes the replica that takes it the only one to sweep.         *)
LEMMA OwnAcquire ==
  ASSUME Types, Lead, Items, Lists, NEW o \in Replicas, Acquire(o)
  PROVE  Items' /\ Lists'
<1>1. /\ replica'[o].pc = "list" /\ \A q \in Replicas \ {o} : replica'[q] = replica[q]
      /\ UNCHANGED rows
  BY Zenon DEF Acquire, Types, TypeOK, Replica
<1>2. Items' /\ \A q : untracked(q)' <=> untracked(q)
  BY HandsKept, ZenonT(40) DEF Acquire
<1>3. \A q \in Replicas : replica[q].pc = "idle"
  BY RetryAssumption, Zenon DEF Acquire, Lead
<1>4. \A q \in Replicas : replica'[q].pc \in {"idle", "list"}
  BY <1>1, <1>3, ZenonT(40)
<1>5. \A r : ~ marking(r)
  BY <1>3, Zenon DEF marking
<1>6. QED
  BY <1>1, <1>2, <1>4, <1>5, Zenon DEF Lists, sweeping, retries

(* The rows listed wait for their time, so nobody holds them.              *)
LEMMA OwnList ==
  ASSUME Types, Lead, Items, Lists, NEW o \in Replicas, ListMatureRetries(o)
  PROVE  Items' /\ Lists'
<1>1. Items' /\ (\A q : untracked(q)' <=> untracked(q)) /\ UNCHANGED rows
  BY HandsKept, ZenonT(40) DEF ListMatureRetries
<1>2. \A q \in Replicas : replica[q].pc \in {"idle", "list"}
  BY OthersIdle, ZenonT(40) DEF ListMatureRetries
<1>3. \A r : ~ marking(r)
  BY <1>2, Zenon DEF marking
<1>4. /\ \A q \in Replicas \ {o} : replica'[q] = replica[q]
      /\ replica'[o].pc \in {"idle", "commit"}
      /\ \A i \in DOMAIN replica'[o].todo :
           mature(replica'[o].todo[i].resp) /\ replica'[o].todo[i].resp \in Respondents
      /\ \A i, j \in DOMAIN replica'[o].todo :
           i # j => replica'[o].todo[i].resp # replica'[o].todo[j].resp
  BY Listing, ZenonT(40)
<1>5. \A r \in Respondents : mature(r) => rows[r].status # "absent" /\ untracked(r)'
  BY <1>1, <1>3, ZenonT(40) DEF Lists, mature, retries
<1>6. \A q \in Replicas : sweeping(q)' => q = o
  BY <1>2, <1>4, ZenonT(40) DEF sweeping
<1>7. \A i \in DOMAIN replica'[o].todo :
        rows'[replica'[o].todo[i].resp].status # "absent" /\ untracked(replica[o].todo[i].resp)'
  BY <1>1, <1>4, <1>5, ZenonT(40) DEF untracked, holding, Queued
<1>8. \A r \in Respondents : (rows'[r].status = "absent" => untracked(r)')
                             /\ (retries(r)' => untracked(r)')
  BY <1>1, <1>3, ZenonT(40) DEF Lists, retries
<1>9. QED
  BY <1>1, <1>4, <1>6, <1>7, <1>8, ZenonT(40) DEF Lists

(* The end of the listing changes nobody's respondents.                    *)
LEMMA OwnCommit ==
  ASSUME Types, Lead, Items, Lists, NEW o \in Replicas, ListCommits(o)
  PROVE  Items' /\ Lists'
<1>1. Items' /\ (\A q : untracked(q)' <=> untracked(q)) /\ UNCHANGED rows
  BY HandsKept, ZenonT(40) DEF ListCommits
<1>2. /\ \A q \in Replicas \ {o} : replica[q].pc = "idle"
      /\ replica[o].pc = "commit"
  BY OthersIdle, ZenonT(40) DEF ListCommits
<1>3. \A r : ~ marking(r)
  BY <1>2, ZenonT(40) DEF marking
<1>4. /\ \A q \in Replicas \ {o} : replica'[q] = replica[q]
      /\ replica'[o].todo = replica[o].todo /\ replica'[o].pc = "rows"
  BY Goto, RowInHand, ZenonT(40) DEF ListCommits, PCs
<1>5. \A r \in Respondents : (rows'[r].status = "absent" => untracked(r)')
                             /\ (retries(r)' => untracked(r)')
  BY <1>1, <1>3, Zenon DEF Lists, retries
<1>6. /\ \A i, j \in DOMAIN replica[o].todo :
           i # j => replica[o].todo[i].resp # replica[o].todo[j].resp
      /\ \A i \in DOMAIN replica[o].todo :
           rows[replica[o].todo[i].resp].status # "absent" /\ untracked(replica[o].todo[i].resp)
  BY <1>2, ZenonT(40) DEF Lists, sweeping, ahead
<1>7. \A i \in DOMAIN replica'[o].todo :
        rows'[replica'[o].todo[i].resp].status # "absent" /\ untracked(replica[o].todo[i].resp)'
  BY <1>1, <1>4, <1>6, ZenonT(40) DEF untracked, holding, Queued
<1>8. \A q \in Replicas : sweeping(q)' => q = o
  BY <1>2, <1>4, ZenonT(40) DEF sweeping
<1>9. ASSUME NEW q \in Replicas, sweeping(q)'
      PROVE  /\ \A i, j \in DOMAIN replica'[q].todo :
                  i # j => replica'[q].todo[i].resp # replica'[q].todo[j].resp
             /\ \A i \in DOMAIN replica'[q].todo :
                  /\ rows'[replica'[q].todo[i].resp].status # "absent"
                  /\ ahead(q, i)' => untracked(replica[q].todo[i].resp)'
  <2>1. q = o
    BY <1>8, <1>9, ZenonT(40)
  <2>2. \A i, j \in DOMAIN replica'[o].todo :
          i # j => replica'[o].todo[i].resp # replica'[o].todo[j].resp
    BY <1>4, <1>6, ZenonT(40)
  <2>3. QED
    BY <1>7, <2>1, <2>2, ZenonT(40)
<1>10. \A r \in Respondents : /\ rows'[r].status = "absent" => untracked(r)'
                              /\ retries(r)' => untracked(r)' \/ marking(r)'
  BY <1>5, Zenon
<1>11. Lists'
  BY <1>9, <1>10, ZenonT(40) DEF Lists
<1>12. QED
  BY <1>1, <1>11, ZenonT(40)

(* Marking or skipping a row takes it off the list.                        *)
LEMMA OwnRow ==
  ASSUME Types, Lead, Items, Lists, NEW o \in Replicas,
         MarkExhausted(o) \/ SkipUndecryptable(o) \/ MarkScheduled(o)
  PROVE  Items' /\ Lists'
<1>1. Items' /\ \A q : untracked(q)' <=> untracked(q)
  BY HandsKept, Zenon DEF MarkExhausted, SkipUndecryptable, MarkScheduled
<1> DEFINE row == Head(replica[o].todo).resp
<1>2. replica[o].pc \in {"rows", "mark"} /\ nextRow(o)
  BY Zenon DEF MarkExhausted, SkipUndecryptable, MarkScheduled
<1>3. row \in Respondents
  BY <1>2, RowInHand, Zenon
<1>4. /\ \A q \in Respondents \ {row} : rows'[q] = rows[q]
      /\ \/ rows'[row] = rows[row] /\ replica[o].pc = "rows"
         \/ rows'[row].status \notin {"absent", "pending"}
  <2>1. CASE MarkExhausted(o)
    BY <1>3, <2>1, StatusSet, Zenon DEF MarkExhausted, Types, Statuses
  <2>2. CASE SkipUndecryptable(o)
    BY <2>2, Zenon DEF SkipUndecryptable
  <2>3. CASE MarkScheduled(o)
    BY <1>3, <2>3, StatusSet, Zenon DEF MarkScheduled, Types, Statuses
  <2>4. QED
    BY <2>1, <2>2, <2>3, Zenon
<1> HIDE DEF row
<1>5. row = Head(replica[o].todo).resp
  BY Zenon DEF row
<1>6. Lists'
  BY <1>1, <1>2, <1>4, <1>5, ListsOnNextRow, ZenonT(40)
<1>7. QED
  BY <1>1, <1>6, Zenon

(* The row enqueued was in nobody's hands, and is off the list.            *)
LEMMA OwnEnqueue ==
  ASSUME Types, Lead, Items, Lists, NEW o \in Replicas, EnqueueRetry(o)
  PROVE  Items' /\ Lists'
<1> DEFINE todo == replica[o].todo
           row == Head(replica[o].todo).resp
<1>1. /\ todo \in Seq(Todo) /\ Len(todo) \in Nat \ {0} /\ 1 \in DOMAIN todo
      /\ row \in Respondents /\ row = todo[1].resp /\ replica[o].pc = "rows"
      /\ todo # << >>
  <2>1. replica[o].pc = "rows"
    BY Zenon DEF EnqueueRetry
  <2>2. /\ todo \in Seq(Todo) /\ Len(todo) \in Nat \ {0}
        /\ row \in Respondents /\ row = todo[1].resp
    BY <2>1, RowInHand, Zenon
  <2>3. 1 \in DOMAIN todo /\ todo # << >>
    BY <2>2, EmptySeq
  <2>4. QED
    BY <2>1, <2>2, <2>3, ZenonT(40)
<1>2. /\ \A i, j \in DOMAIN todo : i # j => todo[i].resp # todo[j].resp
      /\ \A i \in DOMAIN todo : rows[todo[i].resp].status # "absent" /\ untracked(todo[i].resp)
  BY <1>1, Zenon DEF Lists, sweeping, ahead
<1>3. untracked(row)
  BY <1>1, <1>2, Zenon
<1>4. Items' /\ \A q : q # row /\ untracked(q) => untracked(q)'
  <2>1. /\ row \notin Queued /\ ~ holding(row) /\ row \notin creating
    BY <1>3, Zenon DEF untracked
  <2>2. PICK p, a, t : EnqueueRespondent(row, p, a, t)
    BY Zenon DEF EnqueueRetry
  <2>3. UNCHANGED <<held, creating>>
    BY Zenon DEF EnqueueRetry
  <2> HIDE DEF row
  <2>4. QED
    BY <2>1, <2>2, <2>3, ItemsEnqueue, ZenonT(40)
<1>5. /\ \A q \in Replicas \ {o} : replica'[q] = replica[q] /\ replica[q].pc = "idle"
      /\ replica'[o].todo = todo /\ replica'[o].pc = "mark" /\ UNCHANGED rows
  BY <1>1, Goto, OthersIdle, Zenon DEF EnqueueRetry, PCs
<1>6. \A r : ~ marking(r)
  BY <1>1, <1>5, Zenon DEF marking
<1>7. ASSUME NEW r \in Respondents
      PROVE  /\ rows'[r].status = "absent" => untracked(r)'
             /\ retries(r)' => untracked(r)' \/ marking(r)'
  <2>1. CASE r = row
    <3>1. marking(r)' /\ rows'[r].status # "absent"
      BY <1>1, <1>2, <1>5, <2>1, ZenonT(40) DEF marking
    <3>2. QED
      BY <3>1, Zenon
  <2>2. CASE r # row
    BY <1>4, <1>5, <1>6, <2>2, Zenon DEF Lists, retries
  <2>3. QED
    BY <2>1, <2>2, Zenon
<1>8. \A q \in Replicas : sweeping(q)' => q = o
  BY <1>5, Zenon DEF sweeping
<1>9. ASSUME NEW i \in DOMAIN replica'[o].todo
      PROVE   /\ rows'[replica'[o].todo[i].resp].status # "absent"
              /\ ahead(o, i)' => untracked(replica[o].todo[i].resp)'
  <2>1. i \in DOMAIN todo /\ replica'[o].todo[i] = todo[i] /\ rows[todo[i].resp].status # "absent"
    BY <1>2, <1>5, Zenon
  <2>2. ahead(o, i)' => i # 1
    BY <1>5, Zenon DEF ahead
  <2>3. i # 1 => todo[i].resp # row /\ untracked(todo[i].resp)
    BY <1>1, <1>2, <2>1, Zenon
  <2>4. \A x : i # 1 /\ x = todo[i].resp => untracked(x)'
    BY <1>4, <2>3, Zenon
  <2>5. i # 1 => untracked(replica[o].todo[i].resp)'
    BY <2>1, <2>4, Zenon DEF untracked, holding, Queued
  <2>6. QED
    BY <1>5, <2>1, <2>2, <2>5, Zenon
<1>10. ASSUME NEW q \in Replicas, sweeping(q)'
       PROVE  /\ \A i, j \in DOMAIN replica'[q].todo :
                   i # j => replica'[q].todo[i].resp # replica'[q].todo[j].resp
              /\ \A i \in DOMAIN replica'[q].todo :
                   /\ rows'[replica'[q].todo[i].resp].status # "absent"
                   /\ ahead(q, i)' => untracked(replica[q].todo[i].resp)'
  <2>1. q = o
    BY <1>8, <1>10, Zenon
  <2>2. \A i, j \in DOMAIN replica'[o].todo :
          i # j => replica'[o].todo[i].resp # replica'[o].todo[j].resp
    BY <1>2, <1>5
  <2>3. QED
    BY <1>9, <2>1, <2>2, ZenonT(40)
<1>11. Lists'
  BY <1>7, <1>10, Zenon DEF Lists
<1>12. QED
  BY <1>4, <1>11, Zenon

-----------------------------------------------------------------------------
(* The generator's and the workers' steps.                                 *)

(* A row that was never written has no time.                               *)
Unborn == \A r \in Respondents : rows[r].status = "absent" => rows[r].due = Nil

(* Every step keeps this: a row gets its time after it was written.        *)
LEMMA UnbornStep ==
  ASSUME Types, Unborn, [Next]_vars
  PROVE  Unborn'
<1>1. ASSUME NEW o \in Replicas, MarkExhausted(o) \/ MarkScheduled(o)
      PROVE  Unborn'
  <2>1. Head(replica[o].todo).resp \in Respondents
    BY <1>1, RowInHand, ZenonT(40) DEF MarkExhausted, MarkScheduled
  <2>2. setStatus(Head(replica[o].todo).resp, "exhausted")
        \/ setStatus(Head(replica[o].todo).resp, "dialing")
    BY <1>1, ZenonT(40) DEF MarkExhausted, MarkScheduled
  <2>3. QED
    BY <2>1, <2>2, StatusSet DEF Unborn, Types, Statuses
<1>2. ASSUME NEW r \in Respondents, Persist(r)
      PROVE  Unborn'
  BY <1>2, ZenonT(40) DEF Persist, Unborn, Types, TypeOK, Row
<1>3. ASSUME NEW item \in held, Conclude(item)
      PROVE  Unborn'
  BY <1>3, Concluded, ZenonT(40) DEF Types, Unborn
<1>4. CASE UNCHANGED rows
  BY <1>4, Zenon DEF Unborn
<1>5. QED
  BY <1>1, <1>2, <1>3, <1>4, ZenonT(40) DEF Next, vars, Sweep, SkipRow, Crash, SessionLost, Acquire,
     ListMatureRetries, ListCommits, SkipUndecryptable, EnqueueRetry, EnqueueNew, EnqueueFails,
     Withdraw, Pick, PutBack, WorkerCrash, Expire, Tick

(* A row that is written is in nobody's hands but the generator's.         *)
LEMMA OwnPersist ==
  ASSUME Types, Unborn, Items, Lists, NEW r \in Respondents, Persist(r)
  PROVE  Items' /\ Lists'
<1>1. /\ \A q \in Respondents \ {r} : rows'[q] = rows[q]
      /\ rows'[r].status = "pending" /\ rows'[r].due = rows[r].due
  BY ZenonT(40) DEF Persist, Types, TypeOK, Row
<1>2. untracked(r) /\ rows[r].status = "absent"
  BY Zenon DEF Persist, Lists
<1>3. UNCHANGED <<zset, dedup, held, replica>> /\ creating' = creating \cup {r}
  BY ZenonT(40) DEF Persist, queue
<1>4. Items'
  BY <1>2, <1>3, ZenonT(40) DEF Items, untracked, holding, Queued
<1>5. \A q : q # r => (untracked(q)' <=> untracked(q))
  BY <1>3, ZenonT(40) DEF untracked, holding, Queued
<1>6. rows[r].due = Nil
  BY <1>2, Zenon DEF Unborn
<1>7. Lists'
  BY <1>1, <1>2, <1>3, <1>5, <1>6, ListsKept, ZenonT(40) DEF retries, Lists
<1>8. QED
  BY <1>4, <1>7, ZenonT(40)

(* The generator hands its respondent to the queue.                        *)
LEMMA OwnNew ==
  ASSUME Types, Items, Lists, NEW r \in Respondents, EnqueueNew(r)
  PROVE  Items' /\ Lists'
<1>1. r \in creating /\ r \notin Queued /\ ~ holding(r) /\ ~ untracked(r)
  BY Zenon DEF EnqueueNew, Items, untracked
<1>2. UNCHANGED <<rows, held, replica>> /\ creating' = creating \ {r}
  BY ZenonT(40) DEF EnqueueNew
<1>3. Items' /\ \A q : q # r /\ untracked(q) => untracked(q)'
  BY <1>1, <1>2, ItemsEnqueue, ZenonT(40) DEF EnqueueNew
<1>4. Lists'
  BY <1>1, <1>2, <1>3, ListsKept, ZenonT(40) DEF Lists, retries
<1>5. QED
  BY <1>3, <1>4, ZenonT(40)

(* A respondent who is withdrawn leaves the queue.                         *)
LEMMA OwnWithdraw ==
  ASSUME Types, Items, Lists, NEW r \in Respondents, Withdraw(r)
  PROVE  Items' /\ Lists'
<1>1. PICK item \in zset : item.resp = r /\ zset' = zset \ {item} /\ dedup' = dedup \ {r}
  BY ZenonT(40) DEF Withdraw, Remove, Queued
<1>2. UNCHANGED <<rows, held, replica, creating>>
  BY ZenonT(40) DEF Withdraw
<1>3. Items'
  BY <1>1, <1>2 DEF Items, Queued, holding
<1>4. \A q : untracked(q) => untracked(q)'
  BY <1>1, <1>2, ZenonT(40) DEF untracked, holding, Queued
<1>5. Lists'
  BY <1>2, <1>4, ListsKept, ZenonT(40) DEF Lists, retries
<1>6. QED
  BY <1>3, <1>5, ZenonT(40)

(* A worker that picks an item holds it, and the queue no longer does.     *)
LEMMA OwnPick ==
  ASSUME Types, Items, Lists, NEW item \in zset, Pick(item)
  PROVE  Items' /\ Lists'
<1>1. /\ zset' = zset \ {item} /\ dedup' = dedup \ {item.resp} /\ held' = held \cup {item}
      /\ UNCHANGED <<rows, replica, creating>>
  BY Zenon DEF Pick, PickNext
<1>2. Items'
  BY <1>1 DEF Items, Queued, holding
<1>3. \A q : untracked(q) => untracked(q)'
  BY <1>1, ZenonT(40) DEF untracked, holding, Queued
<1>4. Lists'
  BY <1>1, <1>3, ListsKept, ZenonT(40) DEF Lists, retries
<1>5. QED
  BY <1>2, <1>4, Zenon

(* A call that is over leaves the respondent to the retry or the end.      *)
LEMMA OwnConclude ==
  ASSUME Types, Items, Lists, NEW item \in held, Conclude(item)
  PROVE  Items' /\ Lists'
<1>1. /\ held' = held \ {item} /\ UNCHANGED <<zset, dedup, replica, creating>>
  BY Zenon DEF Conclude, queue
<1>2. Items'
  BY <1>1, Zenon DEF Items, Queued, holding
<1>3. \A q : untracked(q) => untracked(q)'
  BY <1>1, Zenon DEF untracked, holding, Queued
<1>4. \A q : q = item.resp => untracked(q)'
  BY <1>1, Zenon DEF untracked, holding, Queued, Items
<1>5. /\ \A q \in Respondents \ {item.resp} : rows'[q] = rows[q]
      /\ rows'[item.resp].status # "absent"
  BY Concluded, Zenon DEF Types
<1>6. Lists'
  BY <1>1, <1>3, <1>4, <1>5, ListsKept, ZenonT(40) DEF Lists, retries
<1>7. QED
  BY <1>2, <1>6, Zenon

(* An item put back is queued again and no longer held.                    *)
LEMMA OwnPutBack ==
  ASSUME Types, Items, Lists, NEW item \in held, PutBack(item)
  PROVE  Items' /\ Lists'
<1> DEFINE back == [ item EXCEPT !.priority = capped(@ + 1), !.at = now + RetryDelay ]
<1>1. now + RetryDelay \in Nat /\ item \in Item
  <2>1. now \in Nat /\ held \subseteq Item
    BY DEF Types, TypeOK
  <2>2. QED
    BY <2>1, RetryAssumption
<1>2. back.resp = item.resp
  BY <1>1, ItemTypes, Zenon
<1>3. /\ zset' = zset \cup {back} /\ dedup' = dedup \cup {item.resp} /\ held' = held \ {item}
      /\ UNCHANGED <<rows, replica, creating>>
  BY Zenon DEF PutBack, Requeue
<1> HIDE DEF back
<1>4. \A x \in zset \cup held : x.resp = item.resp => x = item
  BY Zenon DEF Items
<1>5. item \notin zset
  BY Zenon DEF Items
<1>6. Items'
  <2>1. \A x \in zset \cup (held \ {item}) : x.resp # item.resp
    BY <1>4, <1>5, Zenon
  <2>2. back \notin held \ {item}
    BY <1>2, <2>1, Zenon
  <2>3. QED
    BY <1>2, <1>3, <2>1, <2>2 DEF Items, Queued, holding
<1>7. \A q : untracked(q) => untracked(q)'
  BY <1>2, <1>3, Zenon DEF untracked, holding, Queued
<1>8. Lists'
  BY <1>3, <1>7, ListsKept, Zenon DEF Lists, retries
<1>9. QED
  BY <1>6, <1>8, Zenon

(* Every step keeps the division of hands.                                 *)
LEMMA OwnStep ==
  ASSUME Types, Unborn, Own, [Next]_vars
  PROVE  Own'
<1> SUFFICES ASSUME faults' = 0
             PROVE  Lead' /\ Items' /\ Lists'
  BY Zenon DEF Own
<1>1. ~ Fault
  BY FaultCounted, ZenonT(40) DEF Types
<1>2. faults = 0 /\ Lead /\ Items /\ Lists
  <2>1. faults = 0
    BY <1>1, ZenonT(40)
       DEF Next, vars, Sweep, SkipRow, Crash, SessionLost, Acquire, ListMatureRetries,
       ListCommits, MarkExhausted, SkipUndecryptable, EnqueueRetry, MarkScheduled, Persist,
       EnqueueNew, EnqueueFails, Withdraw, Pick, Conclude, PutBack, WorkerCrash, Expire, Tick
  <2>2. QED
    BY <2>1, ZenonT(40) DEF Own
<1>3. Lead'
  BY <1>2, LeadStep, ZenonT(40)
<1>4. CASE Tick \/ UNCHANGED vars
  <2>1. UNCHANGED <<queue, held, creating, rows, replica>>
    BY <1>4, ZenonT(40) DEF Tick, vars
  <2>2. Lists'
    BY <1>2, <2>1, HandsKept, ListsKept, ZenonT(40) DEF Lists, retries
  <2>3. QED
    BY <1>2, <1>3, <2>1, <2>2, HandsKept, ZenonT(40)
<1>5. QED
  BY <1>1, <1>2, <1>3, <1>4, OwnAcquire, OwnList, OwnCommit, OwnRow, OwnEnqueue, OwnPersist,
     OwnNew, OwnWithdraw, OwnPick, OwnConclude, OwnPutBack, ZenonT(40)
     DEF Next, Sweep, SkipRow, Crash, SessionLost, EnqueueFails, WorkerCrash, Expire

-----------------------------------------------------------------------------
IInv == Types /\ DedupIsBacked /\ NoSilentStrand /\ Unborn /\ Own

(* One item of a respondent at most, in the queue or in hand, is what the  *)
(* count of NoDoubleDial says.                                             *)
LEMMA HandsAreOne ==
  ASSUME Items, NEW r
  PROVE  Cardinality({ item \in zset : item.resp = r })
           + Cardinality({ item \in held : item.resp = r }) <= 1
<1> DEFINE Z == { item \in zset : item.resp = r }
           H == { item \in held : item.resp = r }
<1>1. \/ Z = {} /\ H = {}
      \/ Z = {} /\ \E x : H = {x}
      \/ H = {} /\ \E x : Z = {x}
  <2>1. \A x, y \in Z \cup H : x = y
    BY Zenon DEF Items
  <2>2. Z \cap H = {}
    BY Zenon DEF Items
  <2> HIDE DEF Z, H
  <2>3. QED
    BY <2>1, <2>2
<1> HIDE DEF Z, H
<1>2. Cardinality({}) = 0 /\ \A x : Cardinality({x}) = 1
  BY FS_EmptySet, FS_Singleton, ZenonT(40)
<1>3. Cardinality(Z) + Cardinality(H) <= 1
  <2>1. /\ Z = {} => Cardinality(Z) = 0
        /\ H = {} => Cardinality(H) = 0
        /\ (\E x : Z = {x}) => Cardinality(Z) = 1
        /\ (\E x : H = {x}) => Cardinality(H) = 1
    BY <1>2, Zenon
  <2>2. \/ Cardinality(Z) = 0 /\ Cardinality(H) \in {0, 1}
        \/ Cardinality(H) = 0 /\ Cardinality(Z) = 1
    BY <1>1, <2>1, ZenonT(40)
  <2>3. QED
    BY <2>2
<1>4. QED
  BY <1>3, ZenonT(40) DEF Z, H

(* The inductive invariant gives the promises of the retry queue.          *)
LEMMA InvImplies ==
  ASSUME IInv
  PROVE  RespondentsAreKept
<1>1. OneLeader
  BY Zenon DEF IInv, Own, Lead, OneLeader
<1>2. NoDoubleDial
  BY HandsAreOne, ZenonT(40) DEF IInv, Own, NoDoubleDial
<1>3. QED
  BY <1>1, <1>2, ZenonT(40) DEF IInv, Types, RespondentsAreKept

(* The invariant holds at first.                                           *)
LEMMA InvInit ==
  ASSUME Init
  PROVE  IInv
<1>1. Types
  <2>1. IdleReplica \in Replica /\ IdleReplica.pc = "idle"
    BY EmptySeq, ZenonT(40) DEF IdleReplica, Replica, PCs
  <2>2. QED
    <3>1. rows \in [Respondents -> Row]
      BY RetryAssumption, Zenon DEF Init, Row, Statuses
    <3>2. replica \in [Replicas -> Replica] /\ \A o \in Replicas : replica[o].pc = "idle"
      BY <2>1, Zenon DEF Init
    <3>3. Busy
      BY <3>2, Zenon DEF Busy
    <3>4. QED
      BY <3>1, <3>2, <3>3, RetryAssumption, SMTT(30) DEF Init, QueueInit, Types, TypeOK
<1>2. DedupIsBacked /\ NoSilentStrand /\ Unborn
  BY ZenonT(40) DEF Init, QueueInit, DedupIsBacked, NoSilentStrand, Unborn
<1>3. Own
  BY Zenon DEF Init, QueueInit, Own, Lead, Items, Lists, IdleReplica, Queued, untracked, holding,
     retries, sweeping
<1>4. QED
  BY <1>1, <1>2, <1>3, ZenonT(40) DEF IInv

(* IInv is an invariant of the retry system, for any respondents, replicas,*)
(* workers, clock and number of faults.                                    *)
THEOREM RetryInvariance == Spec => []IInv
<1>1. Init => IInv
  BY InvInit, Zenon
<1>2. IInv /\ [Next]_vars => IInv'
  <2> SUFFICES ASSUME IInv, [Next]_vars
               PROVE  IInv'
    BY Zenon
  <2>1. Types'
    BY TypeStep, Zenon DEF IInv
  <2>2. DedupIsBacked'
    BY DedupStep, Zenon DEF IInv, Types
  <2>3. NoSilentStrand'
    BY StrandStep, Zenon DEF IInv
  <2>4. Unborn'
    BY UnbornStep, Zenon DEF IInv
  <2>5. Own'
    BY OwnStep, Zenon DEF IInv
  <2>6. QED
    BY <2>1, <2>2, <2>3, <2>4, <2>5, ZenonT(40) DEF IInv
<1>3. QED
  BY <1>1, <1>2, PTL DEF Spec

(* The queue, the respondents table, the sweep and the workers agree: no   *)
(* stale dedup entry, one leader and no double call while nothing fails,   *)
(* and nobody who waits for a call is forgotten but by a fault.            *)
THEOREM RetriesAreKept == Spec => []RespondentsAreKept
<1>1. IInv => RespondentsAreKept
  BY InvImplies, Zenon
<1>2. QED
  BY <1>1, RetryInvariance, PTL
=============================================================================
