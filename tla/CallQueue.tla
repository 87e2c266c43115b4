------------------------------ MODULE CallQueue ------------------------------
(***************************************************************************)
(* The call queue of one (tenant, project): internal/dialer/queue.         *)
(* Every operation is one Lua script over two Redis keys, so one action:   *)
(* zset, a sorted set whose members are encoded items, and dedup, the set  *)
(* of respondents that enqueue.lua refuses to add again.                   *)
(*                                                                         *)
(* A member is the item itself: encodeItem writes every field in a fixed   *)
(* order, so equal items are equal members and the score is a function of  *)
(* the item.  Phone and region are carried along and left out.             *)
(***************************************************************************)
EXTENDS Naturals

CONSTANTS Respondents,
          MaxPriority,   \* 9
          Band           \* milliseconds between priorities, 1e9

ASSUME QueueAssumption == MaxPriority \in Nat /\ Band \in Nat \ {0}

VARIABLES zset, dedup

queue == <<zset, dedup>>

Item == [ resp : Respondents, priority : 0 .. MaxPriority, at : Nat, attempt : Nat ]

score(item) == item.priority * Band + item.at

(* Fault: no cap.                                                          *)
FaultUncapped(priority) == priority

capped(priority) == IF priority > MaxPriority THEN MaxPriority ELSE priority

Queued == { item.resp : item \in zset }

QueueInit == zset = {} /\ dedup = {}

(* Fault: the respondent goes to the dedup set only.                       *)
FaultDedupOnly(r, priority, attempt, now) ==
  /\ dedup' = dedup \cup {r}
  /\ UNCHANGED zset

(* enqueue.lua: a respondent in dedup is left alone.                       *)
EnqueueRespondent(r, priority, attempt, now) ==
  IF r \in dedup
  THEN UNCHANGED queue
  ELSE /\ dedup' = dedup \cup {r}
       /\ zset' = zset \cup {[ resp |-> r, priority |-> capped(priority), at |-> now,
                               attempt |-> attempt ]}

(* Fault: the popped respondent stays in the dedup set.                    *)
FaultPickKeepsDedup(item) ==
  /\ item \in zset
  /\ \A other \in zset : score(item) <= score(other)
  /\ zset' = zset \ {item}
  /\ UNCHANGED dedup

(* pop_next.lua: a member of least score, whatever the time is.            *)
PickNext(item) ==
  /\ item \in zset
  /\ \A other \in zset : score(item) <= score(other)
  /\ zset' = zset \ {item}
  /\ dedup' = dedup \ {item.resp}

(* requeue.lua: the dedup set is not consulted.                            *)
Requeue(item, delay, now) ==
  /\ zset' = zset \cup {[ item EXCEPT !.priority = capped(@ + 1), !.at = now + delay ]}
  /\ dedup' = dedup \cup {item.resp}

(* remove.lua: the first member of the respondent in score order.          *)
Remove(r) ==
  LET mine == { item \in zset : item.resp = r } IN
  /\ dedup' = dedup \ {r}
  /\ IF mine = {} THEN UNCHANGED zset
     ELSE \E item \in mine :
            /\ \A other \in mine : score(item) <= score(other)
            /\ zset' = zset \ {item}

(* Both keys carry the same time-to-live, set by the same scripts.         *)
QueueExpires ==
  /\ dedup # {}
  /\ zset' = {}
  /\ dedup' = {}

=============================================================================
