-------------------------- MODULE LoginGuard_proofs --------------------------
(***************************************************************************)
(* Guesses at a password are bounded (LoginGuard), for any number of       *)
(* logins at once that fail or die at any step.                            *)
(***************************************************************************)
EXTENDS LoginGuard, FiniteSetTheorems, TLAPS

-----------------------------------------------------------------------------
(* Logging in.                                                             *)
(*                                                                         *)
(* The two bounds are about requests that have been let through and have   *)
(* not counted yet, so the invariant counts requests by where they are:    *)
(* past the lock check, about to count a failure, about to set the lock,   *)
(* between ZCARD and ZADD, and those of them that will be admitted.        *)

isPast(r) == r.pc \in {"account", "accountAdd", "verify"}
isCounting(r) == r.pc = "incr"
isLocking(r) == r.pc = "lock" \/ (r.pc = "expire" /\ afterIncr(1) = "lock")
isAdding(k, r) == r.pc = IF k = "ip" THEN "ip" ELSE "accountAdd"
isAdmitted(k, r) == isAdding(k, r) /\ underLimit(k, r.seen)

pasts(l) == {p \in Logins : isPast(l[p])}
countings(l) == {p \in Logins : isCounting(l[p])}
lockings(l) == {p \in Logins : isLocking(l[p])}
addings(l, k) == {p \in Logins : isAdding(k, l[p])}
admitteds(l, k) == {p \in Logins : isAdmitted(k, l[p])}

size == Cardinality(Logins)

(* Whether a request counts, as a number.                                  *)
member(p, X) == IF p \in X THEN 1 ELSE 0
pastOne(r) == IF isPast(r) THEN 1 ELSE 0
countingOne(r) == IF isCounting(r) THEN 1 ELSE 0
lockingOne(r) == IF isLocking(r) THEN 1 ELSE 0
addingOne(k, r) == IF isAdding(k, r) THEN 1 ELSE 0
admittedOne(k, r) == IF isAdmitted(k, r) THEN 1 ELSE 0

LoginTypes ==
  /\ account \in Account /\ fails \in 0..MaxFails /\ {failsTtl, until, partial} \subseteq BOOLEAN
  /\ hits \in [Keys -> Nat] /\ allowed \in [Keys -> Nat] /\ login \in [Logins -> Login]
  /\ guesses \in Nat /\ lapses \in 0..MaxLapses

(* Whoever has counted the hits will add one.                              *)
Rate ==
  \A k \in Keys :
    /\ hits[k] + Cardinality(addings(login, k)) <= MaxHits + size
    /\ allowed[k] <= hits[k]
    /\ allowed[k] + Cardinality(admitteds(login, k)) <= limit(k) + size - 1

(* A wrong guess is on the counter, or about to be, or was lost to a       *)
(* lapse.  While the account is open the counter has not gone past the     *)
(* threshold unseen; once it is locked only those past the check guess on. *)
Guessed ==
  /\ guesses <= fails + Cardinality(countings(login)) + lapses
  /\ ~until => guesses <= Threshold - 1 + Cardinality(countings(login))
                            + Cardinality(lockings(login)) + lapses
  /\ until => guesses + Cardinality(pasts(login)) <= Threshold + size - 1 + lapses

LoginInv == LoginTypes /\ Rate /\ Guessed

-----------------------------------------------------------------------------
(* The limits are numbers.                                                 *)
LEMMA Limits ==
  /\ PerIP \in Nat /\ PerAccount \in Nat /\ MaxHits \in Nat /\ MaxFails \in Nat /\ MaxLapses \in Nat
  /\ Threshold \in Nat /\ Threshold > 0
BY LoginAssumption

(* A set of requests when one of them has moved.                           *)
LEMMA Moved ==
  ASSUME NEW X \in SUBSET Logins, NEW Y \in SUBSET Logins, NEW p \in Logins,
         \A q \in Logins \ {p} : q \in X <=> q \in Y
  PROVE  /\ Cardinality(X) \in Nat /\ Cardinality(Y) \in Nat
         /\ Cardinality(Y) = Cardinality(X) + member(p, Y) - member(p, X)
<1>1. IsFiniteSet(X) /\ IsFiniteSet(Y)
  BY LoginAssumption, FS_Subset, Zenon
<1>2. Cardinality(X) \in Nat /\ Cardinality(Y) \in Nat
  BY <1>1, FS_CardinalityType, Zenon
<1>3. CASE p \in X /\ p \in Y
  <2>1. X = Y
    BY <1>3
  <2>2. QED
    BY <1>2, <1>3, <2>1 DEF member
<1>4. CASE p \notin X /\ p \notin Y
  <2>1. X = Y
    BY <1>4
  <2>2. QED
    BY <1>2, <1>4, <2>1 DEF member
<1>5. CASE p \notin X /\ p \in Y
  <2>1. Y = X \cup {p}
    BY <1>5, Zenon
  <2>2. Cardinality(Y) = Cardinality(X) + 1
    BY <1>1, <1>5, <2>1, FS_AddElement, Zenon
  <2>3. QED
    BY <1>2, <1>5, <2>2 DEF member
<1>6. CASE p \in X /\ p \notin Y
  <2>1. X = Y \cup {p}
    BY <1>6, Zenon
  <2>2. Cardinality(X) = Cardinality(Y) + 1
    BY <1>1, <1>6, <2>1, FS_AddElement, Zenon
  <2>3. QED
    BY <1>2, <1>6, <2>2 DEF member
<1>7. QED
  BY <1>3, <1>4, <1>5, <1>6, Zenon

(* The counts after a step of p.                                           *)
LEMMA Placed ==
  ASSUME NEW l \in [Logins -> Login], NEW p \in Logins, NEW r \in Login,
         NEW m, m = [l EXCEPT ![p] = r]
  PROVE  /\ Cardinality(pasts(l)) \in Nat /\ Cardinality(countings(l)) \in Nat
         /\ Cardinality(lockings(l)) \in Nat
         /\ Cardinality(pasts(m)) = Cardinality(pasts(l)) + pastOne(r) - pastOne(l[p])
         /\ Cardinality(countings(m)) =
              Cardinality(countings(l)) + countingOne(r) - countingOne(l[p])
         /\ Cardinality(lockings(m)) =
              Cardinality(lockings(l)) + lockingOne(r) - lockingOne(l[p])
<1>1. m[p] = r /\ \A q \in Logins \ {p} : m[q] = l[q]
  BY Zenon
<1>2. /\ p \in pasts(m) <=> isPast(r)
      /\ p \in pasts(l) <=> isPast(l[p])
      /\ \A q \in Logins \ {p} : q \in pasts(l) <=> q \in pasts(m)
  BY <1>1, Zenon DEF pasts
<1>3. /\ p \in countings(m) <=> isCounting(r)
      /\ p \in countings(l) <=> isCounting(l[p])
      /\ \A q \in Logins \ {p} : q \in countings(l) <=> q \in countings(m)
  BY <1>1, Zenon DEF countings
<1>4. /\ p \in lockings(m) <=> isLocking(r)
      /\ p \in lockings(l) <=> isLocking(l[p])
      /\ \A q \in Logins \ {p} : q \in lockings(l) <=> q \in lockings(m)
  BY <1>1, Zenon DEF lockings
<1>5. /\ pasts(l) \subseteq Logins /\ pasts(m) \subseteq Logins
      /\ countings(l) \subseteq Logins /\ countings(m) \subseteq Logins
      /\ lockings(l) \subseteq Logins /\ lockings(m) \subseteq Logins
  BY Zenon DEF pasts, countings, lockings
<1>6. /\ Cardinality(pasts(l)) \in Nat
      /\ Cardinality(pasts(m)) = Cardinality(pasts(l)) + member(p, pasts(m)) - member(p, pasts(l))
  BY <1>2, <1>5, Moved, Zenon
<1>7. /\ Cardinality(countings(l)) \in Nat
      /\ Cardinality(countings(m)) =
           Cardinality(countings(l)) + member(p, countings(m)) - member(p, countings(l))
  BY <1>3, <1>5, Moved, Zenon
<1>8. /\ Cardinality(lockings(l)) \in Nat
      /\ Cardinality(lockings(m)) =
           Cardinality(lockings(l)) + member(p, lockings(m)) - member(p, lockings(l))
  BY <1>4, <1>5, Moved, Zenon
<1>9. QED
  BY <1>2, <1>3, <1>4, <1>6, <1>7, <1>8, Zenon DEF member, pastOne, countingOne, lockingOne

(* The same for those between ZCARD and ZADD.                              *)
LEMMA Windows ==
  ASSUME NEW l \in [Logins -> Login], NEW p \in Logins, NEW r \in Login,
         NEW m, m = [l EXCEPT ![p] = r], NEW k \in Keys
  PROVE  /\ Cardinality(addings(l, k)) \in Nat /\ Cardinality(admitteds(l, k)) \in Nat
         /\ Cardinality(addings(m, k)) =
              Cardinality(addings(l, k)) + addingOne(k, r) - addingOne(k, l[p])
         /\ Cardinality(admitteds(m, k)) =
              Cardinality(admitteds(l, k)) + admittedOne(k, r) - admittedOne(k, l[p])
<1>1. m[p] = r /\ \A q \in Logins \ {p} : m[q] = l[q]
  BY Zenon
<1>2. /\ p \in addings(m, k) <=> isAdding(k, r)
      /\ p \in addings(l, k) <=> isAdding(k, l[p])
      /\ \A q \in Logins \ {p} : q \in addings(l, k) <=> q \in addings(m, k)
  BY <1>1, Zenon DEF addings
<1>3. /\ p \in admitteds(m, k) <=> isAdmitted(k, r)
      /\ p \in admitteds(l, k) <=> isAdmitted(k, l[p])
      /\ \A q \in Logins \ {p} : q \in admitteds(l, k) <=> q \in admitteds(m, k)
  BY <1>1, Zenon DEF admitteds
<1>4. /\ addings(l, k) \subseteq Logins /\ addings(m, k) \subseteq Logins
      /\ admitteds(l, k) \subseteq Logins /\ admitteds(m, k) \subseteq Logins
  BY Zenon DEF addings, admitteds
<1>5. /\ Cardinality(addings(l, k)) \in Nat
      /\ Cardinality(addings(m, k)) =
           Cardinality(addings(l, k)) + member(p, addings(m, k)) - member(p, addings(l, k))
  BY <1>2, <1>4, Moved, Zenon
<1>6. /\ Cardinality(admitteds(l, k)) \in Nat
      /\ Cardinality(admitteds(m, k)) =
           Cardinality(admitteds(l, k)) + member(p, admitteds(m, k)) - member(p, admitteds(l, k))
  BY <1>3, <1>4, Moved, Zenon
<1>7. QED
  BY <1>2, <1>3, <1>5, <1>6, Zenon DEF member, addingOne, admittedOne

(* There are no more of them than requests, and no request is counted      *)
(* twice.                                                                  *)
LEMMA Within ==
  ASSUME NEW l \in [Logins -> Login]
  PROVE  /\ size \in Nat \ {0}
         /\ Cardinality(pasts(l)) + Cardinality(countings(l)) + Cardinality(lockings(l)) <= size
         /\ \A k \in Keys : /\ Cardinality(addings(l, k)) <= size
                            /\ Cardinality(admitteds(l, k)) <= size
<1>1. \A X \in SUBSET Logins :
        IsFiniteSet(X) /\ Cardinality(X) \in Nat /\ Cardinality(X) <= size
  BY LoginAssumption, FS_Subset, FS_CardinalityType, Zenon DEF size
<1>2. size \in Nat /\ size # 0
  BY LoginAssumption, FS_CardinalityType, FS_EmptySet, Zenon DEF size
<1> DEFINE A == pasts(l)
           B == countings(l)
           C == lockings(l)
<1>3. /\ A \in SUBSET Logins /\ B \in SUBSET Logins /\ C \in SUBSET Logins
      /\ A \cap B = {} /\ (A \cup B) \cap C = {}
  BY Zenon DEF pasts, countings, lockings, isPast, isCounting, isLocking
<1> HIDE DEF A, B, C
<1>4. Cardinality(A \cup B) = Cardinality(A) + Cardinality(B)
  <2>1. IsFiniteSet(A) /\ IsFiniteSet(B) /\ Cardinality(A) \in Nat /\ Cardinality(B) \in Nat
    BY <1>1, <1>3, Zenon
  <2>2. Cardinality(A \cup B) = Cardinality(A) + Cardinality(B) - Cardinality(A \cap B)
    BY <2>1, FS_Union, Zenon
  <2>3. Cardinality(A \cap B) = 0
    BY <1>3, FS_EmptySet, Zenon
  <2>4. QED
    BY <2>1, <2>2, <2>3
<1>5. Cardinality((A \cup B) \cup C) = Cardinality(A \cup B) + Cardinality(C)
  <2>1. /\ IsFiniteSet(A \cup B) /\ IsFiniteSet(C)
        /\ Cardinality(A \cup B) \in Nat /\ Cardinality(C) \in Nat
    BY <1>1, <1>3, Zenon
  <2>2. Cardinality((A \cup B) \cup C) =
          Cardinality(A \cup B) + Cardinality(C) - Cardinality((A \cup B) \cap C)
    BY <2>1, FS_Union, Zenon
  <2>3. Cardinality((A \cup B) \cap C) = 0
    BY <1>3, FS_EmptySet, Zenon
  <2>4. QED
    BY <2>1, <2>2, <2>3
<1>6. Cardinality((A \cup B) \cup C) <= size
  BY <1>1, <1>3, Zenon
<1>7. Cardinality(A) + Cardinality(B) + Cardinality(C) <= size
  BY <1>4, <1>5, <1>6, Zenon
<1>8. \A k \in Keys : addings(l, k) \in SUBSET Logins /\ admitteds(l, k) \in SUBSET Logins
  BY Zenon DEF addings, admitteds
<1>9. QED
  BY <1>1, <1>2, <1>7, <1>8, Zenon DEF A, B, C

(* The invariant holds at first.                                           *)
LEMMA NobodyLogsIn == LoginInit => LoginInv
<1> SUFFICES ASSUME LoginInit PROVE LoginInv
  BY Zenon
<1>1. login = [p \in Logins |-> Idle] /\ Idle \in Login
  BY Limits DEF LoginInit, Idle, Login
<1>2. login \in [Logins -> Login]
  BY <1>1, Zenon
<1>3. /\ countings(login) = {} /\ lockings(login) = {} /\ pasts(login) = {}
      /\ \A k \in Keys : addings(login, k) = {} /\ admitteds(login, k) = {}
  BY <1>1, Zenon DEF countings, lockings, pasts, addings, admitteds, isCounting, isLocking, isPast,
              isAdding, isAdmitted, Idle
<1>4. size \in Nat \ {0}
  BY <1>2, Within, Zenon
<1>5. LoginTypes
  <2>1. account \in Account /\ failsTtl = FALSE /\ until = FALSE /\ partial = FALSE
    BY Zenon DEF LoginInit
  <2>2. {failsTtl, until, partial} \subseteq BOOLEAN
    BY <2>1, Zenon
  <2>3. fails \in 0..MaxFails /\ lapses \in 0..MaxLapses /\ guesses \in Nat
    BY Limits DEF LoginInit
  <2>4. hits \in [Keys -> Nat] /\ allowed \in [Keys -> Nat]
    BY Zenon DEF LoginInit
  <2>5. QED
    BY <1>2, <2>1, <2>2, <2>3, <2>4, Zenon DEF LoginTypes
<1>6. Rate
  <2> SUFFICES ASSUME NEW k \in Keys
               PROVE  /\ hits[k] + Cardinality(addings(login, k)) <= MaxHits + size
                      /\ allowed[k] <= hits[k]
                      /\ allowed[k] + Cardinality(admitteds(login, k)) <= limit(k) + size - 1
    BY Zenon DEF Rate
  <2>1. hits[k] = 0 /\ allowed[k] = 0 /\ limit(k) \in Nat
    BY Limits, Zenon DEF LoginInit, limit
  <2>2. Cardinality(addings(login, k)) = 0 /\ Cardinality(admitteds(login, k)) = 0
    BY <1>3, FS_EmptySet, Zenon
  <2>3. QED
    BY <1>4, <2>1, <2>2, Limits
<1>7. Guessed
  <2>1. guesses = 0 /\ fails = 0 /\ lapses = 0 /\ until = FALSE
    BY Zenon DEF LoginInit
  <2>2. Cardinality(countings(login)) = 0 /\ Cardinality(lockings(login)) = 0
    BY <1>3, FS_EmptySet, Zenon
  <2>3. QED
    BY <2>1, <2>2, Limits DEF Guessed
<1>8. QED
  BY <1>5, <1>6, <1>7, Zenon DEF LoginInv

(* A request that does not move between ZCARD and ZADD.                    *)
LEMMA RateStays ==
  ASSUME LoginTypes, Rate, NEW p \in Logins, NEW r \in Login,
         login' = [login EXCEPT ![p] = r], UNCHANGED <<hits, allowed>>,
         \A k \in Keys : ~isAdding(k, r)
  PROVE  Rate'
<1> SUFFICES ASSUME NEW k \in Keys
             PROVE  /\ hits[k] + Cardinality(addings(login', k)) <= MaxHits + size
                    /\ allowed[k] <= hits[k]
                    /\ allowed[k] + Cardinality(admitteds(login', k)) <= limit(k) + size - 1
  BY Zenon DEF Rate, addings, admitteds, limit, size
<1>1. login \in [Logins -> Login] /\ hits[k] \in Nat /\ allowed[k] \in Nat
  BY Zenon DEF LoginTypes
<1>2. ~isAdding(k, r) /\ ~isAdmitted(k, r)
  BY ZenonT(40) DEF isAdmitted
<1>3. /\ Cardinality(addings(login, k)) \in Nat /\ Cardinality(admitteds(login, k)) \in Nat
      /\ Cardinality(addings(login', k)) = Cardinality(addings(login, k)) - addingOne(k, login[p])
      /\ Cardinality(admitteds(login', k)) =
           Cardinality(admitteds(login, k)) - admittedOne(k, login[p])
  <2>1. /\ Cardinality(addings(login, k)) \in Nat /\ Cardinality(admitteds(login, k)) \in Nat
        /\ Cardinality(addings(login', k)) =
             Cardinality(addings(login, k)) + addingOne(k, r) - addingOne(k, login[p])
        /\ Cardinality(admitteds(login', k)) =
             Cardinality(admitteds(login, k)) + admittedOne(k, r) - admittedOne(k, login[p])
    BY <1>1, Windows, ZenonT(40)
  <2>2. addingOne(k, r) = 0 /\ admittedOne(k, r) = 0
    BY <1>2, Zenon DEF addingOne, admittedOne
  <2>3. addingOne(k, login[p]) \in Nat /\ admittedOne(k, login[p]) \in Nat
    BY Zenon DEF addingOne, admittedOne
  <2>4. QED
    BY <2>1, <2>2, <2>3
<1>4. size \in Nat /\ MaxHits \in Nat /\ limit(k) \in Nat
  BY <1>1, Within, Limits, Zenon DEF limit
<1>5. QED
  BY <1>1, <1>3, <1>4 DEF Rate, addingOne, admittedOne

(* A request that neither guesses, counts nor locks.                       *)
LEMMA GuessedStays ==
  ASSUME LoginTypes, Guessed, NEW p \in Logins, NEW r \in Login,
         login' = [login EXCEPT ![p] = r], UNCHANGED <<fails, until, guesses, lapses>>,
         isCounting(login[p]) => isCounting(r), isLocking(login[p]) => isLocking(r),
         until /\ isPast(r) => isPast(login[p])
  PROVE  Guessed'
<1>1. login \in [Logins -> Login] /\ guesses \in Nat /\ fails \in Nat /\ lapses \in Nat
  BY DEF LoginTypes
<1>2. /\ Cardinality(pasts(login)) \in Nat /\ Cardinality(countings(login)) \in Nat
      /\ Cardinality(lockings(login)) \in Nat
      /\ Cardinality(pasts(login')) =
           Cardinality(pasts(login)) + pastOne(r) - pastOne(login[p])
      /\ Cardinality(countings(login')) =
           Cardinality(countings(login)) + countingOne(r) - countingOne(login[p])
      /\ Cardinality(lockings(login')) =
           Cardinality(lockings(login)) + lockingOne(r) - lockingOne(login[p])
  BY <1>1, Placed, ZenonT(40)
<1>3. /\ Cardinality(countings(login')) \in Nat
      /\ Cardinality(countings(login')) >= Cardinality(countings(login))
  BY <1>2 DEF countingOne
<1>4. /\ Cardinality(lockings(login')) \in Nat
      /\ Cardinality(lockings(login')) >= Cardinality(lockings(login))
  BY <1>2 DEF lockingOne
<1>5. until => Cardinality(pasts(login')) <= Cardinality(pasts(login))
  BY <1>2 DEF pastOne
<1>6. Cardinality(pasts(login')) \in Int
  BY <1>2 DEF pastOne
<1>7. size \in Nat /\ Threshold \in Nat
  BY <1>1, Within, Limits, ZenonT(40)
<1>8. /\ guesses <= fails + Cardinality(countings(login')) + lapses
      /\ ~until => guesses <= Threshold - 1 + Cardinality(countings(login'))
                                + Cardinality(lockings(login')) + lapses
      /\ until => guesses + Cardinality(pasts(login')) <= Threshold + size - 1 + lapses
  BY <1>1, <1>2, <1>3, <1>4, <1>5, <1>6, <1>7 DEF Guessed
<1>9. QED
  BY <1>8, Zenon DEF Guessed, countings, lockings, pasts, size, isLocking, afterIncr

(* The record goto writes.                                                 *)
LEMMA Going ==
  ASSUME LoginTypes, NEW p \in Logins, NEW pc,
         login' = [login EXCEPT ![p] = [pc |-> pc, seen |-> 0]],
         pc \in {"idle", "ip", "preflight", "account", "accountAdd", "verify",
                 "incr", "expire", "lock", "reset"}
  PROVE  /\ [pc |-> pc, seen |-> 0] \in Login
         /\ login' = [login EXCEPT ![p] = [pc |-> pc, seen |-> 0]]
         /\ login' \in [Logins -> Login]
         /\ pc \notin {"ip", "accountAdd"} =>
              \A k \in Keys : ~isAdding(k, [pc |-> pc, seen |-> 0])
         /\ isPast([pc |-> pc, seen |-> 0]) <=> pc \in {"account", "accountAdd", "verify"}
         /\ isCounting([pc |-> pc, seen |-> 0]) <=> pc = "incr"
         /\ isLocking([pc |-> pc, seen |-> 0]) <=>
              pc = "lock" \/ (pc = "expire" /\ afterIncr(1) = "lock")
<1>1. [pc |-> pc, seen |-> 0] \in Login
  <2>1. 0 \in 0..MaxHits
    BY Limits
  <2>2. QED
    BY <2>1, Zenon DEF Login
<1>2. login' = [login EXCEPT ![p] = [pc |-> pc, seen |-> 0]]
  BY Zenon
<1>3. login' \in [Logins -> Login]
  BY <1>1, <1>2, Zenon DEF LoginTypes
<1>4. QED
  BY <1>1, <1>2, <1>3, Zenon DEF isAdding, isPast, isCounting, isLocking

(* allow reads the size of the window.                                     *)
LEMMA CountStep ==
  ASSUME LoginInv, NEW p \in Logins, NEW k \in Keys, NEW from, NEW to, Count(p, k, from, to),
         \/ k = "ip" /\ from = "idle" /\ to = "ip"
         \/ k = "user" /\ from = "account" /\ to = "accountAdd"
  PROVE  LoginInv'
<1> DEFINE r == [pc |-> to, seen |-> hits[k]]
<1>1. /\ login \in [Logins -> Login] /\ hits \in [Keys -> Nat] /\ allowed \in [Keys -> Nat]
      /\ LoginTypes /\ Rate /\ Guessed
  BY Zenon DEF LoginInv, LoginTypes
<1>2. /\ login[p].pc = from /\ hits[k] < MaxHits /\ login' = [login EXCEPT ![p] = r]
      /\ UNCHANGED <<account, fails, failsTtl, until, hits, partial, guesses, allowed, lapses>>
  BY Zenon DEF Count, lockVars, ghosts
<1>3. r \in Login
  <2>1. hits[k] \in 0..MaxHits
    BY <1>1, <1>2, Limits
  <2>2. QED
    BY <2>1, Zenon DEF Login
<1>4. login' \in [Logins -> Login]
  BY <1>1, <1>2, <1>3, Zenon
<1>5. LoginTypes'
  BY <1>1, <1>2, <1>4, Zenon DEF LoginTypes
<1>6. /\ isPast(r) <=> isPast(login[p])
      /\ ~isCounting(login[p]) /\ ~isLocking(login[p])
      /\ \A i \in Keys : isAdding(i, r) <=> i = k
      /\ \A i \in Keys : ~isAdding(i, login[p])
  BY <1>2, Zenon DEF isPast, isCounting, isLocking, isAdding, Keys
<1>7. Guessed'
  BY <1>1, <1>2, <1>3, <1>6, GuessedStays, Zenon
<1>8. Rate'
  <2> SUFFICES ASSUME NEW i \in Keys
               PROVE  /\ hits[i] + Cardinality(addings(login', i)) <= MaxHits + size
                      /\ allowed[i] <= hits[i]
                      /\ allowed[i] + Cardinality(admitteds(login', i)) <= limit(i) + size - 1
    BY <1>2, Zenon DEF Rate, addings, admitteds, limit, size
  <2>1. /\ hits[i] \in Nat /\ allowed[i] \in Nat /\ allowed[i] <= hits[i] /\ limit(i) \in Nat
        /\ size \in Nat \ {0} /\ MaxHits \in Nat
    BY <1>1, Within, Limits, Zenon DEF Rate, limit
  <2>2. /\ Cardinality(addings(login, i)) \in Nat /\ Cardinality(admitteds(login, i)) \in Nat
        /\ Cardinality(addings(login', i)) = Cardinality(addings(login, i)) + addingOne(i, r)
        /\ Cardinality(admitteds(login', i)) =
             Cardinality(admitteds(login, i)) + admittedOne(i, r)
    <3> HIDE DEF r
    <3>1. /\ Cardinality(addings(login, i)) \in Nat /\ Cardinality(admitteds(login, i)) \in Nat
          /\ Cardinality(addings(login', i)) =
               Cardinality(addings(login, i)) + addingOne(i, r) - addingOne(i, login[p])
          /\ Cardinality(admitteds(login', i)) =
               Cardinality(admitteds(login, i)) + admittedOne(i, r) - admittedOne(i, login[p])
      BY <1>1, <1>2, <1>3, Windows, ZenonT(40)
    <3>2. addingOne(i, login[p]) = 0 /\ admittedOne(i, login[p]) = 0
      BY <1>6, Zenon DEF addingOne, admittedOne, isAdmitted
    <3>3. addingOne(i, r) \in Nat /\ admittedOne(i, r) \in Nat
      BY Zenon DEF addingOne, admittedOne
    <3>4. QED
      BY <3>1, <3>2, <3>3
  <2>3. Cardinality(addings(login', i)) <= size /\ Cardinality(admitteds(login', i)) <= size
    BY <1>4, Within, Zenon
  <2>4. CASE i = k
    <3>1. hits[i] + Cardinality(addings(login', i)) <= MaxHits + size
      BY <1>2, <2>1, <2>2, <2>3, <2>4 DEF addingOne, admittedOne
    <3>2. CASE hits[k] < limit(k)
      BY <3>1, <3>2, <2>1, <2>2, <2>3, <2>4 DEF addingOne, admittedOne
    <3>3. CASE ~(hits[k] < limit(k))
      <4>1. ~isAdmitted(i, r)
        BY <2>4, <3>3, Zenon DEF isAdmitted, underLimit
      <4>2. QED
        BY <1>1, <2>1, <2>2, <3>1, <4>1 DEF addingOne, admittedOne, Rate
    <3>4. QED
      BY <3>2, <3>3, Zenon
  <2>5. CASE i # k
    <3>1. ~isAdding(i, r) /\ ~isAdmitted(i, r)
      BY <1>6, <2>5, Zenon DEF isAdmitted
    <3>2. QED
      BY <1>1, <2>1, <2>2, <3>1 DEF addingOne, admittedOne, Rate
  <2>6. QED
    BY <2>4, <2>5, Zenon
<1>9. QED
  BY <1>5, <1>7, <1>8, Zenon DEF LoginInv

(* allow adds the attempt and compares what it read with the limit.        *)
LEMMA AddStep ==
  ASSUME LoginInv, NEW p \in Logins, NEW k \in Keys, NEW from, NEW to, Add(p, k, from, to),
         \/ k = "ip" /\ from = "ip" /\ to = "preflight"
         \/ k = "user" /\ from = "accountAdd" /\ to = "verify"
  PROVE  LoginInv'
<1> DEFINE ok == underLimit(k, login[p].seen)
           pc == IF ok THEN to ELSE "idle"
           r == [pc |-> pc, seen |-> 0]
<1>1. /\ login \in [Logins -> Login] /\ hits \in [Keys -> Nat] /\ allowed \in [Keys -> Nat]
      /\ LoginTypes /\ Rate /\ Guessed
  BY Zenon DEF LoginInv, LoginTypes
<1>2. /\ login[p].pc = from /\ hits' = [hits EXCEPT ![k] = @ + 1] /\ login' = [login EXCEPT ![p] = [pc |-> pc, seen |-> 0]]
      /\ allowed' = IF ok THEN [allowed EXCEPT ![k] = @ + 1] ELSE allowed
      /\ UNCHANGED <<account, fails, failsTtl, until, partial, guesses, lapses>>
  BY Zenon DEF goto, Add, lockVars
<1>3. pc \in {"idle", "preflight", "verify"} /\ (pc = "verify" => from = "accountAdd")
  BY Zenon
<1>4. /\ r \in Login /\ login' = [login EXCEPT ![p] = r] /\ login' \in [Logins -> Login]
      /\ \A i \in Keys : ~isAdding(i, r)
  BY <1>1, <1>2, <1>3, Going, Zenon
<1>5. hits' \in [Keys -> Nat] /\ allowed' \in [Keys -> Nat]
  <2>1. hits[k] + 1 \in Nat /\ allowed[k] + 1 \in Nat
    BY <1>1
  <2>2. QED
    BY <1>1, <1>2, <2>1, Zenon
<1>6. LoginTypes'
  BY <1>1, <1>2, <1>4, <1>5, Zenon DEF LoginTypes
<1>7. /\ ~isCounting(login[p]) /\ ~isLocking(login[p])
      /\ isPast(r) => isPast(login[p])
      /\ isAdding(k, login[p])
      /\ isAdmitted(k, login[p]) <=> ok
      /\ \A i \in Keys \ {k} : ~isAdding(i, login[p])
  BY <1>2, <1>3, Zenon DEF isPast, isCounting, isLocking, isAdding, isAdmitted, Keys
<1>8. Guessed'
  BY <1>1, <1>2, <1>4, <1>7, GuessedStays, Zenon
<1>9. Rate'
  <2> SUFFICES ASSUME NEW i \in Keys
               PROVE  /\ hits'[i] + Cardinality(addings(login', i)) <= MaxHits + size
                      /\ allowed'[i] <= hits'[i]
                      /\ allowed'[i] + Cardinality(admitteds(login', i)) <= limit(i) + size - 1
    BY Zenon DEF Rate, addings, admitteds, limit, size
  <2>1. /\ hits[i] \in Nat /\ allowed[i] \in Nat /\ allowed[i] <= hits[i] /\ limit(i) \in Nat
        /\ size \in Nat \ {0} /\ MaxHits \in Nat
    BY <1>1, Within, Limits, Zenon DEF Rate, limit
  <2>2. /\ Cardinality(addings(login, i)) \in Nat /\ Cardinality(admitteds(login, i)) \in Nat
        /\ Cardinality(addings(login', i)) =
             Cardinality(addings(login, i)) - addingOne(i, login[p])
        /\ Cardinality(admitteds(login', i)) =
             Cardinality(admitteds(login, i)) - admittedOne(i, login[p])
    <3> HIDE DEF r
    <3>1. /\ Cardinality(addings(login, i)) \in Nat /\ Cardinality(admitteds(login, i)) \in Nat
          /\ Cardinality(addings(login', i)) =
               Cardinality(addings(login, i)) + addingOne(i, r) - addingOne(i, login[p])
          /\ Cardinality(admitteds(login', i)) =
               Cardinality(admitteds(login, i)) + admittedOne(i, r) - admittedOne(i, login[p])
      <4>1. r \in Login /\ login' = [login EXCEPT ![p] = r] /\ login \in [Logins -> Login]
        BY <1>1, <1>4, Zenon
      <4>2. QED
        BY <4>1, Windows, ZenonT(40)
    <3>2. addingOne(i, r) = 0 /\ admittedOne(i, r) = 0
      BY <1>4, Zenon DEF addingOne, admittedOne, isAdmitted
    <3>3. addingOne(i, login[p]) \in Nat /\ admittedOne(i, login[p]) \in Nat
      BY Zenon DEF addingOne, admittedOne
    <3>4. QED
      BY <3>1, <3>2, <3>3
  <2>3. CASE i = k
    <3>1. /\ hits'[i] = hits[i] + 1 /\ allowed'[i] = allowed[i] + admittedOne(k, login[p])
          /\ Cardinality(addings(login', i)) = Cardinality(addings(login, i)) - 1
          /\ Cardinality(admitteds(login', i)) = Cardinality(admitteds(login, i)) - admittedOne(k, login[p])
      BY <1>1, <1>2, <1>7, <2>1, <2>2, <2>3 DEF addingOne, admittedOne
    <3>2. QED
      BY <1>1, <2>1, <2>2, <3>1 DEF addingOne, admittedOne, Rate
  <2>4. CASE i # k
    <3>1. /\ hits'[i] = hits[i] /\ allowed'[i] = allowed[i]
          /\ Cardinality(addings(login', i)) = Cardinality(addings(login, i))
          /\ Cardinality(admitteds(login', i)) = Cardinality(admitteds(login, i))
      BY <1>1, <1>2, <1>7, <2>1, <2>2, <2>4 DEF addingOne, admittedOne, isAdmitted
    <3>2. QED
      BY <1>1, <2>1, <3>1, Zenon DEF Rate
  <2>5. QED
    BY <2>3, <2>4, Zenon
<1>10. QED
  BY <1>6, <1>8, <1>9, Zenon DEF LoginInv

(* The steps that only move a request on.                                  *)
LEMMA QuietLogin ==
  ASSUME LoginInv, NEW p \in Logins, NEW pc,
         login' = [login EXCEPT ![p] = [pc |-> pc, seen |-> 0]],
         pc \in {"idle", "account", "incr", "lock", "reset"},
         UNCHANGED <<account, fails, until, hits, guesses, allowed, lapses>>,
         {failsTtl, partial}' \subseteq BOOLEAN,
         login[p].pc \in {"preflight", "verify", "expire", "idle"},
         pc = "account" => ~until,
         login[p].pc = "expire" => pc = afterIncr(1)
  PROVE  LoginInv'
<1> DEFINE r == [pc |-> pc, seen |-> 0]
<1>1. LoginTypes /\ Rate /\ Guessed
  BY Zenon DEF LoginInv
<1>2. /\ r \in Login /\ login' = [login EXCEPT ![p] = r] /\ login' \in [Logins -> Login]
      /\ \A i \in Keys : ~isAdding(i, r)
      /\ isPast(r) <=> pc = "account"
      /\ isLocking(r) <=> pc = "lock"
  BY <1>1, Going, Zenon
<1>3. LoginTypes'
  BY <1>1, <1>2, Zenon DEF LoginTypes
<1>4. Rate'
  BY <1>1, <1>2, RateStays, Zenon
<1>5. ~isCounting(login[p]) /\ (isLocking(login[p]) => isLocking(r))
  BY <1>2, Zenon DEF isCounting, isLocking
<1>6. Guessed'
  BY <1>1, <1>2, <1>5, GuessedStays, Zenon
<1>7. QED
  BY <1>3, <1>4, <1>6, Zenon DEF LoginInv

(* The numbers of Guessed, before and after.                               *)
LEMMA Figures ==
  ASSUME LoginTypes, NEW p \in Logins, NEW pc, pc \in {"idle", "incr", "expire", "lock"}
  PROVE  login' = [login EXCEPT ![p] = [pc |-> pc, seen |-> 0]] =>
           /\ guesses \in Nat /\ fails \in Nat /\ lapses \in Nat /\ size \in Nat \ {0}
           /\ Threshold \in Nat \ {0}
           /\ Cardinality(pasts(login)) \in Nat /\ Cardinality(countings(login)) \in Nat
           /\ Cardinality(lockings(login)) \in Nat
           /\ Cardinality(pasts(login)) + Cardinality(countings(login))
                + Cardinality(lockings(login)) <= size
           /\ Cardinality(pasts(login')) = Cardinality(pasts(login)) - pastOne(login[p])
           /\ Cardinality(countings(login')) =
                Cardinality(countings(login)) + countingOne([pc |-> pc, seen |-> 0]) - countingOne(login[p])
           /\ Cardinality(lockings(login')) =
                Cardinality(lockings(login))
                  + lockingOne([pc |-> pc, seen |-> 0])
                  - lockingOne(login[p])
           /\ Cardinality(pasts(login')) \in Nat /\ Cardinality(countings(login')) \in Nat
           /\ Cardinality(lockings(login')) \in Nat
           /\ login' \in [Logins -> Login]
           /\ Rate /\ UNCHANGED <<hits, allowed>> => Rate'
<1>0. SUFFICES ASSUME login' = [login EXCEPT ![p] = [pc |-> pc, seen |-> 0]]
               PROVE  /\ guesses \in Nat /\ fails \in Nat /\ lapses \in Nat /\ size \in Nat \ {0}
                      /\ Threshold \in Nat \ {0}
                      /\ Cardinality(pasts(login)) \in Nat /\ Cardinality(countings(login)) \in Nat
                      /\ Cardinality(lockings(login)) \in Nat
                      /\ Cardinality(pasts(login)) + Cardinality(countings(login))
                           + Cardinality(lockings(login)) <= size
                      /\ Cardinality(pasts(login')) = Cardinality(pasts(login)) - pastOne(login[p])
                      /\ Cardinality(countings(login')) =
                           Cardinality(countings(login)) + countingOne([pc |-> pc, seen |-> 0]) - countingOne(login[p])
                      /\ Cardinality(lockings(login')) =
                           Cardinality(lockings(login))
                             + lockingOne([pc |-> pc, seen |-> 0])
                             - lockingOne(login[p])
                      /\ Cardinality(pasts(login')) \in Nat /\ Cardinality(countings(login')) \in Nat
                      /\ Cardinality(lockings(login')) \in Nat
                      /\ login' \in [Logins -> Login]
                      /\ Rate /\ UNCHANGED <<hits, allowed>> => Rate'
  BY Zenon
<1> DEFINE r == [pc |-> pc, seen |-> 0]
<1>1. /\ r \in Login /\ login' = [login EXCEPT ![p] = r] /\ login' \in [Logins -> Login]
      /\ \A i \in Keys : ~isAdding(i, r)
      /\ ~isPast(r)
      /\ isCounting(r) <=> pc = "incr"
      /\ isLocking(r) <=> pc = "lock" \/ (pc = "expire" /\ afterIncr(1) = "lock")
  BY <1>0, Going, Zenon
<1>2. login \in [Logins -> Login] /\ guesses \in Nat /\ fails \in Nat /\ lapses \in Nat
  BY DEF LoginTypes
<1>3. /\ Cardinality(pasts(login)) \in Nat /\ Cardinality(countings(login)) \in Nat
      /\ Cardinality(lockings(login)) \in Nat
      /\ Cardinality(pasts(login')) =
           Cardinality(pasts(login)) + pastOne(r) - pastOne(login[p])
      /\ Cardinality(countings(login')) =
           Cardinality(countings(login)) + countingOne(r) - countingOne(login[p])
      /\ Cardinality(lockings(login')) =
           Cardinality(lockings(login)) + lockingOne(r) - lockingOne(login[p])
  <2> HIDE DEF r
  <2>1. r \in Login /\ login' = [login EXCEPT ![p] = r] /\ login \in [Logins -> Login]
    BY <1>1, <1>2, Zenon
  <2>2. /\ Cardinality(pasts(login)) \in Nat /\ Cardinality(countings(login)) \in Nat
        /\ Cardinality(lockings(login)) \in Nat
    BY <2>1, Placed, Zenon
  <2>3. Cardinality(pasts(login')) = Cardinality(pasts(login)) + pastOne(r) - pastOne(login[p])
    BY <2>1, Placed, Zenon
  <2>4. Cardinality(countings(login')) =
          Cardinality(countings(login)) + countingOne(r) - countingOne(login[p])
    BY <2>1, Placed, Zenon
  <2>5. Cardinality(lockings(login')) =
          Cardinality(lockings(login)) + lockingOne(r) - lockingOne(login[p])
    BY <2>1, Placed, Zenon
  <2>6. QED
    BY <2>2, <2>3, <2>4, <2>5, Zenon
<1>4. /\ size \in Nat \ {0}
      /\ Cardinality(pasts(login)) + Cardinality(countings(login))
           + Cardinality(lockings(login)) <= size
  BY <1>2, Within, Zenon
<1>5. /\ Cardinality(pasts(login')) \in Nat /\ Cardinality(countings(login')) \in Nat
      /\ Cardinality(lockings(login')) \in Nat
  BY <1>1, Placed, Zenon
<1>6. Rate /\ UNCHANGED <<hits, allowed>> => Rate'
  BY <1>1, RateStays, Zenon
<1>7. pastOne(r) = 0 /\ pastOne(login[p]) \in Nat
  BY <1>1, Zenon DEF pastOne
<1>8. QED
  BY <1>1, <1>2, <1>3, <1>4, <1>5, <1>6, <1>7, Limits

(* Guessed in figures.                                                     *)
LEMMA InFigures ==
  /\ Guessed <=>
       /\ guesses <= fails + Cardinality(countings(login)) + lapses
       /\ ~until => guesses <= Threshold - 1 + Cardinality(countings(login))
                                 + Cardinality(lockings(login)) + lapses
       /\ until => guesses + Cardinality(pasts(login)) <= Threshold + size - 1 + lapses
  /\ Guessed' <=>
       /\ guesses' <= fails' + Cardinality(countings(login')) + lapses'
       /\ ~until' => guesses' <= Threshold - 1 + Cardinality(countings(login'))
                                   + Cardinality(lockings(login')) + lapses'
       /\ until' => guesses' + Cardinality(pasts(login')) <= Threshold + size - 1 + lapses'
BY Zenon DEF Guessed, countings, lockings, pasts, size, isLocking, afterIncr

(* A wrong password.                                                       *)
LEMMA WrongStep ==
  ASSUME LoginInv, NEW p \in Logins, verifyPassword(p, "wrong")
  PROVE  LoginInv'
<1>1. LoginTypes /\ Rate /\ Guessed
  BY Zenon DEF LoginInv
<1>2. /\ login[p].pc = "verify" /\ login' = [login EXCEPT ![p] = [pc |-> "incr", seen |-> 0]] /\ guesses' = guesses + 1
      /\ UNCHANGED <<account, fails, failsTtl, until, hits, partial, allowed, lapses>>
  BY Zenon DEF verifyPassword, lockVars, goto
<1>3. /\ guesses \in Nat /\ fails \in Nat /\ lapses \in Nat /\ size \in Nat \ {0}
      /\ Threshold \in Nat \ {0}
      /\ Cardinality(pasts(login)) \in Nat /\ Cardinality(countings(login)) \in Nat
      /\ Cardinality(lockings(login)) \in Nat
      /\ Cardinality(pasts(login')) = Cardinality(pasts(login)) - 1
      /\ Cardinality(countings(login')) = Cardinality(countings(login)) + 1
      /\ Cardinality(lockings(login')) = Cardinality(lockings(login))
      /\ login' \in [Logins -> Login]
      /\ Rate'
  <2>1. /\ pastOne(login[p]) = 1 /\ countingOne(login[p]) = 0 /\ lockingOne(login[p]) = 0
        /\ countingOne([pc |-> "incr", seen |-> 0]) = 1
        /\ lockingOne([pc |-> "incr", seen |-> 0]) = 0
    BY <1>2, Zenon DEF pastOne, countingOne, lockingOne, isPast, isCounting, isLocking
  <2>2. /\ guesses \in Nat /\ fails \in Nat /\ lapses \in Nat /\ size \in Nat \ {0}
        /\ Threshold \in Nat \ {0}
        /\ login' \in [Logins -> Login]
        /\ Rate'
        /\ Cardinality(pasts(login)) \in Nat /\ Cardinality(countings(login)) \in Nat
        /\ Cardinality(lockings(login)) \in Nat
        /\ Cardinality(pasts(login)) + Cardinality(countings(login))
             + Cardinality(lockings(login)) <= size
    BY <1>1, <1>2, Figures, Zenon
  <2>3. /\ Cardinality(pasts(login')) = Cardinality(pasts(login)) - pastOne(login[p])
        /\ Cardinality(countings(login')) =
             Cardinality(countings(login)) + countingOne([pc |-> "incr", seen |-> 0])
               - countingOne(login[p])
        /\ Cardinality(lockings(login')) =
             Cardinality(lockings(login)) + lockingOne([pc |-> "incr", seen |-> 0])
               - lockingOne(login[p])
    BY <1>1, <1>2, Figures, Zenon
  <2>4. QED
    BY <2>1, <2>2, <2>3, SMTT(30)
<1>4. LoginTypes'
  BY <1>1, <1>2, <1>3 DEF LoginTypes
<1>5. Guessed'
  BY <1>1, <1>2, <1>3, InFigures
<1>6. QED
  BY <1>3, <1>4, <1>5, Zenon DEF LoginInv

(* INCR: the failure is on the counter, and whoever finds the threshold    *)
(* reached goes on to lock.                                                *)
LEMMA IncrStep ==
  ASSUME LoginInv, NEW p \in Logins, Incr(p)
  PROVE  LoginInv'
<1> DEFINE pc == IF fails + 1 = 1 THEN "expire" ELSE afterIncr(fails + 1)
<1>1. LoginTypes /\ Rate /\ Guessed
  BY Zenon DEF LoginInv
<1>2. /\ login[p].pc = "incr" /\ fails < MaxFails /\ fails' = fails + 1 /\ login' = [login EXCEPT ![p] = [pc |-> pc, seen |-> 0]]
      /\ UNCHANGED <<account, failsTtl, until, hits, partial, guesses, allowed, lapses>>
  BY Zenon DEF goto, Incr, ghosts
<1>3. pc \in {"idle", "expire", "lock"}
  BY Zenon DEF afterIncr
<1>4. fails \in Nat /\ MaxFails \in Nat /\ fails' \in 0..MaxFails
  BY <1>1, <1>2, Limits DEF LoginTypes
<1> DEFINE locks == pc = "lock" \/ (pc = "expire" /\ afterIncr(1) = "lock")
<1>5. ~locks => fails + 1 < Threshold
  BY <1>4, Zenon DEF afterIncr
<1>6. /\ guesses \in Nat /\ lapses \in Nat /\ size \in Nat \ {0} /\ Threshold \in Nat \ {0}
      /\ Cardinality(pasts(login)) \in Nat /\ Cardinality(countings(login)) \in Nat
      /\ Cardinality(lockings(login)) \in Nat
      /\ Cardinality(pasts(login')) = Cardinality(pasts(login))
      /\ Cardinality(countings(login')) = Cardinality(countings(login)) - 1
      /\ Cardinality(lockings(login')) = Cardinality(lockings(login)) + IF locks THEN 1 ELSE 0
      /\ login' \in [Logins -> Login]
      /\ Rate'
  <2> HIDE DEF pc
  <2>1. pastOne(login[p]) = 0 /\ lockingOne(login[p]) = 0 /\ countingOne(login[p]) = 1
    BY <1>2, Zenon DEF pastOne, countingOne, lockingOne, isPast, isCounting, isLocking
  <2>2. /\ countingOne([pc |-> pc, seen |-> 0]) = 0
        /\ lockingOne([pc |-> pc, seen |-> 0]) = IF locks THEN 1 ELSE 0
    BY <1>3, Zenon DEF countingOne, lockingOne, isCounting, isLocking
  <2>3. /\ guesses \in Nat /\ fails \in Nat /\ lapses \in Nat /\ size \in Nat \ {0}
        /\ Threshold \in Nat \ {0}
        /\ login' \in [Logins -> Login]
        /\ Rate'
        /\ Cardinality(pasts(login)) \in Nat /\ Cardinality(countings(login)) \in Nat
        /\ Cardinality(lockings(login)) \in Nat
        /\ Cardinality(pasts(login)) + Cardinality(countings(login))
             + Cardinality(lockings(login)) <= size
    BY <1>1, <1>2, <1>3, Figures, Zenon
  <2>4. /\ Cardinality(pasts(login')) = Cardinality(pasts(login)) - pastOne(login[p])
        /\ Cardinality(countings(login')) =
             Cardinality(countings(login)) + countingOne([pc |-> pc, seen |-> 0])
               - countingOne(login[p])
        /\ Cardinality(lockings(login')) =
             Cardinality(lockings(login)) + lockingOne([pc |-> pc, seen |-> 0])
               - lockingOne(login[p])
    BY <1>1, <1>2, <1>3, Figures
  <2>5. /\ Cardinality(pasts(login')) = Cardinality(pasts(login)) - 0
        /\ Cardinality(countings(login')) = Cardinality(countings(login)) + 0 - 1
        /\ Cardinality(lockings(login')) =
             Cardinality(lockings(login)) + (IF locks THEN 1 ELSE 0) - 0
    BY <2>1, <2>2, <2>4, Zenon
  <2>6. /\ Cardinality(pasts(login)) \in Nat /\ Cardinality(countings(login)) \in Nat
        /\ Cardinality(lockings(login)) \in Nat
    BY <2>3, Zenon
  <2>7. /\ Cardinality(pasts(login')) = Cardinality(pasts(login))
        /\ Cardinality(countings(login')) = Cardinality(countings(login)) - 1
        /\ Cardinality(lockings(login')) = Cardinality(lockings(login)) + IF locks THEN 1 ELSE 0
    BY <2>5, <2>6
  <2>8. QED
    BY <2>3, <2>7, Zenon
<1>7. LoginTypes'
  BY <1>1, <1>2, <1>4, <1>6, Zenon DEF LoginTypes
<1>8. Guessed'
  <2> HIDE DEF locks, pc
  <2>1. CASE locks
    BY <1>1, <1>2, <1>4, <1>6, <2>1, InFigures
  <2>2. CASE ~locks
    BY <1>1, <1>2, <1>4, <1>5, <1>6, <2>2, InFigures
  <2>3. QED
    BY <2>1, <2>2, Zenon
<1>9. QED
  BY <1>6, <1>7, <1>8, Zenon DEF LoginInv

(* SET until: from here on only those past the check may guess.            *)
LEMMA LockStep ==
  ASSUME LoginInv, NEW p \in Logins, SetUntil(p)
  PROVE  LoginInv'
<1>1. LoginTypes /\ Rate /\ Guessed
  BY Zenon DEF LoginInv
<1>2. /\ login[p].pc = "lock" /\ login' = [login EXCEPT ![p] = [pc |-> "idle", seen |-> 0]] /\ until' = TRUE
      /\ UNCHANGED <<account, fails, failsTtl, hits, partial, guesses, allowed, lapses>>
  BY Zenon DEF SetUntil, ghosts, goto
<1>3. /\ guesses \in Nat /\ fails \in Nat /\ lapses \in Nat /\ size \in Nat \ {0}
      /\ Threshold \in Nat \ {0}
      /\ Cardinality(pasts(login)) \in Nat /\ Cardinality(countings(login)) \in Nat
      /\ Cardinality(lockings(login)) \in Nat
      /\ Cardinality(pasts(login)) + Cardinality(countings(login))
           + Cardinality(lockings(login)) <= size
      /\ Cardinality(pasts(login')) = Cardinality(pasts(login))
      /\ Cardinality(countings(login')) = Cardinality(countings(login))
      /\ login' \in [Logins -> Login]
      /\ Rate'
  <2>1. /\ pastOne(login[p]) = 0 /\ countingOne(login[p]) = 0
        /\ countingOne([pc |-> "idle", seen |-> 0]) = 0
        /\ lockingOne([pc |-> "idle", seen |-> 0]) = 0
    BY <1>2, Zenon DEF pastOne, countingOne, lockingOne, isPast, isCounting, isLocking
  <2>2. /\ guesses \in Nat /\ fails \in Nat /\ lapses \in Nat /\ size \in Nat \ {0}
        /\ Threshold \in Nat \ {0}
        /\ login' \in [Logins -> Login]
        /\ Rate'
        /\ Cardinality(pasts(login)) \in Nat /\ Cardinality(countings(login)) \in Nat
        /\ Cardinality(lockings(login)) \in Nat
        /\ Cardinality(pasts(login)) + Cardinality(countings(login))
             + Cardinality(lockings(login)) <= size
    BY <1>1, <1>2, Figures, Zenon
  <2>3. /\ Cardinality(pasts(login')) = Cardinality(pasts(login)) - pastOne(login[p])
        /\ Cardinality(countings(login')) =
             Cardinality(countings(login)) + countingOne([pc |-> "idle", seen |-> 0])
               - countingOne(login[p])
        /\ Cardinality(lockings(login')) =
             Cardinality(lockings(login)) + lockingOne([pc |-> "idle", seen |-> 0])
               - lockingOne(login[p])
    BY <1>1, <1>2, Figures, Zenon
  <2>4. QED
    BY <2>1, <2>2, <2>3, SMTT(30)
<1>4. LoginTypes'
  BY <1>1, <1>2, <1>3, Zenon DEF LoginTypes
<1>5. Guessed'
  BY <1>1, <1>2, <1>3, InFigures
<1>6. QED
  BY <1>3, <1>4, <1>5, Zenon DEF LoginInv

(* Reset, and a lapse.                                                     *)
LEMMA ResetStep ==
  ASSUME LoginInv, NEW p \in Logins, NEW ok \in BOOLEAN, Reset(p, ok)
  PROVE  LoginInv'
<1>1. LoginTypes /\ Rate /\ Guessed
  BY Zenon DEF LoginInv
<1>2. /\ login[p].pc = "reset" /\ login' = [login EXCEPT ![p] = [pc |-> "idle", seen |-> 0]]
      /\ UNCHANGED <<account, hits, allowed>>
  BY Zenon DEF goto, Reset
<1>3. /\ guesses \in Nat /\ fails \in Nat /\ lapses \in Nat /\ size \in Nat \ {0}
      /\ Threshold \in Nat \ {0}
      /\ Cardinality(pasts(login)) \in Nat /\ Cardinality(countings(login)) \in Nat
      /\ Cardinality(lockings(login)) \in Nat
      /\ Cardinality(pasts(login')) = Cardinality(pasts(login))
      /\ Cardinality(countings(login')) = Cardinality(countings(login))
      /\ Cardinality(lockings(login')) = Cardinality(lockings(login))
      /\ login' \in [Logins -> Login]
      /\ Rate'
  <2>1. /\ pastOne(login[p]) = 0 /\ countingOne(login[p]) = 0 /\ lockingOne(login[p]) = 0
        /\ countingOne([pc |-> "idle", seen |-> 0]) = 0
        /\ lockingOne([pc |-> "idle", seen |-> 0]) = 0
    BY <1>2, Zenon DEF pastOne, countingOne, lockingOne, isPast, isCounting, isLocking
  <2>2. /\ guesses \in Nat /\ fails \in Nat /\ lapses \in Nat /\ size \in Nat \ {0}
        /\ Threshold \in Nat \ {0}
        /\ login' \in [Logins -> Login]
        /\ Rate'
        /\ Cardinality(pasts(login)) \in Nat /\ Cardinality(countings(login)) \in Nat
        /\ Cardinality(lockings(login)) \in Nat
        /\ Cardinality(pasts(login)) + Cardinality(countings(login))
             + Cardinality(lockings(login)) <= size
    BY <1>1, <1>2, Figures, Zenon
  <2>3. /\ Cardinality(pasts(login')) = Cardinality(pasts(login)) - pastOne(login[p])
        /\ Cardinality(countings(login')) =
             Cardinality(countings(login)) + countingOne([pc |-> "idle", seen |-> 0])
               - countingOne(login[p])
        /\ Cardinality(lockings(login')) =
             Cardinality(lockings(login)) + lockingOne([pc |-> "idle", seen |-> 0])
               - lockingOne(login[p])
    BY <1>1, <1>2, Figures, Zenon
  <2>4. QED
    BY <2>1, <2>2, <2>3, SMTT(30)
<1>4. partial' \in BOOLEAN /\ MaxLapses \in Nat /\ MaxFails \in Nat
  BY Limits, Zenon DEF Reset
<1>5. CASE ok
  <2>1. fails' = 0 /\ failsTtl' = FALSE /\ until' = FALSE /\ guesses' = 0 /\ lapses' = lapses
    BY <1>5, Zenon DEF Reset
  <2>2. LoginTypes'
    <3>1. /\ fails' \in 0..MaxFails /\ lapses' \in 0..MaxLapses /\ guesses' \in Nat
          /\ account' \in Account /\ hits' \in [Keys -> Nat] /\ allowed' \in [Keys -> Nat]
      BY <1>1, <1>2, <1>4, <2>1 DEF LoginTypes
    <3>2. {failsTtl', until', partial'} \subseteq BOOLEAN
      BY <1>4, <2>1, Zenon
    <3>3. QED
      BY <1>3, <3>1, <3>2, Zenon DEF LoginTypes
  <2>3. Guessed'
    BY <1>3, <2>1, InFigures
  <2>4. QED
    BY <1>3, <2>2, <2>3, Zenon DEF LoginInv
<1>6. CASE ~ok
  <2>1. lapses < MaxLapses /\ lapses' = lapses + 1 /\ UNCHANGED <<fails, failsTtl, until, guesses>>
    BY <1>6, Zenon DEF Reset, lockVars
  <2>2. LoginTypes'
    BY <1>1, <1>2, <1>3, <1>4, <2>1, SMTT(30) DEF LoginTypes
  <2>3. Guessed'
    BY <1>1, <1>3, <2>1, InFigures
  <2>4. QED
    BY <1>3, <2>2, <2>3, Zenon DEF LoginInv
<1>7. QED
  BY <1>5, <1>6, Zenon

(* A request that is abandoned leaves every count it was in.               *)
LEMMA AbandonStep ==
  ASSUME LoginInv, NEW p \in Logins, Abandon(p)
  PROVE  LoginInv'
<1>1. LoginTypes /\ Rate /\ Guessed
  BY Zenon DEF LoginInv
<1>2. /\ login' = [login EXCEPT ![p] = [pc |-> "idle", seen |-> 0]] /\ lapses < MaxLapses /\ lapses' = lapses + 1
      /\ UNCHANGED <<account, fails, failsTtl, until, hits, partial, guesses, allowed>>
  BY Zenon DEF goto, Abandon, lockVars, ghosts
<1>3. countingOne(login[p]) + lockingOne(login[p]) <= 1
  BY DEF countingOne, lockingOne, isCounting, isLocking
<1>4. /\ pastOne(login[p]) \in 0..1 /\ countingOne(login[p]) \in 0..1
      /\ lockingOne(login[p]) \in 0..1
  BY DEF pastOne, countingOne, lockingOne
<1>5. /\ guesses \in Nat /\ fails \in Nat /\ lapses \in Nat /\ size \in Nat \ {0}
      /\ Threshold \in Nat \ {0}
      /\ Cardinality(pasts(login)) \in Nat /\ Cardinality(countings(login)) \in Nat
      /\ Cardinality(lockings(login)) \in Nat
      /\ Cardinality(pasts(login')) = Cardinality(pasts(login)) - pastOne(login[p])
      /\ Cardinality(countings(login')) = Cardinality(countings(login)) - countingOne(login[p])
      /\ Cardinality(lockings(login')) = Cardinality(lockings(login)) - lockingOne(login[p])
      /\ login' \in [Logins -> Login]
      /\ Rate'
  <2>1. countingOne([pc |-> "idle", seen |-> 0]) = 0 /\ lockingOne([pc |-> "idle", seen |-> 0]) = 0
    BY Zenon DEF pastOne, countingOne, lockingOne, isPast, isCounting, isLocking
  <2>2. /\ guesses \in Nat /\ fails \in Nat /\ lapses \in Nat /\ size \in Nat \ {0}
        /\ Threshold \in Nat \ {0}
        /\ login' \in [Logins -> Login]
        /\ Rate'
        /\ Cardinality(pasts(login)) \in Nat /\ Cardinality(countings(login)) \in Nat
        /\ Cardinality(lockings(login)) \in Nat
        /\ Cardinality(pasts(login)) + Cardinality(countings(login))
             + Cardinality(lockings(login)) <= size
    BY <1>1, <1>2, Figures, Zenon
  <2>3. /\ Cardinality(pasts(login')) = Cardinality(pasts(login)) - pastOne(login[p])
        /\ Cardinality(countings(login')) =
             Cardinality(countings(login)) + countingOne([pc |-> "idle", seen |-> 0])
               - countingOne(login[p])
        /\ Cardinality(lockings(login')) =
             Cardinality(lockings(login)) + lockingOne([pc |-> "idle", seen |-> 0])
               - lockingOne(login[p])
    BY <1>1, <1>2, Figures, Zenon
  <2>4. /\ Cardinality(pasts(login)) \in Nat /\ Cardinality(countings(login)) \in Nat
        /\ Cardinality(lockings(login)) \in Nat
    BY <2>2, Zenon
  <2>5. /\ Cardinality(countings(login')) = Cardinality(countings(login)) + 0 - countingOne(login[p])
        /\ Cardinality(lockings(login')) = Cardinality(lockings(login)) + 0 - lockingOne(login[p])
    BY <2>1, <2>3, ZenonT(40)
  <2>6. /\ Cardinality(countings(login')) = Cardinality(countings(login)) - countingOne(login[p])
        /\ Cardinality(lockings(login')) = Cardinality(lockings(login)) - lockingOne(login[p])
    BY <2>4, <2>5 DEF countingOne, lockingOne
  <2>7. QED
    BY <1>4, <2>2, <2>3, <2>6, Zenon
<1>6. MaxLapses \in Nat
  BY Limits, ZenonT(40)
<1>7. LoginTypes'
  BY <1>1, <1>2, <1>5, <1>6 DEF LoginTypes
<1>8. Guessed'
  BY <1>1, <1>2, <1>3, <1>4, <1>5, InFigures
<1>9. QED
  BY <1>5, <1>7, <1>8, Zenon DEF LoginInv

(* Expiry.                                                                 *)
LEMMA ExpiryStep ==
  ASSUME LoginInv, LockExpires \/ CounterExpires \/ WindowPasses
  PROVE  LoginInv'
<1>1. LoginTypes /\ Rate /\ Guessed /\ login' = login /\ lapses' = lapses
  BY Zenon DEF LoginInv, LockExpires, CounterExpires, WindowPasses
<1>2. PICK p \in Logins : TRUE
  BY LoginAssumption, Zenon
<1>3. /\ login \in [Logins -> Login] /\ login[p] \in Login
      /\ login = [login EXCEPT ![p] = login[p]]
  BY <1>1, Zenon DEF LoginTypes
<1>4. /\ guesses \in Nat /\ fails \in Nat /\ lapses \in Nat /\ size \in Nat \ {0}
      /\ Threshold \in Nat \ {0} /\ MaxFails \in Nat
      /\ Cardinality(pasts(login)) \in Nat /\ Cardinality(countings(login)) \in Nat
      /\ Cardinality(lockings(login)) \in Nat
      /\ Cardinality(pasts(login)) + Cardinality(countings(login))
           + Cardinality(lockings(login)) <= size
  BY <1>1, <1>3, Placed, Within, Limits DEF LoginTypes
<1>5. CASE LockExpires
  <2>1. /\ until' = FALSE /\ guesses' = 0
        /\ UNCHANGED <<account, fails, failsTtl, hits, partial, allowed>>
    BY <1>5, Zenon DEF LockExpires
  <2>2. LoginTypes' /\ Rate'
    BY <1>1, <2>1, Zenon DEF LoginTypes, Rate
  <2>3. Guessed'
    BY <1>1, <1>4, <2>1, InFigures
  <2>4. QED
    BY <2>2, <2>3, Zenon DEF LoginInv
<1>6. CASE CounterExpires
  <2>1. /\ fails' = 0 /\ failsTtl' = FALSE /\ guesses' = 0
        /\ UNCHANGED <<account, until, hits, partial, allowed>>
    BY <1>6, Zenon DEF CounterExpires
  <2>2. LoginTypes'
    <3>1. /\ fails' \in 0..MaxFails /\ lapses' \in 0..MaxLapses /\ guesses' \in Nat
          /\ account' \in Account /\ hits' \in [Keys -> Nat] /\ allowed' \in [Keys -> Nat]
      BY <1>1, <1>4, <2>1 DEF LoginTypes
    <3>2. {failsTtl', until', partial'} \subseteq BOOLEAN
      BY <1>1, <2>1, Zenon DEF LoginTypes
    <3>3. QED
      BY <1>1, <3>1, <3>2, Zenon DEF LoginTypes
  <2>3. Rate'
    BY <1>1, <2>1, Zenon DEF Rate
  <2>4. Guessed'
    BY <1>1, <1>4, <2>1, InFigures
  <2>5. QED
    BY <2>2, <2>4, <2>3, Zenon DEF LoginInv
<1>7. CASE WindowPasses
  <2>1. /\ hits' = [k \in Keys |-> 0] /\ allowed' = [k \in Keys |-> 0]
        /\ UNCHANGED <<account, fails, failsTtl, until, partial, guesses>>
    BY <1>7, Zenon DEF WindowPasses, lockVars
  <2>2. LoginTypes' /\ Guessed'
    BY <1>1, <2>1, Zenon DEF LoginTypes, Guessed
  <2>3. Rate'
    <3> SUFFICES ASSUME NEW k \in Keys
                 PROVE  /\ 0 + Cardinality(addings(login, k)) <= MaxHits + size
                        /\ 0 + Cardinality(admitteds(login, k)) <= limit(k) + size - 1
      BY <1>1, <2>1 DEF Rate, addings, admitteds, limit, size
    <3>1. /\ Cardinality(addings(login, k)) \in Nat /\ Cardinality(admitteds(login, k)) \in Nat
          /\ Cardinality(addings(login, k)) <= size /\ Cardinality(admitteds(login, k)) <= size
      BY <1>3, Windows, Within, Zenon
    <3>2. limit(k) \in Nat /\ MaxHits \in Nat
      BY LoginAssumption, Zenon DEF limit
    <3>3. CASE limit(k) = 0
      <4>1. admitteds(login, k) = {}
        BY <1>3, <3>3 DEF admitteds, isAdmitted, underLimit, Login
      <4>2. Cardinality(admitteds(login, k)) = 0
        BY <4>1, FS_EmptySet, Zenon
      <4>3. QED
        BY <1>4, <3>1, <3>2, <4>2
    <3>4. CASE limit(k) # 0
      <4>1. limit(k) >= 1
        BY <3>2, <3>4
      <4>2. QED
        BY <1>4, <3>1, <3>2, <4>1
    <3>5. QED
      BY <3>3, <3>4, Zenon
  <2>4. QED
    BY <2>2, <2>3, Zenon DEF LoginInv
<1>8. QED
  BY <1>5, <1>6, <1>7, Zenon

(* The invariant is inductive.                                             *)
LEMMA LoginKeeps == LoginInv /\ [LoginNext]_loginVars => LoginInv'
<1> SUFFICES ASSUME LoginInv, [LoginNext]_loginVars PROVE LoginInv'
  BY Zenon
<1>1. CASE UNCHANGED loginVars
  BY <1>1, Zenon DEF loginVars, LoginInv, LoginTypes, Rate, Guessed
<1>2. ASSUME NEW p \in Logins, LoginStep(p) PROVE LoginInv'
  <2>1. CASE AllowIP(p)
    BY <2>1, CountStep, AddStep, Zenon DEF AllowIP, Keys
  <2>2. CASE AllowAccount(p)
    BY <2>2, CountStep, AddStep, Zenon DEF AllowAccount, Keys
  <2>3. ASSUME NEW registered \in BOOLEAN, loginPreflight(p, registered) PROVE LoginInv'
    <3> DEFINE pc == IF registered /\ ~account.archived /\ ~IsLocked THEN "account" ELSE "idle"
    <3>1. /\ login[p].pc = "preflight" /\ login' = [login EXCEPT ![p] = [pc |-> pc, seen |-> 0]]
          /\ UNCHANGED <<account, fails, failsTtl, until, hits, partial, guesses, allowed, lapses>>
      BY <2>3, Zenon DEF loginPreflight, lockVars, ghosts, goto
    <3>2. pc \in {"idle", "account"} /\ (pc = "account" => ~until)
      BY Zenon DEF IsLocked
    <3>3. {failsTtl, partial}' \subseteq BOOLEAN
      BY <3>1, Zenon DEF LoginInv, LoginTypes
    <3> HIDE DEF pc
    <3>4. QED
      BY <3>1, <3>2, <3>3, QuietLogin, Zenon
  <2>4. ASSUME NEW verdict \in {"right", "error"}, verifyPassword(p, verdict) PROVE LoginInv'
    <3> DEFINE pc == IF verdict = "right" THEN "reset" ELSE "idle"
    <3>1. /\ login[p].pc = "verify" /\ login' = [login EXCEPT ![p] = [pc |-> pc, seen |-> 0]]
          /\ UNCHANGED <<account, fails, failsTtl, until, hits, partial, guesses, allowed, lapses>>
      BY <2>4, Zenon DEF verifyPassword, lockVars, goto
    <3>2. pc \in {"idle", "reset"}
      BY Zenon
    <3>3. {failsTtl, partial}' \subseteq BOOLEAN
      BY <3>1, Zenon DEF LoginInv, LoginTypes
    <3> HIDE DEF pc
    <3>4. QED
      BY <3>1, <3>2, <3>3, QuietLogin, Zenon
  <2>5. CASE ExpireCounter(p)
    <3> DEFINE pc == afterIncr(1)
    <3>1. /\ login[p].pc = "expire" /\ login' = [login EXCEPT ![p] = [pc |-> pc, seen |-> 0]] /\ failsTtl' \in BOOLEAN
          /\ UNCHANGED <<account, fails, until, hits, partial, guesses, allowed, lapses>>
      BY <2>5 DEF ExpireCounter, ghosts, goto
    <3>2. pc \in {"idle", "lock"}
      BY Zenon DEF afterIncr
    <3>3. {failsTtl, partial}' \subseteq BOOLEAN
      BY <3>1, Zenon DEF LoginInv, LoginTypes
    <3>4. QED
      BY <3>1, <3>2, <3>3, QuietLogin, Zenon
  <2>6. ASSUME NEW right \in BOOLEAN, LoginTOTP(p, right) PROVE LoginInv'
    <3> DEFINE pc == IF right THEN "idle" ELSE "incr"
    <3>1. /\ login[p].pc = "idle" /\ login' = [login EXCEPT ![p] = [pc |-> pc, seen |-> 0]]
          /\ UNCHANGED <<account, fails, failsTtl, until, hits, partial, guesses, allowed, lapses>>
      BY <2>6, Zenon DEF LoginTOTP, lockVars, ghosts, goto
    <3>2. pc \in {"idle", "incr"}
      BY Zenon
    <3>3. {failsTtl, partial}' \subseteq BOOLEAN
      BY <3>1, Zenon DEF LoginInv, LoginTypes
    <3> HIDE DEF pc
    <3>4. QED
      BY <3>1, <3>2, <3>3, QuietLogin, Zenon
  <2>7. QED
    BY <1>2, <2>1, <2>2, <2>3, <2>4, <2>5, <2>6, WrongStep, IncrStep, LockStep, ResetStep,
       AbandonStep, ZenonT(40)
       DEF LoginStep
<1>3. QED
  BY <1>1, <1>2, ExpiryStep, Zenon DEF LoginNext

(* What the invariant says of the two bounds.                              *)
LEMMA LoginBounds == LoginInv => LoginTypeOK /\ BoundedGuesses /\ RateIsBounded
<1> SUFFICES ASSUME LoginInv PROVE LoginTypeOK /\ BoundedGuesses /\ RateIsBounded
  BY Zenon
<1>1. PICK p \in Logins : TRUE
  BY LoginAssumption, Zenon
<1>2. /\ LoginTypes /\ Rate /\ Guessed
      /\ login \in [Logins -> Login] /\ login[p] \in Login
      /\ login = [login EXCEPT ![p] = login[p]]
  BY Zenon DEF LoginInv, LoginTypes
<1>3. /\ guesses \in Nat /\ fails \in Nat /\ lapses \in Nat /\ size \in Nat \ {0}
      /\ Threshold \in Nat \ {0}
      /\ Cardinality(pasts(login)) \in Nat /\ Cardinality(countings(login)) \in Nat
      /\ Cardinality(lockings(login)) \in Nat
      /\ Cardinality(pasts(login)) + Cardinality(countings(login))
           + Cardinality(lockings(login)) <= size
  BY <1>2, Placed, Within, Limits DEF LoginTypes
<1>4. BoundedGuesses
  BY <1>2, <1>3, InFigures DEF BoundedGuesses, size
<1>5. ASSUME NEW k \in Keys
      PROVE  hits[k] \in 0..MaxHits + size /\ allowed[k] <= limit(k) + size - 1
  <2>1. hits[k] \in Nat /\ allowed[k] \in Nat /\ limit(k) \in Nat /\ MaxHits \in Nat
    BY <1>2, Limits, Zenon DEF LoginTypes, limit
  <2>2. Cardinality(addings(login, k)) \in Nat /\ Cardinality(admitteds(login, k)) \in Nat
    BY <1>2, Windows, Zenon
  <2>3. size \in Nat
    BY <1>3, Zenon
  <2>4. /\ hits[k] + Cardinality(addings(login, k)) <= MaxHits + size
        /\ allowed[k] + Cardinality(admitteds(login, k)) <= limit(k) + size - 1
    BY <1>2, Zenon DEF Rate
  <2>5. QED
    BY <2>1, <2>2, <2>3, <2>4
<1>6. RateIsBounded
  BY <1>5, Zenon DEF RateIsBounded, size
<1>7. LoginTypeOK
  BY <1>2, <1>5, Zenon DEF LoginTypes, LoginTypeOK, size
<1>8. QED
  BY <1>4, <1>6, <1>7, Zenon

(* However the requests interleave, the lockout bounds the wrong passwords *)
(* and a window bounds the attempts (lockout.go, ratelimit.go).            *)
THEOREM GuessesAreBounded == LoginSpec => []LoginsAreBounded
<1>1. LoginInv => LoginsAreBounded
  BY LoginBounds, Zenon DEF LoginsAreBounded
<1>2. QED
  BY <1>1, NobodyLogsIn, LoginKeeps, PTL DEF LoginSpec
=============================================================================
