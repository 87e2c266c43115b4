------------------------------ MODULE KeyCache ------------------------------
(***************************************************************************)
(* The two caches of tenancy: data keys unwrapped by KMS, and peppers of   *)
(* the phone hasher.  Both are LRU lists with a TTL, both hand out the     *)
(* byte buffer they hold, and both zero a buffer they drop - also while    *)
(* the caller that was handed it is still about to use it.                 *)
(* A buffer is a number; a ciphertext names the data key wrapped beside it *)
(* and the key the body was really sealed with.                            *)
(***************************************************************************)
EXTENDS Naturals, Sequences, FiniteSets, FiniteSetsExt

CONSTANTS
  Orgs, KeyUsers,  \* organisations, concurrent callers
  Size,            \* capacity of the cache
  MaxBuffers,      \* bound on the buffers KMS or the database filled
  MaxSealed        \* bound on the ciphertexts kept

ASSUME KeyAssumption == {Size, MaxBuffers, MaxSealed} \subseteq Nat \ {0}

VARIABLES
  flavour,   \* "dek" or "pepper"
  lru,       \* front = most recently used
  zeroed,    \* buffers overwritten with zeros
  stale,     \* buffers past their TTL
  wrapped,   \* buffer -> the data key (or pepper) it was filled with
  version,   \* current version of the KEK
  use,       \* what each caller is doing
  sealed,    \* ciphertexts (hashes) produced
  misread    \* a ciphertext was opened with another key than its own

keyVars == <<flavour, lru, zeroed, stale, wrapped, version, use, sealed, misread>>

Resting == [pc |-> "idle", org |-> "none", b |-> 0, ct |-> 0]
buffers == 1..Len(wrapped)

KeyInit ==
  /\ flavour \in {"dek", "pepper"}
  /\ lru = <<>> /\ zeroed = {} /\ stale = {} /\ wrapped = <<>> /\ version = 1
  /\ use = [p \in KeyUsers |-> Resting]
  /\ sealed = {} /\ misread = FALSE

doing(p, pc, org, b, ct) == use' = [use EXCEPT ![p] = [pc |-> pc, org |-> org, b |-> b, ct |-> ct]]
rest(p) == use' = [use EXCEPT ![p] = Resting]

-----------------------------------------------------------------------------
(* The list.  Dropping an element zeroes its buffer.                       *)
expired(it) == it.b \in stale
without(l, S) == SelectSeq(l, LAMBDA it : it.b \notin S)
removeElementLocked(S) == lru' = without(lru, S) /\ zeroed' = zeroed \cup S

(* The element found, 0 if none: the first fresh one of the organisation.  *)
ofOrg(org) == {i \in DOMAIN lru : lru[i].org = org}
hit(org) == LET H == {i \in ofOrg(org) : ~expired(lru[i])} IN IF H = {} THEN 0 ELSE Min(H)
(* Lookup drops the expired elements it passes and moves the hit to front. *)
GetByTenant(org) ==
  LET h == hit(org)
      passed == {lru[i].b : i \in {j \in ofOrg(org) : expired(lru[j]) /\ (h = 0 \/ j < h)}}
      rest_ == without(lru, passed \cup (IF h = 0 THEN {} ELSE {lru[h].b}))
  IN /\ zeroed' = zeroed \cup passed
     /\ lru' = IF h = 0 THEN rest_ ELSE <<lru[h]>> \o rest_
cacheGet(org) == GetByTenant(org)

(* A full cache grows.                                                     *)
FaultNeverEvicts(l) == l

evictOldestLocked(l) == IF Len(l) >= Size THEN SubSeq(l, 1, Size - 1) ELSE l
PutWith(it, zeroOld) ==
  LET old == {i \in DOMAIN lru : lru[i].org = it.org /\ lru[i].version = it.version}
      gone == {lru[i].b : i \in old}
      others == without(lru, gone)
      kept == IF old = {} THEN evictOldestLocked(lru) ELSE others
      evicted == {lru[i].b : i \in DOMAIN lru} \ ({kept[i].b : i \in DOMAIN kept} \cup gone)
  IN /\ lru' = <<it>> \o kept
     /\ zeroed' = zeroed \cup evicted \cup (IF zeroOld THEN gone ELSE {})
Put(it) == PutWith(it, TRUE)
cachePut(it) == PutWith(it, FALSE)

(* A new buffer filled by KMS or the database, and cached.                 *)
fill(p, org, key) ==
  LET b == Len(wrapped) + 1
      it == [org |-> org, version |-> IF flavour = "dek" THEN version ELSE 1, b |-> b]
  IN /\ Len(wrapped) < MaxBuffers
     /\ wrapped' = Append(wrapped, key)
     /\ IF flavour = "dek" THEN Put(it) ELSE cachePut(it)

-----------------------------------------------------------------------------
(* Encrypt, and Hash: look the key up, get a new one when there is none.   *)
resolveDEKForEncrypt(p, org) ==
  /\ use[p] = Resting
  /\ IF flavour = "dek" THEN GetByTenant(org) ELSE cacheGet(org)
  /\ IF hit(org) = 0 THEN doing(p, "generate", org, 0, 0) ELSE doing(p, "seal", org, lru[hit(org)].b, 0)
  /\ UNCHANGED <<flavour, stale, wrapped, version, sealed, misread>>
pepperOf(org) == <<"pepper", org>>
GenerateDataKey(p) ==
  /\ use[p].pc = "generate"
  /\ fill(p, use[p].org, IF flavour = "dek" THEN <<"dek", Len(wrapped) + 1>> ELSE pepperOf(use[p].org))
  /\ doing(p, "seal", use[p].org, Len(wrapped) + 1, 0)
  /\ UNCHANGED <<flavour, stale, version, sealed, misread>>
(* The body is sealed with what the buffer holds by now.                   *)
contents(b) == IF b \in zeroed THEN <<"zeros", "none">> ELSE wrapped[b]
Encrypt(p) ==
  LET b == use[p].b IN
  /\ use[p].pc = "seal" /\ Cardinality(sealed) < MaxSealed
  /\ sealed' = sealed \cup {[org |-> use[p].org, wrapped |-> wrapped[b], under |-> contents(b)]}
  /\ rest(p)
  /\ UNCHANGED <<flavour, lru, zeroed, stale, wrapped, version, misread>>

(* Any cached key of the organisation is taken.                            *)
FaultTrustsTenant(b, ct) == TRUE

sameKey(b, ct) == wrapped[b] = ct.wrapped

(* Decrypt: the cached key serves if it is the one wrapped beside the      *)
(* body; otherwise KMS unwraps it.                                         *)
resolveDEKForDecrypt(p, ct) ==
  LET h == hit(ct.org) IN
  /\ use[p] = Resting /\ flavour = "dek"
  /\ GetByTenant(ct.org)
  /\ IF h # 0 /\ sameKey(lru[h].b, ct)
     THEN doing(p, "open", ct.org, lru[h].b, ct)
     ELSE doing(p, "unwrap", ct.org, 0, ct)
  /\ UNCHANGED <<flavour, stale, wrapped, version, sealed, misread>>
Unwrap(p) ==
  /\ use[p].pc = "unwrap"
  /\ fill(p, use[p].org, use[p].ct.wrapped)
  /\ doing(p, "open", use[p].org, Len(wrapped) + 1, use[p].ct)
  /\ UNCHANGED <<flavour, stale, version, sealed, misread>>
Decrypt(p) ==
  /\ use[p].pc = "open"
  /\ misread' = (misread \/ wrapped[use[p].b] # use[p].ct.wrapped)
  /\ rest(p)
  /\ UNCHANGED <<flavour, lru, zeroed, stale, wrapped, version, sealed>>
(* KMS or the database fails.                                              *)
KeyUnavailable(p) ==
  /\ use[p].pc \in {"generate", "unwrap"} /\ rest(p)
  /\ UNCHANGED <<flavour, lru, zeroed, stale, wrapped, version, sealed, misread>>

-----------------------------------------------------------------------------
(* A suspended or archived organisation; the eviction goroutine; time.     *)
InvalidateTenant(org) ==
  /\ flavour = "dek" /\ ofOrg(org) # {}
  /\ removeElementLocked({lru[i].b : i \in ofOrg(org)})
  /\ UNCHANGED <<flavour, stale, wrapped, version, use, sealed, misread>>

(* The sweep zeroes without unlinking.                                     *)
FaultSweepKeeps == lru' = lru /\ zeroed' = zeroed \cup stale

dropStale == removeElementLocked({lru[i].b : i \in {j \in DOMAIN lru : expired(lru[j])}})

sweepExpired ==
  /\ flavour = "dek" /\ \E i \in DOMAIN lru : expired(lru[i])
  /\ dropStale
  /\ UNCHANGED <<flavour, stale, wrapped, version, use, sealed, misread>>
TtlPasses(b) ==
  /\ b \notin stale /\ stale' = stale \cup {b}
  /\ UNCHANGED <<flavour, lru, zeroed, wrapped, version, use, sealed, misread>>
KekRotates ==
  /\ flavour = "dek" /\ version = 1 /\ version' = 2
  /\ UNCHANGED <<flavour, lru, zeroed, stale, wrapped, use, sealed, misread>>

KeyNext ==
  \/ \E p \in KeyUsers :
       \/ \E org \in Orgs : resolveDEKForEncrypt(p, org)
       \/ \E ct \in sealed : resolveDEKForDecrypt(p, ct)
       \/ GenerateDataKey(p) \/ Encrypt(p) \/ Unwrap(p) \/ Decrypt(p) \/ KeyUnavailable(p)
  \/ \E org \in Orgs : InvalidateTenant(org)
  \/ sweepExpired \/ KekRotates
  \/ \E b \in buffers : TtlPasses(b)

-----------------------------------------------------------------------------
KeyTypeOK ==
  /\ Len(lru) <= Size /\ zeroed \cup stale \subseteq buffers /\ version \in 1..2
  /\ \A i \in DOMAIN lru : lru[i].org \in Orgs /\ lru[i].b \in buffers

(* The cache never holds, and so never hands out, a key it has zeroed, and *)
(* has at most one key per organisation and KEK version (kms_cache.go).    *)
CacheHoldsLiveKeys ==
  /\ \A i \in DOMAIN lru : lru[i].b \notin zeroed
  /\ \A i, j \in DOMAIN lru : (lru[i].org = lru[j].org /\ lru[i].version = lru[j].version) => i = j

(* A ciphertext is opened with the data key that was wrapped beside it,    *)
(* whichever keys of its organisation are cached by then (kms_resolver.go  *)
(* resolveDEKForDecrypt).                                                  *)
RightKeyIsUsed == ~misread

(* Decrypt reverses Encrypt: what was sealed was sealed with the key       *)
(* wrapped beside it (api/kms.go).                                         *)
DecryptReversesEncrypt == \A ct \in sealed : ct.under = ct.wrapped
=============================================================================
