--------------------------- MODULE RefreshTokens ---------------------------
(***************************************************************************)
(* Sessions and refresh tokens: a token pair is issued at login, each      *)
(* refresh exchanges the refresh token for a new pair of the same session, *)
(* a replayed token ends the session, so does logging out.  The whitelist, *)
(* the rotated markers and the revocations are Redis keys; requests on     *)
(* several replicas interleave between their calls.                        *)
(***************************************************************************)
EXTENDS Naturals, FiniteSets

CONSTANTS
  Sids,       \* sessions
  Jtis,       \* token ids, in the order randomJTI deals them: 1..n
  Exchanges,  \* refresh and logout requests in progress at a time
  MaxRedisFaults,
  MaxSeconds  \* bound on the clock

ASSUME TokenAssumption ==
  /\ Jtis \subseteq Nat \ {0} /\ Jtis = 1..Cardinality(Jtis)
  /\ MaxRedisFaults \in Nat /\ MaxSeconds \in Nat

VARIABLES
  issued,       \* token id -> session, for the signed refresh tokens clients hold
  whitelist,    \* auth:refresh:<jti>
  rotated,      \* auth:refresh:rotated:<jti>
  revoked,      \* auth:revoke:sid:<sid>
  cutoff,       \* auth:revoke:user:<id>:cutoff: tokens signed up to this second are dead
  second,       \* the clock, in the whole seconds iat and the cutoff are kept in
  stamped,      \* token id -> iat, the second in which it was signed
  minted,       \* token ids dealt out
  exchange,     \* the requests
  exchanged,    \* token id -> rotations it was granted
  origin,       \* history: token id -> the token it was exchanged for, and the second in
                \* which that refresh passed the revocation check
  redisFaults

tokenVars == <<issued, whitelist, rotated, revoked, cutoff, second, stamped, minted, exchange,
               exchanged, origin, redisFaults>>
redisVars == <<whitelist, rotated, revoked, cutoff>>
signedVars == <<issued, stamped, origin>>

none == [pc |-> "idle", jti |-> 0]
NoOrigin == [parent |-> 0, checked |-> 0]
NoSid == "noSession"
randomJTI == minted + 1
fresh(n) == minted + n \in Jtis

TokenInit ==
  /\ issued = [j \in Jtis |-> NoSid]
  /\ whitelist = {} /\ rotated = {} /\ revoked = {} /\ cutoff = 0 /\ minted = 0
  /\ exchange = [p \in Exchanges |-> none]
  /\ second = 1 /\ stamped = [j \in Jtis |-> 0]
  /\ exchanged = [j \in Jtis |-> 0] /\ origin = [j \in Jtis |-> NoOrigin] /\ redisFaults = 0

fault == redisFaults < MaxRedisFaults /\ redisFaults' = redisFaults + 1
goto_(p, pc, j) == exchange' = [exchange EXCEPT ![p] = [pc |-> pc, jti |-> j]]
done(p) == goto_(p, "idle", 0)

(* issueFullPairWithSession: sign, then whitelist the refresh token; when  *)
(* that fails the pair is not handed out.                                  *)
Save(j) == whitelist' = whitelist \cup {j}
issueFullPairWithSession(sid) ==
  /\ fresh(1) /\ \A j \in Jtis : issued[j] # sid
  /\ minted' = randomJTI
  /\ \/ /\ Save(randomJTI)
        /\ issued' = [issued EXCEPT ![randomJTI] = sid]
        /\ stamped' = [stamped EXCEPT ![randomJTI] = second]
        /\ UNCHANGED redisFaults
     \/ fault /\ UNCHANGED <<whitelist, issued, stamped>>
  /\ UNCHANGED <<rotated, revoked, cutoff, second, exchange, exchanged, origin>>

-----------------------------------------------------------------------------
IsRevokedClaims(j) == issued[j] \in revoked \/ stamped[j] <= cutoff

(* ValidateAccessToken answers without changing anything: it is the guard  *)
(* the first step of a refresh shares with every authenticated request.    *)
ValidateAccessToken(j) == issued[j] # NoSid /\ ~IsRevokedClaims(j)

(* Refresh up to the revocation check.                                     *)
Refresh(p, j) ==
  /\ exchange[p] = none /\ issued[j] # NoSid
  /\ ValidateAccessToken(j)
  /\ fresh(1)
  /\ minted' = randomJTI
  /\ exchange' = [exchange EXCEPT ![p] = [pc |-> "rotate", jti |-> j, new |-> randomJTI, checked |-> second]]
  /\ UNCHANGED <<signedVars, redisVars, second, exchanged, redisFaults>>

(* Rotation as three commands without a script: the whitelist was read     *)
(* when the request began.                                                 *)
FaultNotAtomic(j) == "ok"

rotateScript(j) ==
  IF j \in rotated THEN "replay" ELSE IF j \notin whitelist THEN "notFound" ELSE "ok"

Rotate(p) ==
  LET j == exchange[p].jti  new == exchange[p].new  flag == rotateScript(j) IN
  /\ exchange[p].pc = "rotate"
  /\ CASE flag = "ok" ->
            /\ rotated' = rotated \cup {j}
            /\ whitelist' = (whitelist \ {j}) \cup {new}
            /\ \/ /\ exchanged' = [exchanged EXCEPT ![j] = @ + 1]
                  /\ exchange' = [exchange EXCEPT ![p] = [pc |-> "sign", jti |-> j, new |-> new,
                                                          checked |-> exchange[p].checked]]
                  /\ UNCHANGED redisFaults
               \/ fault /\ done(p) /\ UNCHANGED exchanged              \* the reply is lost
       [] flag = "replay" -> /\ goto_(p, "revoke", j)
                             /\ UNCHANGED <<rotated, whitelist, exchanged, redisFaults>>
       [] OTHER -> /\ done(p)
                   /\ UNCHANGED <<rotated, whitelist, exchanged, redisFaults>>
  /\ UNCHANGED <<signedVars, revoked, cutoff, second, minted>>

(* IssueAccess and IssueRefresh stamp the pair with the time it is by now. *)
IssueRefresh(p) ==
  LET j == exchange[p].jti  new == exchange[p].new IN
  /\ exchange[p].pc = "sign"
  /\ issued' = [issued EXCEPT ![new] = issued[j]]
  /\ stamped' = [stamped EXCEPT ![new] = second]
  /\ origin' = [origin EXCEPT ![new] = [parent |-> j, checked |-> exchange[p].checked]]
  /\ done(p)
  /\ UNCHANGED <<redisVars, second, minted, exchanged, redisFaults>>

(* A replay ends the session; when that fails it is only audited.          *)
RevokeSession(sid) == revoked \cup {sid}
AnswerReplay(p) ==
  /\ exchange[p].pc = "revoke"
  /\ \/ revoked' = RevokeSession(issued[exchange[p].jti]) /\ UNCHANGED redisFaults
     \/ fault /\ UNCHANGED revoked
  /\ done(p)
  /\ UNCHANGED <<signedVars, whitelist, rotated, cutoff, second, minted, exchanged>>

(* Logout: delete the whitelist entry (a failure is audited), then revoke  *)
(* the session (a failure is the answer).                                  *)
Delete(j) == whitelist \ {j}
Logout(p, j) ==
  /\ exchange[p] = none /\ issued[j] # NoSid
  /\ \/ whitelist' = Delete(j) /\ UNCHANGED redisFaults
     \/ fault /\ UNCHANGED whitelist
  /\ goto_(p, "logout", j)
  /\ UNCHANGED <<signedVars, rotated, revoked, cutoff, second, minted, exchanged>>
FinishLogout(p) ==
  /\ exchange[p].pc = "logout"
  /\ \/ revoked' = RevokeSession(issued[exchange[p].jti]) /\ UNCHANGED redisFaults
     \/ fault /\ UNCHANGED revoked
  /\ done(p)
  /\ UNCHANGED <<signedVars, whitelist, rotated, cutoff, second, minted, exchanged>>

(* RevokeAllForUser: every token signed in this second or before is dead;  *)
(* a refresh past its check may yet sign one later.                        *)
RevokeAllForUser ==
  /\ cutoff < second
  /\ cutoff' = second
  /\ UNCHANGED <<signedVars, whitelist, rotated, revoked, second, minted, exchange, exchanged, redisFaults>>

SecondPasses ==
  /\ second < MaxSeconds
  /\ second' = second + 1
  /\ UNCHANGED <<signedVars, redisVars, minted, exchange, exchanged, redisFaults>>

(* The whitelist entry of a token nobody used runs out.                    *)
TokenExpires(j) ==
  /\ j \in whitelist
  /\ whitelist' = whitelist \ {j}
  /\ UNCHANGED <<signedVars, rotated, revoked, cutoff, second, minted, exchange, exchanged, redisFaults>>

TokenNext ==
  \/ \E sid \in Sids : issueFullPairWithSession(sid)
  \/ \E p \in Exchanges :
       \/ \E j \in Jtis : Refresh(p, j) \/ Logout(p, j)
       \/ Rotate(p) \/ IssueRefresh(p) \/ AnswerReplay(p) \/ FinishLogout(p)
  \/ RevokeAllForUser \/ SecondPasses
  \/ \E j \in Jtis : TokenExpires(j)

TokenSpec == TokenInit /\ [][TokenNext]_tokenVars

-----------------------------------------------------------------------------
TokenTypeOK ==
  /\ issued \in [Jtis -> Sids \cup {NoSid}]
  /\ whitelist \cup rotated \subseteq Jtis
  /\ revoked \subseteq Sids /\ minted \in {0} \cup Jtis
  /\ second \in Nat /\ cutoff \in 0..second
  /\ \A p \in Exchanges : exchange[p].pc \in {"idle", "rotate", "sign", "revoke", "logout"}

(* A refresh token is exchanged at most once however many requests carry   *)
(* it at the same time, and a spent one is never whitelisted again         *)
(* (refresh_store.go rotateScript).                                        *)
ExchangedOnce == (\A j \in Jtis : exchanged[j] <= 1) /\ rotated \cap whitelist = {}

(* A revocation of all a user's sessions reaches what its tokens turn      *)
(* into: of a token it killed, a successor exists only if that refresh had *)
(* passed the revocation check by the second of the cutoff.  Such a        *)
(* successor, signed in a later second, does survive (session_revoker.go   *)
(* IsRevokedClaims, authenticator.go Refresh).                             *)
OnlyRacersSurvive ==
  \A j \in Jtis :
    LET from == origin[j] IN
    from.parent \in Jtis /\ stamped[from.parent] <= cutoff => from.checked <= cutoff

(* The state is sound, no token is exchanged twice, and a revocation       *)
(* leaves no way round it but the race (refresh_store.go, authenticator.go *)
(* Refresh and Logout).                                                    *)
TokensAreSafe == TokenTypeOK /\ ExchangedOnce /\ OnlyRacersSurvive
=============================================================================
