----------------------------- MODULE Desk_proofs -----------------------------
(***************************************************************************)
(* What overlapping requests leave of users and their second factor        *)
(* (Accounts), of refresh tokens (RefreshTokens) and of organisations      *)
(* (Tenants), for any number of each and wherever a request fails.  The    *)
(* three parts share no variable.                                          *)
(***************************************************************************)
EXTENDS Accounts, RefreshTokens, Tenants, TLAPS

-----------------------------------------------------------------------------
(* Users and their second factor.                                          *)
(*                                                                         *)
(* That a backup code is accepted once is not inductive: what matters is   *)
(* that a code is in one row at most, or about to be put there by one      *)
(* enrolment, and has not been used as long as it is (Secrets).  That the  *)
(* users flag follows the row needs a row to belong to a user who exists,  *)
(* because Create writes the flag anew (Factors), and a request that is to *)
(* clear the flag to find the factor enrolled only if it was confirmed     *)
(* since (Races).                                                          *)

User == [state : {"absent", "active", "archived"}, roles : SUBSET Roles, mustChange : BOOLEAN,
         pw : Nat, totpEnabled : BOOLEAN]
TotpRow == [secret : Nat, enrolled : BOOLEAN, codes : SUBSET (Nat \X BackupCodes)]
Selfs == {"idle", "changePassword", "enroll", "confirm", "burn", "clear"}

AccountTypes ==
  /\ users \in [Members -> User] /\ totp \in [Members -> TotpRow]
  /\ DOMAIN request = Requests
  /\ \A p \in Requests : request[p].pc \in Selfs /\ (request[p].pc # "idle" => request[p].u \in Members)
  /\ secrets \in 0..MaxSecrets /\ passwords \in 0..MaxPasswords
  /\ announced \in [Members -> Nat] /\ accepted \in [(1..MaxSecrets) \X BackupCodes -> Nat]
  /\ \A u \in Members : users[u].pw <= passwords /\ totp[u].secret <= secrets

Factors ==
  /\ \A u \in Members :
       /\ totp[u] = NoRow \/ (totp[u].secret > 0 /\ isUser(u))
       /\ totp[u].enrolled => users[u].totpEnabled \/ u \in raced
       /\ users[u].state = "archived" => announced[u] > 0
  /\ \A p \in Requests : request[p].pc = "enroll" => isUser(request[p].u)

Races ==
  \A p \in Requests : request[p].pc = "clear" /\ totp[request[p].u].enrolled => request[p].u \in raced

enrolling(p) == request[p].pc = "enroll"

Secrets ==
  /\ \A u \in Members : \A k \in totp[u].codes : k[1] = totp[u].secret /\ accepted[k] = 0
  /\ \A u, v \in Members : totp[u].secret = totp[v].secret /\ totp[u].secret > 0 => u = v
  /\ \A p \in Requests : enrolling(p) =>
       /\ request[p].secret \in 1..secrets
       /\ \A u \in Members : totp[u].secret # request[p].secret
       /\ \A c \in BackupCodes : accepted[<<request[p].secret, c>>] = 0
  /\ \A p, q \in Requests : enrolling(p) /\ enrolling(q) /\ request[p].secret = request[q].secret => p = q
  /\ \A s \in 1..MaxSecrets, c \in BackupCodes :
       accepted[<<s, c>>] <= 1 /\ (s > secrets => accepted[<<s, c>>] = 0)

AccountInv == AccountTypes /\ Factors /\ Races /\ Secrets

-----------------------------------------------------------------------------
(* The invariant holds at first.                                           *)
LEMMA NobodyThere == AccountInit => AccountInv
<1> SUFFICES ASSUME AccountInit PROVE AccountInv
  BY Zenon
<1>1. NoUser \in User /\ NoRow \in TotpRow
  BY Zenon DEF NoUser, NoRow, User, TotpRow
<1>2. /\ \A u \in Members : users[u] = NoUser /\ totp[u] = NoRow
      /\ \A p \in Requests : request[p] = Quiet
      /\ secrets = 0 /\ passwords = 0
      /\ \A s \in 1..MaxSecrets, c \in BackupCodes : accepted[<<s, c>>] = 0
  BY Zenon DEF AccountInit
<1>3. AccountTypes
  BY <1>1, <1>2, AccountsAssumption DEF AccountInit, AccountTypes, NoUser, NoRow, Quiet, Selfs
<1>4. Factors
  <2>1. ~NoRow.enrolled /\ NoUser.state # "archived" /\ Quiet.pc # "enroll"
    BY Zenon DEF NoUser, NoRow, Quiet
  <2>2. QED
    BY <1>2, <2>1, Zenon DEF Factors
<1>5. Secrets
  BY <1>2 DEF Secrets, enrolling, NoRow, Quiet
<1>6. Races
  <2>1. Quiet.pc # "clear"
    BY Zenon DEF Quiet
  <2>2. QED
    BY <1>2, <2>1, Zenon DEF Races
<1>7. QED
  BY <1>3, <1>4, <1>5, <1>6, Zenon DEF AccountInv

(* A step of the administration, or a password change: one users row.      *)
LEMMA UserStep ==
  ASSUME AccountInv, NEW u \in Members, NEW x \in User, users' = [users EXCEPT ![u] = x],
         x.state # "absent", isUser(u) => x.totpEnabled = users[u].totpEnabled,
         passwords' \in 0..MaxPasswords, passwords' >= passwords, x.pw <= passwords',
         announced' \in [Members -> Nat], \A v \in Members : announced'[v] >= announced[v],
         x.state = "archived" => announced'[u] > 0,
         DOMAIN request' = Requests, \A p \in Requests : request'[p] \in {request[p], Quiet},
         UNCHANGED <<totp, secrets, accepted, raced>>
  PROVE  AccountInv'
<1>1. /\ users \in [Members -> User] /\ users' \in [Members -> User]
      /\ users'[u] = x /\ \A v \in Members \ {u} : users'[v] = users[v]
  BY Zenon DEF AccountInv, AccountTypes
<1>2. \A p \in Requests : request'[p].pc # "idle" => request'[p] = request[p]
  BY DEF Quiet
<1>3. \A p \in Requests : request'[p].pc \in Selfs
  BY DEF Quiet, Selfs, AccountInv, AccountTypes
<1>4. AccountTypes'
  <2>1. \A v \in Members : users'[v].pw <= passwords'
    <3> SUFFICES ASSUME NEW v \in Members PROVE users'[v].pw <= passwords'
      BY Zenon
    <3>1. users[v].pw \in Nat /\ users[v].pw <= passwords /\ passwords \in Nat /\ passwords' \in Nat
      BY AccountsAssumption DEF AccountInv, AccountTypes, User
    <3>2. QED
      BY <1>1, <3>1
  <2>2. \A p \in Requests : request'[p].pc # "idle" => request'[p].u \in Members
    BY <1>2, Zenon DEF AccountInv, AccountTypes
  <2>3. QED
    BY <1>1, <1>3, <2>1, <2>2, Zenon DEF AccountInv, AccountTypes
<1>5. \A v \in Members : isUser(v) => isUser(v)'
  BY <1>1, Zenon DEF isUser
<1>6. Factors'
  <2>1. ASSUME NEW v \in Members
        PROVE  /\ totp'[v] = NoRow \/ (totp'[v].secret > 0 /\ isUser(v)')
               /\ totp'[v].enrolled => users'[v].totpEnabled \/ v \in raced'
               /\ users'[v].state = "archived" => announced'[v] > 0
    <3>1. totp'[v] = NoRow \/ (totp'[v].secret > 0 /\ isUser(v)')
      BY <1>5, Zenon DEF AccountInv, Factors
    <3>2. totp'[v].enrolled => users'[v].totpEnabled \/ v \in raced'
      <4>1. totp[v].enrolled => isUser(v) /\ (users[v].totpEnabled \/ v \in raced)
        <5>1. totp[v] = NoRow => ~totp[v].enrolled
          BY DEF NoRow
        <5>2. QED
          BY <5>1, Zenon DEF AccountInv, Factors
      <4>2. QED
        BY <1>1, <4>1, Zenon
    <3>3. users'[v].state = "archived" => announced'[v] > 0
      <4>1. announced[v] \in Nat /\ announced'[v] \in Nat /\ announced'[v] >= announced[v]
        BY Zenon DEF AccountInv, AccountTypes
      <4>2. users[v].state = "archived" => announced[v] > 0
        BY Zenon DEF AccountInv, Factors
      <4>3. QED
        BY <1>1, <4>1, <4>2
    <3>4. QED
      BY <3>1, <3>2, <3>3, Zenon
  <2>2. ASSUME NEW p \in Requests, request'[p].pc = "enroll" PROVE \A v : v = request'[p].u => isUser(v)'
    BY <1>2, <1>5, <2>2, Zenon DEF AccountInv, AccountTypes, Factors
  <2>3. QED
    BY <2>1, <2>2, Zenon DEF Factors
<1>7. \A p \in Requests : enrolling(p)' => enrolling(p) /\ request'[p] = request[p]
  BY <1>2, Zenon DEF enrolling
<1>8. Secrets'
  BY <1>7 DEF AccountInv, Secrets
<1>9. Races'
  BY <1>2, Zenon DEF AccountInv, Races
<1>10. QED
  BY <1>4, <1>6, <1>8, <1>9, Zenon DEF AccountInv

(* A request is opened, or ends.                                           *)
LEMMA RequestStep ==
  ASSUME AccountInv, NEW p \in Requests, NEW x, request' = [request EXCEPT ![p] = x],
         x.pc \in Selfs \ {"enroll"}, x.pc # "idle" => x.u \in Members,
         x.pc = "clear" => ~totp[x.u].enrolled,
         UNCHANGED <<users, totp, secrets, passwords, announced, accepted, raced>>
  PROVE  AccountInv'
<1>1. /\ DOMAIN request' = Requests /\ request'[p] = x
      /\ \A q \in Requests \ {p} : request'[q] = request[q]
  BY Zenon DEF AccountInv, AccountTypes
<1>2. AccountTypes'
  BY <1>1, Zenon DEF AccountInv, AccountTypes
<1>3. \A q \in Requests : request'[q].pc = "enroll" => request'[q] = request[q]
  BY <1>1, Zenon
<1>4. Factors'
  BY <1>3, Zenon DEF AccountInv, Factors, isUser
<1>5. \A q \in Requests : enrolling(q)' => enrolling(q) /\ request'[q] = request[q]
  BY <1>3, Zenon DEF enrolling
<1>6. Secrets'
  BY <1>5 DEF AccountInv, Secrets
<1>7. Races'
  BY <1>1, Zenon DEF AccountInv, Races
<1>8. QED
  BY <1>2, <1>4, <1>6, <1>7, Zenon DEF AccountInv

(* The secrets are numbered within their bound.                            *)
LEMMA SecretsAreNumbered == AccountInv => secrets \in Nat /\ MaxSecrets \in Nat /\ secrets <= MaxSecrets
<1>1. AccountInv => secrets \in 0..MaxSecrets
  BY Zenon DEF AccountInv, AccountTypes
<1>2. QED
  BY <1>1, AccountsAssumption

(* The secret of an enrolment was generated, is in no row, and none of its *)
(* codes has been used.                                                    *)
LEMMA SecretOfRequest ==
  ASSUME AccountInv, NEW q \in Requests, enrolling(q)
  PROVE  /\ request[q].secret \in 1..secrets
         /\ \A v \in Members : totp[v].secret # request[q].secret
         /\ \A c \in BackupCodes : accepted[<<request[q].secret, c>>] = 0
BY Zenon DEF AccountInv, Secrets

(* Enroll: the new secret is its request's alone.                          *)
LEMMA EnrollStep ==
  ASSUME AccountInv, NEW p \in Requests, NEW u \in Members, Enroll(p, u)
  PROVE  AccountInv'
<1> DEFINE x == [pc |-> "enroll", u |-> u, secret |-> secrets + 1, code |-> "none"]
<1>1. /\ isUser(u) /\ secrets < MaxSecrets /\ secrets' = secrets + 1
      /\ request' = [request EXCEPT ![p] = x]
      /\ UNCHANGED <<users, totp, passwords, announced, accepted, raced>>
  BY Zenon DEF Enroll, at
<1>2. /\ DOMAIN request' = Requests /\ request'[p] = x
      /\ \A q \in Requests \ {p} : request'[q] = request[q]
  BY <1>1, Zenon DEF AccountInv, AccountTypes
<1>3. secrets \in Nat /\ MaxSecrets \in Nat /\ secrets' \in 1..MaxSecrets
  BY <1>1, SecretsAreNumbered
<1>4. \A v \in Members : totp[v].secret \in Nat /\ totp[v].secret <= secrets
  BY Zenon DEF AccountInv, AccountTypes, TotpRow
<1>5. AccountTypes'
  <2>1. \A v \in Members : totp'[v].secret <= secrets'
    BY <1>1, <1>3, <1>4
  <2>2. \A q \in Requests : request'[q].pc \in Selfs /\ (request'[q].pc # "idle" => request'[q].u \in Members)
    BY <1>2 DEF AccountInv, AccountTypes, Selfs
  <2>3. QED
    BY <1>1, <1>2, <1>3, <2>1, <2>2 DEF AccountInv, AccountTypes
<1>6. Factors'
  BY <1>1, <1>2, ZenonT(40) DEF AccountInv, Factors, isUser
<1>7. Secrets'
  <2>1. \A v \in Members : \A k \in totp'[v].codes : k[1] = totp'[v].secret /\ accepted'[k] = 0
    BY <1>1, Zenon DEF AccountInv, Secrets
  <2>2. \A v, w \in Members : totp'[v].secret = totp'[w].secret /\ totp'[v].secret > 0 => v = w
    BY <1>1, Zenon DEF AccountInv, Secrets
  <2>3. ASSUME NEW q \in Requests, enrolling(q)'
        PROVE  /\ request'[q].secret \in 1..secrets'
               /\ \A v \in Members : totp'[v].secret # request'[q].secret
               /\ \A c \in BackupCodes : accepted'[<<request'[q].secret, c>>] = 0
    <3>1. CASE q = p
      <4>1. request'[q].secret = secrets + 1
        BY <1>2, <3>1
      <4>2. \A c \in BackupCodes : accepted[<<secrets + 1, c>>] = 0
        BY <1>1, <1>3 DEF AccountInv, Secrets
      <4>3. QED
        BY <1>1, <1>3, <1>4, <4>1, <4>2
    <3>2. CASE q # p
      <4>1. enrolling(q) /\ request'[q] = request[q]
        BY <1>2, <2>3, <3>2, Zenon DEF enrolling
      <4>2. /\ request[q].secret \in 1..secrets
            /\ \A v \in Members : totp[v].secret # request[q].secret
            /\ \A c \in BackupCodes : accepted[<<request[q].secret, c>>] = 0
        BY <4>1, SecretOfRequest, Zenon
      <4>3. request[q].secret \in 1..secrets'
        BY <1>1, <1>3, <4>2
      <4>4. QED
        BY <1>1, <4>1, <4>2, <4>3, Zenon
    <3>3. QED
      BY <3>1, <3>2, Zenon
  <2>4. ASSUME NEW q \in Requests \ {p}, enrolling(q)'
        PROVE  request'[q].secret # secrets + 1 /\ enrolling(q)
    <3>1. enrolling(q) /\ request'[q] = request[q]
      BY <1>2, <2>4, Zenon DEF enrolling
    <3>2. request[q].secret \in 1..secrets
      BY <3>1, SecretOfRequest, Zenon
    <3>3. QED
      BY <1>3, <3>1, <3>2
  <2>5. \A q, r \in Requests :
          enrolling(q)' /\ enrolling(r)' /\ request'[q].secret = request'[r].secret => q = r
    BY <1>2, <2>4 DEF AccountInv, Secrets
  <2>6. \A s \in 1..MaxSecrets, c \in BackupCodes :
          accepted'[<<s, c>>] <= 1 /\ (s > secrets' => accepted'[<<s, c>>] = 0)
    <3>1. \A s \in 1..MaxSecrets : s > secrets' => s > secrets
      BY <1>1, <1>3
    <3>2. \A s \in 1..MaxSecrets, c \in BackupCodes :
            accepted[<<s, c>>] <= 1 /\ (s > secrets => accepted[<<s, c>>] = 0)
      BY Zenon DEF AccountInv, Secrets
    <3>3. accepted' = accepted
      BY <1>1, Zenon
    <3>4. QED
      BY <3>1, <3>2, <3>3, Zenon
  <2>7. QED
    BY <2>1, <2>2, <2>3, <2>5, <2>6, Zenon DEF Secrets
<1>8. Races'
  <2>1. x.pc # "clear"
    BY Zenon
  <2> HIDE DEF x
  <2>2. QED
    BY <1>1, <1>2, <2>1, Zenon DEF AccountInv, Races
<1>9. QED
  BY <1>5, <1>6, <1>7, <1>8, Zenon DEF AccountInv

(* Upsert: the row gets the secret of the request.                         *)
LEMMA UpsertStep ==
  ASSUME AccountInv, NEW p \in Requests, Upsert(p)
  PROVE  AccountInv'
<1> DEFINE u == request[p].u
           s == request[p].secret
           x == [secret |-> s, enrolled |-> FALSE, codes |-> {s} \X BackupCodes]
<1>1. /\ enrolling(p) /\ totp' = [totp EXCEPT ![u] = x] /\ request' = [request EXCEPT ![p] = Quiet]
      /\ UNCHANGED <<users, secrets, passwords, announced, accepted, raced>>
  BY Zenon DEF Upsert, end, generateBackupCodes, enrolling
<1>2. /\ u \in Members /\ isUser(u) /\ s \in 1..secrets
      /\ \A v \in Members : totp[v].secret # s
      /\ \A c \in BackupCodes : accepted[<<s, c>>] = 0
      /\ secrets \in Nat
  <2>1. u \in Members /\ isUser(u)
    BY <1>1, Zenon DEF AccountInv, AccountTypes, Factors, enrolling
  <2>2. /\ s \in 1..secrets /\ \A v \in Members : totp[v].secret # s
        /\ \A c \in BackupCodes : accepted[<<s, c>>] = 0
    BY <1>1, SecretOfRequest, Zenon
  <2>3. secrets \in Nat
    BY SecretsAreNumbered, Zenon
  <2>4. QED
    BY <2>1, <2>2, <2>3, Zenon
<1>3. \A q \in Requests : enrolling(q) /\ request[q].secret = s => q = p
  BY <1>1, Zenon DEF AccountInv, Secrets
<1> HIDE DEF u, s
<1>4. x \in TotpRow
  BY <1>2 DEF TotpRow
<1>5. /\ totp' \in [Members -> TotpRow] /\ totp'[u] = x
      /\ \A v \in Members \ {u} : totp'[v] = totp[v]
  BY <1>1, <1>2, <1>4, Zenon DEF AccountInv, AccountTypes
<1>6. /\ DOMAIN request' = Requests /\ request'[p] = Quiet
      /\ \A q \in Requests \ {p} : request'[q] = request[q]
  BY <1>1, Zenon DEF AccountInv, AccountTypes
<1>7. AccountTypes'
  <2>1. ASSUME NEW v \in Members PROVE totp'[v].secret <= secrets'
    <3>1. totp[v].secret <= secrets
      BY Zenon DEF AccountInv, AccountTypes
    <3>2. s <= secrets
      BY <1>2
    <3>3. QED
      BY <1>1, <1>5, <3>1, <3>2, Zenon
  <2>2. ASSUME NEW q \in Requests
        PROVE  request'[q].pc \in Selfs /\ (request'[q].pc # "idle" => request'[q].u \in Members)
    <3>1. Quiet.pc = "idle" /\ Quiet.pc \in Selfs
      BY Zenon DEF Quiet, Selfs
    <3>2. request[q].pc \in Selfs /\ (request[q].pc # "idle" => request[q].u \in Members)
      BY Zenon DEF AccountInv, AccountTypes
    <3>3. QED
      BY <1>6, <3>1, <3>2, Zenon
  <2>3. QED
    BY <1>1, <1>5, <1>6, <2>1, <2>2, Zenon DEF AccountInv, AccountTypes
<1>8. Factors'
  <2>1. \A v \in Members : isUser(v)' <=> isUser(v)
    BY <1>1, Zenon DEF isUser
  <2>2. \A v \in Members : totp'[v] = NoRow \/ (totp'[v].secret > 0 /\ isUser(v)')
    <3>1. \A v \in Members \ {u} : totp'[v] = NoRow \/ (totp'[v].secret > 0 /\ isUser(v)')
      BY <1>5, <2>1, Zenon DEF AccountInv, Factors
    <3>2. totp'[u].secret > 0 /\ isUser(u)
      BY <1>2, <1>5
    <3>3. QED
      BY <1>2, <2>1, <3>1, <3>2, Zenon
  <2>3. \A v \in Members : totp'[v].enrolled => users'[v].totpEnabled \/ v \in raced'
    BY <1>1, <1>5, Zenon DEF AccountInv, Factors
  <2>4. \A q \in Requests : request'[q].pc = "enroll" => request'[q] = request[q]
    BY <1>6 DEF Quiet
  <2>5. QED
    BY <1>1, <2>1, <2>2, <2>3, <2>4, Zenon DEF AccountInv, Factors, isUser
<1>9. Secrets'
  <2>1. ASSUME NEW v \in Members, NEW k \in totp'[v].codes
        PROVE  k[1] = totp'[v].secret /\ accepted'[k] = 0
    <3>1. CASE v = u
      <4>1. totp'[v].secret = s /\ k \in {s} \X BackupCodes
        BY <1>5, <2>1, <3>1
      <4>2. PICK c \in BackupCodes : k = <<s, c>>
        BY <4>1
      <4>3. QED
        BY <1>1, <1>2, <4>1, <4>2, Zenon
    <3>2. CASE v # u
      <4>1. totp'[v] = totp[v]
        BY <1>5, <3>2, Zenon
      <4>2. k[1] = totp[v].secret /\ accepted[k] = 0
        BY <2>1, <4>1, Zenon DEF AccountInv, Secrets
      <4>3. QED
        BY <1>1, <4>1, <4>2, Zenon
    <3>3. QED
      BY <3>1, <3>2, Zenon
  <2>2. \A v, w \in Members : totp'[v].secret = totp'[w].secret /\ totp'[v].secret > 0 => v = w
    BY <1>2, <1>5 DEF AccountInv, Secrets
  <2>3. ASSUME NEW q \in Requests, enrolling(q)'
        PROVE  q # p /\ enrolling(q) /\ request'[q] = request[q]
    <3>1. Quiet.pc # "enroll"
      BY Zenon DEF Quiet
    <3>2. q # p
      BY <1>6, <2>3, <3>1, Zenon DEF enrolling
    <3>3. QED
      BY <1>6, <2>3, <3>2, Zenon DEF enrolling
  <2>4. \A q \in Requests : enrolling(q)' => \A v \in Members : totp'[v].secret # request'[q].secret
    BY <1>3, <1>5, <2>3 DEF AccountInv, Secrets
  <2>5. \A q \in Requests : enrolling(q)' =>
          /\ request'[q].secret \in 1..secrets'
          /\ \A c \in BackupCodes : accepted'[<<request'[q].secret, c>>] = 0
    <3>1. ASSUME NEW q \in Requests, enrolling(q)'
          PROVE  /\ request'[q].secret \in 1..secrets'
                 /\ \A c \in BackupCodes : accepted'[<<request'[q].secret, c>>] = 0
      <4>1. enrolling(q) /\ request'[q] = request[q]
        BY <2>3, <3>1, Zenon
      <4>2. /\ request[q].secret \in 1..secrets
            /\ \A c \in BackupCodes : accepted[<<request[q].secret, c>>] = 0
        BY <4>1, SecretOfRequest, Zenon
      <4>3. QED
        BY <1>1, <4>1, <4>2, Zenon
    <3>2. QED
      BY <3>1, Zenon
  <2>6. \A q, r \in Requests :
          enrolling(q)' /\ enrolling(r)' /\ request'[q].secret = request'[r].secret => q = r
    BY <2>3, ZenonT(40) DEF AccountInv, Secrets
  <2>7. \A t \in 1..MaxSecrets, c \in BackupCodes :
          accepted'[<<t, c>>] <= 1 /\ (t > secrets' => accepted'[<<t, c>>] = 0)
    BY <1>1, Zenon DEF AccountInv, Secrets
  <2>8. QED
    BY <2>1, <2>2, <2>4, <2>5, <2>6, <2>7, Zenon DEF Secrets
<1>10. Races'
  <2>1. ~x.enrolled /\ Quiet.pc # "clear"
    BY Zenon DEF Quiet
  <2> HIDE DEF x
  <2>2. ASSUME NEW q \in Requests, request'[q].pc = "clear", totp'[request'[q].u].enrolled
        PROVE  request'[q].u \in raced'
    <3>1. request'[q] = request[q] /\ request[q].u \in Members
      BY <1>6, <2>1, <2>2, Zenon DEF AccountInv, AccountTypes
    <3>2. totp[request[q].u].enrolled
      BY <1>5, <2>1, <2>2, <3>1, Zenon
    <3>3. request[q].pc = "clear" /\ raced' = raced
      BY <1>1, <2>2, <3>1, Zenon
    <3>4. request[q].u \in raced
      BY <3>2, <3>3, Zenon DEF AccountInv, Races
    <3>5. QED
      BY <3>1, <3>3, <3>4, Zenon
  <2>3. QED
    BY <2>2, Zenon DEF Races
<1>11. QED
  BY <1>7, <1>8, <1>9, <1>10, Zenon DEF AccountInv

(* A row is kept with its secret and no code more, or deleted: Confirm,    *)
(* Disable, the late half of one, and a code that is used up.              *)
LEMMA RowStep ==
  ASSUME AccountInv, NEW u \in Members, NEW x \in TotpRow, totp' = [totp EXCEPT ![u] = x],
         x = NoRow \/ (x.secret = totp[u].secret /\ x.codes \subseteq totp[u].codes /\ totp[u] # NoRow),
         NEW on \in BOOLEAN, users' = [users EXCEPT ![u].totpEnabled = on],
         x.enrolled => on \/ u \in raced',
         x.enrolled => \A q \in Requests : request'[q].pc = "clear" /\ request'[q].u = u => u \in raced',
         \A v \in Members \ {u} : v \in raced => v \in raced',
         DOMAIN request' = Requests, \A p \in Requests : request'[p] \in {request[p], Quiet},
         accepted' \in [(1..MaxSecrets) \X BackupCodes -> Nat],
         \A v \in Members : \A k \in totp'[v].codes : accepted'[k] = accepted[k],
         \A s \in 1..MaxSecrets, c \in BackupCodes :
           \/ accepted'[<<s, c>>] = accepted[<<s, c>>]
           \/ s = totp[u].secret /\ accepted'[<<s, c>>] <= 1,
         UNCHANGED <<secrets, passwords, announced>>
  PROVE  AccountInv'
<1>1. /\ totp \in [Members -> TotpRow] /\ totp' \in [Members -> TotpRow] /\ totp'[u] = x
      /\ \A v \in Members \ {u} : totp'[v] = totp[v]
  BY Zenon DEF AccountInv, AccountTypes
<1>2. /\ users' \in [Members -> User]
      /\ users'[u].totpEnabled = on /\ users'[u].pw = users[u].pw /\ users'[u].state = users[u].state
      /\ \A v \in Members \ {u} : users'[v] = users[v]
  <2>1. users \in [Members -> User] /\ users[u] \in User
    BY Zenon DEF AccountInv, AccountTypes
  <2>2. [users[u] EXCEPT !.totpEnabled = on] \in User
    BY <2>1, Zenon DEF User
  <2>3. users' = [users EXCEPT ![u] = [users[u] EXCEPT !.totpEnabled = on]]
    BY <2>1, Zenon
  <2>4. users'[u] = [users[u] EXCEPT !.totpEnabled = on] /\ \A v \in Members \ {u} : users'[v] = users[v]
    BY <2>1, <2>3, Zenon
  <2>5. QED
    BY <2>1, <2>2, <2>3, <2>4, ZenonT(40) DEF User
<1>3. \A v \in Members : users'[v].pw = users[v].pw /\ users'[v].state = users[v].state
  BY <1>2, Zenon
<1>4. \A v \in Members : totp'[v].secret \in {0, totp[v].secret}
  BY <1>1 DEF NoRow
<1>5. \A p \in Requests : request'[p].pc # "idle" => request'[p] = request[p]
  BY DEF Quiet
<1>6. AccountTypes'
  <2>1. \A v \in Members : users'[v].pw <= passwords' /\ totp'[v].secret <= secrets'
    BY <1>3, <1>4, AccountsAssumption DEF AccountInv, AccountTypes
  <2>2. \A p \in Requests : request'[p].pc \in Selfs /\ (request'[p].pc # "idle" => request'[p].u \in Members)
    BY <1>5, Zenon DEF AccountInv, AccountTypes, Selfs, Quiet
  <2>3. QED
    BY <1>1, <1>2, <2>1, <2>2, Zenon DEF AccountInv, AccountTypes
<1>7. Factors'
  <2>1. \A v \in Members : isUser(v)' <=> isUser(v)
    BY <1>3, Zenon DEF isUser
  <2>2. \A v \in Members : totp'[v] = NoRow \/ (totp'[v].secret > 0 /\ isUser(v)')
    BY <1>1, <2>1, Zenon DEF AccountInv, Factors
  <2>3. \A v \in Members : totp'[v].enrolled => users'[v].totpEnabled \/ v \in raced'
    BY <1>1, <1>2, ZenonT(40) DEF AccountInv, Factors
  <2>4. \A v \in Members : users'[v].state = "archived" => announced'[v] > 0
    BY <1>3, Zenon DEF AccountInv, Factors
  <2>5. ASSUME NEW p \in Requests, request'[p].pc = "enroll"
        PROVE  \A v : v = request'[p].u => isUser(v)'
    BY <1>5, <2>1, <2>5, ZenonT(40) DEF AccountInv, AccountTypes, Factors
  <2>6. QED
    BY <2>2, <2>3, <2>4, <2>5, Zenon DEF Factors
<1>8. Secrets'
  <2>1. \A v \in Members : \A k \in totp'[v].codes :
          k \in totp[v].codes /\ totp'[v].secret = totp[v].secret
    BY <1>1 DEF NoRow
  <2>2. \A v \in Members : \A k \in totp'[v].codes : k[1] = totp'[v].secret /\ accepted'[k] = 0
    BY <2>1 DEF AccountInv, Secrets
  <2>3. \A v, w \in Members : totp'[v].secret = totp'[w].secret /\ totp'[v].secret > 0 => v = w
    BY <1>4 DEF AccountInv, Secrets
  <2>4. \A q \in Requests : enrolling(q)' => enrolling(q) /\ request'[q] = request[q]
    BY <1>5, Zenon DEF enrolling
  <2>5. ASSUME NEW q \in Requests, enrolling(q)'
        PROVE  /\ request'[q].secret \in 1..secrets'
               /\ \A v \in Members : totp'[v].secret # request'[q].secret
               /\ \A c \in BackupCodes : accepted'[<<request'[q].secret, c>>] = 0
    <3>1. /\ request[q].secret \in 1..secrets /\ \A v \in Members : totp[v].secret # request[q].secret
          /\ \A c \in BackupCodes : accepted[<<request[q].secret, c>>] = 0
      BY <2>4, <2>5, Zenon DEF AccountInv, Secrets
    <3>2. request[q].secret \in 1..MaxSecrets
      BY <3>1, AccountsAssumption DEF AccountInv, AccountTypes
    <3>3. \A c \in BackupCodes : accepted'[<<request[q].secret, c>>] = 0
      BY <3>1, <3>2, Zenon
    <3>4. \A v \in Members : totp'[v].secret # request[q].secret
      BY <1>4, <3>1
    <3>5. QED
      BY <2>4, <2>5, <3>1, <3>3, <3>4, Zenon
  <2>6. \A p, q \in Requests :
          enrolling(p)' /\ enrolling(q)' /\ request'[p].secret = request'[q].secret => p = q
    BY <2>4 DEF AccountInv, Secrets
  <2>7. \A s \in 1..MaxSecrets, c \in BackupCodes :
          accepted'[<<s, c>>] <= 1 /\ (s > secrets' => accepted'[<<s, c>>] = 0)
    <3> SUFFICES ASSUME NEW s \in 1..MaxSecrets, NEW c \in BackupCodes
                 PROVE  accepted'[<<s, c>>] <= 1 /\ (s > secrets => accepted'[<<s, c>>] = 0)
      BY Zenon
    <3>1. accepted[<<s, c>>] <= 1 /\ (s > secrets => accepted[<<s, c>>] = 0)
      BY ZenonT(40) DEF AccountInv, Secrets
    <3>2. s = totp[u].secret => ~(s > secrets)
      BY AccountsAssumption DEF AccountInv, AccountTypes, TotpRow
    <3>3. QED
      BY <3>1, <3>2, Zenon
  <2>8. QED
    BY <2>2, <2>3, <2>5, <2>6, <2>7, Zenon DEF Secrets
<1>9. Races'
  <2>1. ASSUME NEW q \in Requests, request'[q].pc = "clear", totp'[request'[q].u].enrolled
        PROVE  request'[q].u \in raced'
    <3>1. request'[q] = request[q] /\ request[q].u \in Members
      <4>1. request'[q].pc # "idle"
        BY <2>1, Zenon
      <4>2. QED
        BY <1>5, <2>1, <4>1, Zenon DEF AccountInv, AccountTypes
    <3>2. CASE request[q].u = u
      BY <1>1, <2>1, <3>1, <3>2, Zenon
    <3>3. CASE request[q].u # u
      BY <1>1, <2>1, <3>1, <3>3, Zenon DEF AccountInv, Races
    <3>4. QED
      BY <3>2, <3>3, Zenon
  <2>2. QED
    BY <2>1, Zenon DEF Races
<1>10. QED
  BY <1>6, <1>7, <1>8, <1>9, Zenon DEF AccountInv

(* Confirm enrols the row there is.                                        *)
LEMMA ConfirmStep ==
  ASSUME AccountInv, NEW p \in Requests, StoreConfirm(p)
  PROVE  AccountInv'
<1> DEFINE u == request[p].u
           x == [totp[u] EXCEPT !.enrolled = TRUE]
<1>1. u \in Members /\ request' = [request EXCEPT ![p] = Quiet]
      /\ UNCHANGED <<secrets, passwords, announced, accepted>>
  BY Zenon DEF StoreConfirm, end, AccountInv, AccountTypes
<1>2. CASE totp[u] = NoRow
  BY <1>1, <1>2, RequestStep, Zenon DEF StoreConfirm, Quiet, Selfs
<1>3. CASE totp[u] # NoRow
  <2>1. /\ totp' = [totp EXCEPT ![u].enrolled = TRUE] /\ users' = [users EXCEPT ![u].totpEnabled = TRUE]
        /\ raced' = IF clearing(u) THEN raced \cup {u} ELSE raced \ {u}
    BY <1>3, Zenon DEF StoreConfirm, SetTOTPEnabled
  <2>2. totp[u] \in TotpRow /\ totp \in [Members -> TotpRow]
    BY <1>1, Zenon DEF AccountInv, AccountTypes
  <2>3. x \in TotpRow /\ x.secret = totp[u].secret /\ x.codes = totp[u].codes
    BY <2>2, Zenon DEF TotpRow
  <2>4. totp' = [totp EXCEPT ![u] = x]
    BY <2>1, Zenon
  <2>5. DOMAIN request' = Requests /\ \A q \in Requests : request'[q] \in {request[q], Quiet}
    BY <1>1, Zenon DEF AccountInv, AccountTypes
  <2>6. accepted' \in [(1..MaxSecrets) \X BackupCodes -> Nat]
    BY <1>1, Zenon DEF AccountInv, AccountTypes
  <2> HIDE DEF u, x
  <2>7. ASSUME NEW q \in Requests, request'[q].pc = "clear", request'[q].u = u PROVE u \in raced'
    <3>1. Quiet.pc # "clear"
      BY Zenon DEF Quiet
    <3>2. request'[q] = request[q]
      BY <2>5, <2>7, <3>1, Zenon
    <3>3. clearing(u)
      BY <2>7, <3>2, Zenon DEF clearing
    <3>4. QED
      BY <2>1, <3>3, Zenon
  <2>8. \A v \in Members \ {u} : v \in raced => v \in raced'
    BY <2>1, Zenon
  <2>9. QED
    BY <1>1, <1>3, <2>1, <2>3, <2>4, <2>5, <2>6, <2>7, <2>8, RowStep, Zenon
<1>4. QED
  BY <1>2, <1>3, Zenon

(* Disable deletes it.                                                     *)
LEMMA DisableStep ==
  ASSUME AccountInv, NEW u \in Members, Disable(u)
  PROVE  AccountInv'
<1>1. /\ totp' = [totp EXCEPT ![u] = NoRow] /\ users' = [users EXCEPT ![u].totpEnabled = FALSE]
      /\ raced' = raced \ {u} /\ UNCHANGED <<request, secrets, passwords, announced, accepted>>
  BY Zenon DEF Disable, deleteAndClear, SetTOTPEnabled
<1>2. NoRow \in TotpRow /\ ~NoRow.enrolled
  BY Zenon DEF NoRow, TotpRow
<1>3. DOMAIN request' = Requests /\ accepted' \in [(1..MaxSecrets) \X BackupCodes -> Nat]
  BY <1>1, Zenon DEF AccountInv, AccountTypes
<1>4. \A v \in Members \ {u} : v \in raced => v \in raced'
  BY <1>1, Zenon
<1>5. QED
  BY <1>1, <1>2, <1>3, <1>4, RowStep, Zenon

(* A Disable that found no row clears the flag all the same.               *)
LEMMA ClearStep ==
  ASSUME AccountInv, NEW p \in Requests, ClearFlag(p)
  PROVE  AccountInv'
<1> DEFINE u == request[p].u
<1>1. /\ u \in Members /\ request' = [request EXCEPT ![p] = Quiet]
      /\ users' = [users EXCEPT ![u].totpEnabled = FALSE]
      /\ UNCHANGED <<totp, secrets, passwords, announced, accepted, raced>>
      /\ totp[u].enrolled => u \in raced
  BY Zenon DEF ClearFlag, SetTOTPEnabled, end, AccountInv, AccountTypes, Races
<1>2. totp[u] \in TotpRow /\ totp \in [Members -> TotpRow]
  BY <1>1, Zenon DEF AccountInv, AccountTypes
<1>3. totp' = [totp EXCEPT ![u] = totp[u]]
  BY <1>1, <1>2, Zenon
<1>4. DOMAIN request' = Requests /\ \A q \in Requests : request'[q] \in {request[q], Quiet}
  BY <1>1, Zenon DEF AccountInv, AccountTypes
<1>5. accepted' \in [(1..MaxSecrets) \X BackupCodes -> Nat]
  BY <1>1, Zenon DEF AccountInv, AccountTypes
<1> HIDE DEF u
<1>6. raced' = raced /\ (totp[u].enrolled => u \in raced')
  BY <1>1, Zenon
<1>7. QED
  BY <1>1, <1>2, <1>3, <1>4, <1>5, <1>6, RowStep, Zenon

(* A backup code is used up.                                               *)
LEMMA BurnStep ==
  ASSUME AccountInv, NEW p \in Requests, MarkBackupUsed(p)
  PROVE  AccountInv'
<1> DEFINE u == request[p].u
           k == <<request[p].secret, request[p].code>>
           x == [totp[u] EXCEPT !.codes = @ \ {k}]
<1>1. /\ u \in Members /\ request' = [request EXCEPT ![p] = Quiet]
      /\ UNCHANGED <<users, secrets, passwords, announced, raced>>
  BY Zenon DEF MarkBackupUsed, end, AccountInv, AccountTypes
<1>2. CASE k \notin totp[u].codes
  BY <1>1, <1>2, RequestStep, Zenon DEF MarkBackupUsed, stillThere, Quiet, Selfs
<1>3. CASE k \in totp[u].codes
  <2>1. /\ totp' = [totp EXCEPT ![u].codes = @ \ {k}]
        /\ accepted' = [accepted EXCEPT ![k] = @ + 1]
    BY <1>3, Zenon DEF MarkBackupUsed, stillThere
  <2>2. totp[u] \in TotpRow /\ totp \in [Members -> TotpRow] /\ users \in [Members -> User]
    BY <1>1, Zenon DEF AccountInv, AccountTypes
  <2>3. /\ x \in TotpRow /\ x.secret = totp[u].secret /\ x.codes = totp[u].codes \ {k}
        /\ x.enrolled = totp[u].enrolled
    BY <2>2, Zenon DEF TotpRow
  <2>4. totp' = [totp EXCEPT ![u] = x]
    BY <2>1, Zenon
  <2>5. totp[u] # NoRow
    BY <1>3 DEF NoRow
  <2>6. /\ k \in Nat \X BackupCodes /\ k[1] = totp[u].secret /\ accepted[k] = 0
        /\ totp[u].secret > 0 /\ totp[u].secret <= secrets
    BY <1>1, <1>3, <2>2, <2>5, ZenonT(40) DEF AccountInv, AccountTypes, Factors, Secrets, TotpRow
  <2> HIDE DEF k
  <2>7. PICK s \in Nat, c \in BackupCodes : k = <<s, c>>
    BY <2>6
  <2>8. s = totp[u].secret /\ s \in 1..MaxSecrets
    BY <2>2, <2>6, <2>7, AccountsAssumption DEF AccountInv, AccountTypes, TotpRow
  <2>9. /\ accepted \in [(1..MaxSecrets) \X BackupCodes -> Nat]
        /\ k \in (1..MaxSecrets) \X BackupCodes
    BY <2>7, <2>8, Zenon DEF AccountInv, AccountTypes
  <2>10. /\ accepted' \in [(1..MaxSecrets) \X BackupCodes -> Nat] /\ accepted'[k] = 1
         /\ \A i \in (1..MaxSecrets) \X BackupCodes : i # k => accepted'[i] = accepted[i]
    BY <2>1, <2>6, <2>9
  <2>11. /\ totp'[u] = x /\ \A v \in Members \ {u} : totp'[v] = totp[v]
    BY <1>1, <2>2, <2>4, Zenon
  <2>12. ASSUME NEW v \in Members, NEW i \in totp'[v].codes
         PROVE  accepted'[i] = accepted[i]
    <3>1. i # k
      <4>1. CASE v = u
        BY <2>3, <2>11, <2>12, <4>1, Zenon
      <4>2. CASE v # u
        <5>1. i \in totp[v].codes /\ i[1] = totp[v].secret
          BY <2>11, <2>12, <4>2, Zenon DEF AccountInv, Secrets
        <5>2. totp[v].secret # totp[u].secret
          BY <1>1, <2>6, <4>2, Zenon DEF AccountInv, Secrets
        <5>3. QED
          BY <2>6, <5>1, <5>2, Zenon
      <4>3. QED
        BY <4>1, <4>2, Zenon
    <3>2. i \in totp[v].codes
      BY <2>3, <2>11, <2>12, Zenon
    <3>3. i \in Nat \X BackupCodes /\ i[1] = totp[v].secret /\ totp[v] # NoRow
      <4>1. totp[v] \in TotpRow
        BY <2>2, Zenon
      <4>2. i \in Nat \X BackupCodes
        BY <3>2, <4>1, Zenon DEF TotpRow
      <4>3. i[1] = totp[v].secret
        BY <3>2, Zenon DEF AccountInv, Secrets
      <4>4. totp[v] # NoRow
        BY <3>2 DEF NoRow
      <4>5. QED
        BY <4>2, <4>3, <4>4, Zenon
    <3>4. totp[v].secret \in 1..MaxSecrets
      <4>1. totp[v].secret \in Nat /\ totp[v].secret > 0 /\ totp[v].secret <= secrets
        BY <2>2, <3>3, Zenon DEF AccountInv, AccountTypes, Factors, TotpRow
      <4>2. secrets \in Nat /\ MaxSecrets \in Nat /\ secrets <= MaxSecrets
        BY SecretsAreNumbered, Zenon
      <4>3. QED
        BY <4>1, <4>2
    <3>5. i \in (1..MaxSecrets) \X BackupCodes
      BY <3>3, <3>4, Zenon
    <3>6. QED
      BY <2>10, <3>1, <3>5, Zenon
  <2>13. ASSUME NEW t \in 1..MaxSecrets, NEW d \in BackupCodes
         PROVE  \/ accepted'[<<t, d>>] = accepted[<<t, d>>]
                \/ t = totp[u].secret /\ accepted'[<<t, d>>] <= 1
    <3>1. CASE <<t, d>> = k
      BY <2>7, <2>8, <2>10, <3>1
    <3>2. CASE <<t, d>> # k
      BY <2>10, <3>2, Zenon
    <3>3. QED
      BY <3>1, <3>2, Zenon
  <2>14. DOMAIN request' = Requests /\ \A q \in Requests : request'[q] \in {request[q], Quiet}
    BY <1>1, Zenon DEF AccountInv, AccountTypes
  <2>15. /\ users' = [users EXCEPT ![u].totpEnabled = users[u].totpEnabled]
         /\ users[u].totpEnabled \in BOOLEAN /\ (x.enrolled => users[u].totpEnabled \/ u \in raced')
    <3>1. users[u] \in User
      BY <1>1, <2>2, Zenon
    <3>2. users[u] = [users[u] EXCEPT !.totpEnabled = users[u].totpEnabled]
      BY <3>1, Zenon DEF User
    <3>3. users = [users EXCEPT ![u].totpEnabled = users[u].totpEnabled]
      BY <1>1, <2>2, <3>2, Zenon
    <3>4. totp[u].enrolled => users[u].totpEnabled \/ u \in raced'
      BY <1>1, Zenon DEF AccountInv, Factors
    <3>5. QED
      BY <1>1, <2>3, <3>1, <3>3, <3>4, Zenon DEF User
  <2>16. raced' = raced
    BY <1>1, Zenon
  <2> HIDE DEF u, x
  <2>17. ASSUME x.enrolled, NEW q \in Requests, request'[q].pc = "clear", request'[q].u = u
         PROVE  u \in raced'
    <3>1. Quiet.pc # "clear"
      BY Zenon DEF Quiet
    <3>2. request'[q] = request[q]
      BY <2>14, <2>17, <3>1, Zenon
    <3>3. totp[request[q].u].enrolled /\ request[q].pc = "clear"
      BY <2>3, <2>17, <3>2, Zenon
    <3>4. request[q].u \in raced
      BY <3>3, Zenon DEF AccountInv, Races
    <3>5. QED
      BY <2>16, <2>17, <3>2, <3>4, Zenon
  <2>18. QED
    BY <1>1, <2>3, <2>4, <2>5, <2>10, <2>12, <2>13, <2>14, <2>15, <2>16, <2>17, RowStep, ZenonT(40)
<1>4. QED
  BY <1>2, <1>3, Zenon

(* A password is written.                                                  *)
LEMMA NewPassword ==
  ASSUME NEW x \in User, NEW n \in Nat, NEW must \in BOOLEAN
  PROVE  /\ [x EXCEPT !.pw = n, !.mustChange = must] \in User
         /\ [x EXCEPT !.pw = n, !.mustChange = must].state = x.state
         /\ [x EXCEPT !.pw = n, !.mustChange = must].totpEnabled = x.totpEnabled
         /\ [x EXCEPT !.pw = n, !.mustChange = must].pw = n
  BY Zenon DEF User

(* The routes of the administration.                                       *)
LEMMA AdminStep ==
  ASSUME AccountInv, AdminNext
  PROVE  AccountInv'
<1>1. PICK c \in Callers, u \in Members :
        \/ \E roles \in {{"operator"}, {"admin"}} : createUser(c, u, roles) \/ updateRoles(c, u, roles)
        \/ archiveUser(c, u) \/ restoreUser(c, u) \/ resetPassword(c, u)
  BY Zenon DEF AdminNext
<1>2. /\ users \in [Members -> User] /\ users[u] \in User /\ passwords \in 0..MaxPasswords
      /\ users[u].pw <= passwords /\ users[u].pw \in Nat /\ MaxPasswords \in Nat
      /\ announced \in [Members -> Nat] /\ announced[u] \in Nat
      /\ DOMAIN request = Requests
      /\ users[u].state = "archived" => announced[u] > 0
  BY AccountsAssumption, Zenon DEF AccountInv, AccountTypes, User, Factors
<1>3. ASSUME NEW roles \in {{"operator"}, {"admin"}}, createUser(c, u, roles) PROVE AccountInv'
  <2> DEFINE x == [state |-> "active", roles |-> roles, mustChange |-> TRUE, pw |-> passwords + 1,
                   totpEnabled |-> FALSE]
  <2>1. /\ ~isUser(u) /\ users' = [users EXCEPT ![u] = x]
        /\ passwords < MaxPasswords /\ passwords' = passwords + 1
        /\ UNCHANGED <<totp, request, secrets, accepted, raced, announced>>
    BY <1>3, Zenon DEF createUser, Create, Insert, setUser, selfVars
  <2>2. x \in User /\ x.state = "active" /\ x.pw = passwords + 1
    <3>1. passwords + 1 \in Nat /\ roles \in SUBSET Roles
      BY <1>2 DEF Roles
    <3>2. QED
      BY <3>1, Zenon DEF User
  <2>3. passwords' \in 0..MaxPasswords /\ passwords' >= passwords /\ x.pw <= passwords'
    BY <1>2, <2>1, <2>2
  <2>4. /\ announced' \in [Members -> Nat] /\ \A v \in Members : announced'[v] >= announced[v]
        /\ DOMAIN request' = Requests /\ \A p \in Requests : request'[p] \in {request[p], Quiet}
    BY <1>2, <2>1
  <2> HIDE DEF x
  <2>5. QED
    BY <2>1, <2>2, <2>3, <2>4, UserStep, Zenon
<1>4. ASSUME NEW x, users' = [users EXCEPT ![u] = x], x \in User, isUser(u), x.state # "absent",
             x.totpEnabled = users[u].totpEnabled, x.pw = users[u].pw \/ x.pw = passwords',
             \/ passwords' = passwords
             \/ passwords < MaxPasswords /\ passwords' = passwords + 1,
             \/ announced' = announced /\ x.state \in {users[u].state, "active"}
             \/ announced' = [announced EXCEPT ![u] = @ + 1],
             UNCHANGED selfVars
      PROVE  AccountInv'
  <2>1. passwords' \in 0..MaxPasswords /\ passwords' >= passwords /\ x.pw <= passwords'
    BY <1>2, <1>4
  <2>2. /\ announced' \in [Members -> Nat] /\ \A v \in Members : announced'[v] >= announced[v]
        /\ x.state = "archived" => announced'[u] > 0
    BY <1>2, <1>4
  <2>3. QED
    BY <1>2, <1>4, <2>1, <2>2, UserStep, Zenon DEF selfVars
<1>5. ASSUME NEW roles \in {{"operator"}, {"admin"}}, updateRoles(c, u, roles) PROVE AccountInv'
  <2> DEFINE x == [users[u] EXCEPT !.roles = roles]
  <2>1. /\ isUser(u) /\ users' = [users EXCEPT ![u] = x] /\ UNCHANGED <<selfVars, passwords, announced>>
    BY <1>5, Zenon DEF updateRoles, UpdateRole, UpdateRoles, setUser, adminRoute, RequireSameTenant
  <2>2. /\ x \in User /\ x.state = users[u].state /\ x.totpEnabled = users[u].totpEnabled
        /\ x.pw = users[u].pw
    BY <1>2, Zenon DEF User, Roles
  <2>3. x.state # "absent"
    BY <2>1, <2>2, Zenon DEF isUser
  <2> HIDE DEF x
  <2>4. QED
    BY <1>4, <2>1, <2>2, <2>3, Zenon
<1>6. CASE archiveUser(c, u)
  <2> DEFINE x == [users[u] EXCEPT !.state = "archived"]
  <2>1. /\ isUser(u) /\ users' = [users EXCEPT ![u] = x] /\ announced' = [announced EXCEPT ![u] = @ + 1]
        /\ UNCHANGED <<selfVars, passwords>>
    BY <1>6, Zenon DEF archiveUser, Archive, StoreArchive, appendUserDeleted, setUser, adminRoute,
                RequireSameTenant
  <2>2. /\ x \in User /\ x.state = "archived" /\ x.totpEnabled = users[u].totpEnabled
        /\ x.pw = users[u].pw
    BY <1>2, Zenon DEF User
  <2> HIDE DEF x
  <2>3. QED
    BY <1>4, <2>1, <2>2, Zenon
<1>7. CASE restoreUser(c, u)
  <2> DEFINE x == [users[u] EXCEPT !.state = "active"]
  <2>1. /\ isUser(u) /\ users' = [users EXCEPT ![u] = x] /\ UNCHANGED <<selfVars, passwords, announced>>
    BY <1>7, Zenon DEF restoreUser, Restore, StoreRestore, setUser, adminRoute, RequireSameTenant
  <2>2. /\ x \in User /\ x.state = "active" /\ x.totpEnabled = users[u].totpEnabled
        /\ x.pw = users[u].pw
    BY <1>2, Zenon DEF User
  <2> HIDE DEF x
  <2>3. QED
    BY <1>4, <2>1, <2>2, Zenon
<1>8. CASE resetPassword(c, u)
  <2> DEFINE x == [users[u] EXCEPT !.pw = passwords + 1, !.mustChange = TRUE]
  <2>1. /\ isUser(u) /\ users' = [users EXCEPT ![u] = x]
        /\ passwords < MaxPasswords /\ passwords' = passwords + 1
        /\ UNCHANGED <<selfVars, announced>>
    BY <1>8, Zenon DEF resetPassword, ResetPassword, UpdatePassword, setUser
  <2>2. /\ x \in User /\ x.state = users[u].state /\ x.totpEnabled = users[u].totpEnabled
        /\ x.pw = passwords + 1
    <3>1. passwords + 1 \in Nat
      BY <1>2
    <3>2. QED
      BY <1>2, <3>1, NewPassword, Zenon
  <2>3. x.state # "absent"
    BY <2>1, <2>2, Zenon DEF isUser
  <2> HIDE DEF x
  <2>4. QED
    BY <1>4, <2>1, <2>2, <2>3, Zenon
<1>9. QED
  BY <1>1, <1>3, <1>5, <1>6, <1>7, <1>8, Zenon

(* A user changes their own password.                                      *)
LEMMA PasswordStep ==
  ASSUME AccountInv, NEW p \in Requests, applyPasswordChange(p)
  PROVE  AccountInv'
<1> DEFINE u == request[p].u
           x == [users[u] EXCEPT !.pw = passwords + 1, !.mustChange = FALSE]
<1>1. /\ isUser(u) /\ users' = [users EXCEPT ![u] = x]
      /\ passwords < MaxPasswords /\ passwords' = passwords + 1
      /\ request' = [request EXCEPT ![p] = Quiet]
      /\ UNCHANGED <<totp, secrets, announced, accepted, raced>>
  BY Zenon DEF applyPasswordChange, UpdatePassword, setUser, end
<1>2. u \in Members
  BY Zenon DEF applyPasswordChange, AccountInv, AccountTypes
<1>3. /\ users[u] \in User /\ passwords \in 0..MaxPasswords /\ MaxPasswords \in Nat
      /\ announced \in [Members -> Nat]
      /\ users[u].state = "archived" => announced[u] > 0
  BY <1>2, AccountsAssumption, Zenon DEF AccountInv, AccountTypes, Factors
<1>4. /\ x \in User /\ x.state = users[u].state /\ x.totpEnabled = users[u].totpEnabled
      /\ x.pw = passwords + 1
  <2>1. passwords + 1 \in Nat
    BY <1>3
  <2>2. QED
    BY <1>3, <2>1, NewPassword, Zenon
<1>5. x.state # "absent"
  BY <1>1, <1>4, Zenon DEF isUser
<1>6. DOMAIN request' = Requests /\ \A q \in Requests : request'[q] \in {request[q], Quiet}
  BY <1>1, Zenon DEF AccountInv, AccountTypes
<1> HIDE DEF u, x
<1>7. passwords' \in 0..MaxPasswords /\ passwords' >= passwords /\ x.pw <= passwords'
  BY <1>1, <1>3, <1>4
<1>8. \A v \in Members : announced'[v] >= announced[v]
  BY <1>1, <1>3
<1>9. QED
  BY <1>1, <1>2, <1>3, <1>4, <1>5, <1>6, <1>7, <1>8, UserStep, Zenon

(* The requests of the users themselves.                                   *)
LEMMA SelfStep ==
  ASSUME AccountInv, SelfNext
  PROVE  AccountInv'
<1>1. ASSUME NEW p \in Requests, NEW u \in Members, NEW pc \in Selfs \ {"enroll"}, NEW s, NEW code,
             at(p, pc, u, s, code), pc = "clear" => ~totp[u].enrolled,
             UNCHANGED <<users, totp, secrets, passwords, announced, accepted, raced>>
      PROVE  AccountInv'
  <2> DEFINE x == [pc |-> pc, u |-> u, secret |-> s, code |-> code]
  <2>1. request' = [request EXCEPT ![p] = x] /\ x.pc = pc /\ x.u = u
    BY <1>1, Zenon DEF at
  <2> HIDE DEF x
  <2>2. QED
    BY <1>1, <2>1, RequestStep, Zenon
<1>2. {"changePassword", "confirm", "burn", "clear"} \subseteq Selfs \ {"enroll"}
  BY Zenon DEF Selfs
<1>3. ASSUME NEW p \in Requests, NEW u \in Members, ChangePassword(p, u)
      PROVE  AccountInv'
  BY <1>1, <1>2, <1>3, Zenon DEF ChangePassword
<1>4. ASSUME NEW p \in Requests, NEW u \in Members, Confirm(p, u)
      PROVE  AccountInv'
  BY <1>1, <1>2, <1>4, Zenon DEF Confirm
<1>5. ASSUME NEW p \in Requests, NEW u \in Members, NEW code \in BackupCodes, Verify(p, u, code)
      PROVE  AccountInv'
  BY <1>1, <1>2, <1>5, Zenon DEF Verify
<1>6. ASSUME NEW p \in Requests, NEW u \in Members, DeleteFindsNone(p, u)
      PROVE  AccountInv'
  <2>1. ~NoRow.enrolled
    BY Zenon DEF NoRow
  <2>2. QED
    BY <1>1, <1>2, <1>6, <2>1, Zenon DEF DeleteFindsNone
<1>7. QED
  BY <1>3, <1>4, <1>5, <1>6, EnrollStep, UpsertStep, ConfirmStep, DisableStep, ClearStep, BurnStep,
     PasswordStep, Zenon
     DEF SelfNext

(* The invariant is inductive.                                             *)
LEMMA AccountKeeps == AccountInv /\ [AccountNext]_accountVars => AccountInv'
<1> SUFFICES ASSUME AccountInv, [AccountNext]_accountVars PROVE AccountInv'
  BY Zenon
<1>1. CASE UNCHANGED accountVars
  <2>1. AccountTypes'
    BY <1>1, Zenon DEF accountVars, AccountInv, AccountTypes
  <2>2. Factors'
    BY <1>1, Zenon DEF accountVars, AccountInv, Factors, isUser
  <2>3. Secrets'
    BY <1>1, Zenon DEF accountVars, AccountInv, Secrets, enrolling
  <2>4. Races'
    BY <1>1, Zenon DEF accountVars, AccountInv, Races
  <2>5. QED
    BY <2>1, <2>2, <2>3, <2>4, Zenon DEF AccountInv
<1>2. QED
  BY <1>1, AdminStep, SelfStep, Zenon DEF AccountNext

(* What the invariant says of users and codes.                             *)
LEMMA AccountPromises == AccountInv => AccountTypeOK /\ AccountsAgree /\ BackupUsedOnce
<1> SUFFICES ASSUME AccountInv PROVE AccountTypeOK /\ AccountsAgree /\ BackupUsedOnce
  BY Zenon
<1>1. AccountTypeOK
  BY AccountsAssumption DEF AccountInv, AccountTypes, AccountTypeOK, User, TotpRow
<1>2. AccountsAgree
  BY Zenon DEF AccountInv, Factors, AccountsAgree
<1>3. BackupUsedOnce
  <2> SUFFICES ASSUME NEW k \in DOMAIN accepted PROVE accepted[k] <= 1
    BY Zenon DEF BackupUsedOnce
  <2>1. k \in (1..MaxSecrets) \X BackupCodes
    BY Zenon DEF AccountInv, AccountTypes
  <2>2. PICK s \in 1..MaxSecrets, c \in BackupCodes : k = <<s, c>>
    BY <2>1
  <2>3. QED
    BY <2>2, Zenon DEF AccountInv, Secrets
<1>4. QED
  BY <1>1, <1>2, <1>3, Zenon

(* For any callers, users, requests and codes: a backup code is accepted   *)
(* once, an enrolled factor is asked for unless it was confirmed between   *)
(* the two statements of a Disable that had found no row, and an archived  *)
(* account was announced (totp.go, totp_store.go, user_service.go).        *)
THEOREM FactorsAreSound == AccountSpec => []UsersAreConsistent
<1>1. AccountInv => UsersAreConsistent
  BY AccountPromises, Zenon DEF UsersAreConsistent
<1>2. QED
  BY <1>1, NobodyThere, AccountKeeps, PTL DEF AccountSpec

-----------------------------------------------------------------------------
(* Refresh tokens.                                                         *)
(*                                                                         *)
(* The script of a rotation decides on the old token and whitelists a new  *)
(* one whose id was dealt out when the request began.  Between the two any *)
(* other request may run, so the property needs Dealt: until it is signed  *)
(* the new id is known to its request alone, and a request only ever asks  *)
(* to exchange a token that a client holds.  What a revocation reaches     *)
(* needs Stamps: a refresh under way, like one that is over, took a live   *)
(* token, or passed the check no later than the cutoff that killed it.     *)

(* Ids are dealt out in order, and only dealt ids are in Redis.            *)
Ids ==
  /\ minted \in Nat
  /\ issued \in [Jtis -> Sids \cup {NoSid}]
  /\ \A j \in Jtis : issued[j] # NoSid => j <= minted
  /\ whitelist \subseteq Jtis /\ \A j \in whitelist : j <= minted
  /\ rotated \subseteq Jtis /\ \A j \in rotated : j <= minted

(* A token was exchanged no more often than it was rotated.                *)
Counts ==
  /\ exchanged \in [Jtis -> Nat]
  /\ \A j \in Jtis : exchanged[j] <= (IF j \in rotated THEN 1 ELSE 0)
  /\ rotated \cap whitelist = {}

rotating(p) == exchange[p].pc = "rotate"
pending(p) == exchange[p].pc \in {"rotate", "sign"}

Dealt ==
  /\ DOMAIN exchange = Exchanges
  /\ \A p \in Exchanges : pending(p) =>
       /\ exchange[p].jti \in Jtis /\ issued[exchange[p].jti] # NoSid
       /\ exchange[p].new \in Jtis /\ issued[exchange[p].new] = NoSid
       /\ exchange[p].new <= minted
  /\ \A p \in Exchanges : rotating(p) => exchange[p].new \notin whitelist \cup rotated
  /\ \A p, q \in Exchanges : pending(p) /\ pending(q) /\ exchange[p].new = exchange[q].new => p = q

TokenInv == Ids /\ Counts /\ Dealt

-----------------------------------------------------------------------------
(* Nothing has been dealt out at first.                                    *)
LEMMA NothingDealt == TokenInit => TokenInv
BY DEF TokenInit, TokenInv, Ids, Counts, Dealt, pending, rotating, none

(* Token ids are numbers.                                                  *)
LEMMA IdsAreNumbers == Jtis \subseteq Nat
BY TokenAssumption, Zenon

(* The next id has not been dealt out.                                     *)
LEMMA NextId ==
  ASSUME Ids, fresh(1)
  PROVE  /\ randomJTI \in Jtis /\ randomJTI = minted + 1 /\ randomJTI \in Nat
         /\ issued[randomJTI] = NoSid /\ randomJTI \notin whitelist \cup rotated
BY TokenAssumption DEF Ids, fresh, randomJTI

(* A login deals an id and whitelists it, or fails to.                     *)
LEMMA IssueStep ==
  ASSUME TokenInv, NEW sid \in Sids, issueFullPairWithSession(sid)
  PROVE  TokenInv'
<1>1. /\ randomJTI \in Jtis /\ randomJTI = minted + 1 /\ randomJTI \in Nat
      /\ issued[randomJTI] = NoSid /\ randomJTI \notin whitelist \cup rotated
  BY NextId, Zenon DEF TokenInv, issueFullPairWithSession
<1>2. /\ minted' = minted + 1 /\ UNCHANGED <<rotated, exchange, exchanged>>
      /\ whitelist' \in {whitelist, whitelist \cup {randomJTI}}
      /\ issued' \in {issued, [issued EXCEPT ![randomJTI] = sid]}
  BY <1>1, Zenon DEF issueFullPairWithSession, Save
<1>3. Ids'
  BY <1>1, <1>2, TokenAssumption DEF TokenInv, Ids
<1>4. Counts'
  BY <1>1, <1>2, ZenonT(40) DEF TokenInv, Counts
<1>5. \A j \in Jtis : j <= minted => issued'[j] = issued[j] /\ j # randomJTI
  BY <1>1, <1>2, TokenAssumption DEF TokenInv, Ids
<1>6. \A p \in Exchanges : pending(p) => exchange[p].jti <= minted
  BY Zenon DEF TokenInv, Ids, Dealt
<1>7. Dealt'
  <2>1. ASSUME NEW p \in Exchanges, pending(p)
        PROVE  /\ issued'[exchange[p].jti] # NoSid /\ issued'[exchange[p].new] = NoSid
               /\ exchange[p].new <= minted' /\ exchange[p].new # randomJTI
    <3>1. exchange[p].jti \in Jtis /\ exchange[p].new \in Jtis /\ exchange[p].new \in Nat
          /\ exchange[p].new <= minted /\ exchange[p].jti <= minted
      BY <2>1, <1>6, IdsAreNumbers, Zenon DEF TokenInv, Dealt
    <3>2. exchange[p].new <= minted'
      BY <3>1, <1>2 DEF TokenInv, Ids
    <3>3. QED
      BY <2>1, <3>1, <3>2, <1>5, <1>2, Zenon DEF TokenInv, Dealt
  <2>2. ASSUME NEW p \in Exchanges, rotating(p)
        PROVE  exchange[p].new \notin whitelist' \cup rotated'
    BY <2>1, <2>2, <1>2, Zenon DEF TokenInv, Dealt, pending, rotating
  <2>3. QED
    BY <2>1, <2>2, <1>2, Zenon DEF TokenInv, Dealt, pending, rotating
<1>8. QED
  BY <1>3, <1>4, <1>7, Zenon DEF TokenInv

(* A refresh deals the id of the pair it may obtain.                       *)
LEMMA RefreshStep ==
  ASSUME TokenInv, NEW p \in Exchanges, NEW j \in Jtis, Refresh(p, j)
  PROVE  TokenInv'
<1>1. /\ randomJTI \in Jtis /\ randomJTI = minted + 1 /\ randomJTI \in Nat
      /\ issued[randomJTI] = NoSid /\ randomJTI \notin whitelist \cup rotated
  BY NextId, Zenon DEF TokenInv, Refresh
<1>2. /\ minted' = minted + 1 /\ UNCHANGED <<issued, whitelist, rotated, exchanged>>
      /\ exchange' = [exchange EXCEPT ![p] =
                         [pc |-> "rotate", jti |-> j, new |-> randomJTI, checked |-> second]]
      /\ issued[j] # NoSid
  BY <1>1, Zenon DEF Refresh, redisVars, signedVars
<1>3. Ids' /\ Counts'
  BY <1>1, <1>2, TokenAssumption DEF TokenInv, Ids, Counts
<1>4. /\ DOMAIN exchange' = Exchanges
      /\ exchange'[p].pc = "rotate" /\ exchange'[p].jti = j /\ exchange'[p].new = randomJTI
      /\ \A q \in Exchanges : q # p => exchange'[q] = exchange[q]
  BY <1>2, Zenon DEF TokenInv, Dealt
<1>5. \A q \in Exchanges : pending(q) =>
        exchange[q].new # randomJTI /\ exchange[q].new <= minted'
  <2>1. \A q \in Exchanges : pending(q) => exchange[q].new \in Nat /\ exchange[q].new <= minted
    BY IdsAreNumbers, Zenon DEF TokenInv, Dealt
  <2>2. QED
    BY <2>1, <1>1, <1>2 DEF TokenInv, Ids
<1>6. Dealt'
  BY <1>1, <1>2, <1>4, <1>5 DEF TokenInv, Dealt, pending, rotating
<1>7. QED
  BY <1>3, <1>6, Zenon DEF TokenInv

(* A request that does not rotate leaves Redis' tokens alone or takes some *)
(* from the whitelist.                                                     *)
LEMMA QuietStep ==
  ASSUME TokenInv, UNCHANGED <<issued, rotated, minted, exchanged>>, whitelist' \subseteq whitelist,
         \/ exchange' = exchange
         \/ \E p \in Exchanges, pc \in {"idle", "revoke", "logout"} : \E j : goto_(p, pc, j)
  PROVE  TokenInv'
<1>1. DOMAIN exchange' = Exchanges /\ \A q \in Exchanges : pending(q)' => exchange'[q] = exchange[q]
  BY DEF TokenInv, Dealt, pending, goto_
<1>2. Ids' /\ Counts'
  BY Zenon DEF TokenInv, Ids, Counts
<1>3. Dealt'
  <2>1. \A q \in Exchanges : pending(q)' => pending(q)
    BY <1>1, Zenon DEF pending
  <2>2. \A q \in Exchanges : rotating(q)' => pending(q)' /\ rotating(q)
    BY <1>1, Zenon DEF pending, rotating
  <2>3. UNCHANGED <<issued, rotated, minted>>
    BY Zenon
  <2>4. \A p \in Exchanges : pending(p)' =>
          /\ exchange'[p].jti \in Jtis /\ issued'[exchange'[p].jti] # NoSid
          /\ exchange'[p].new \in Jtis /\ issued'[exchange'[p].new] = NoSid
          /\ exchange'[p].new <= minted'
    BY <1>1, <2>1, <2>3, Zenon DEF TokenInv, Dealt
  <2>5. \A p \in Exchanges : rotating(p)' => exchange'[p].new \notin whitelist' \cup rotated'
    BY <1>1, <2>2, <2>3, Zenon DEF TokenInv, Dealt
  <2>6. \A p, q \in Exchanges : pending(p)' /\ pending(q)' /\ exchange'[p].new = exchange'[q].new => p = q
    BY <1>1, <2>1, Zenon DEF TokenInv, Dealt
  <2>7. QED
    BY <1>1, <2>4, <2>5, <2>6, Zenon DEF Dealt, pending, rotating
<1>4. QED
  BY <1>2, <1>3, Zenon DEF TokenInv

(* The script: a token that is whitelisted was never rotated, so this is   *)
(* its first exchange, and the id that takes its place is nobody else's.   *)
LEMMA RotateStep ==
  ASSUME TokenInv, NEW p \in Exchanges, Rotate(p)
  PROVE  TokenInv'
<1> DEFINE j == exchange[p].jti
           new == exchange[p].new
<1>0. /\ rotating(p) /\ pending(p) /\ j \in Jtis /\ new \in Jtis
      /\ issued[j] # NoSid /\ issued[new] = NoSid /\ j # new
      /\ new <= minted /\ new \notin whitelist \cup rotated
  BY Zenon DEF Rotate, rotating, pending, TokenInv, Dealt
<1>1. CASE rotateScript(j) = "ok"
  <2>1. j \in whitelist /\ j \notin rotated
    BY <1>1, Zenon DEF rotateScript
  <2>2. /\ rotated' = rotated \cup {j} /\ whitelist' = (whitelist \ {j}) \cup {new}
        /\ \/ exchanged' = [exchanged EXCEPT ![j] = @ + 1]
           \/ UNCHANGED exchanged
        /\ minted' = minted /\ issued' = issued
        /\ \/ exchange' = [exchange EXCEPT ![p] = [pc |-> "sign", jti |-> j, new |-> new,
                                                  checked |-> exchange[p].checked]]
           \/ done(p)
    BY <1>1, Zenon DEF Rotate, signedVars
  <2>3. Ids'
    BY <1>0, <2>1, <2>2, Zenon DEF TokenInv, Ids
  <2>4. exchanged[j] = 0
    BY <1>0, <2>1 DEF TokenInv, Counts
  <2>5. Counts'
    BY <1>0, <2>1, <2>2, <2>4 DEF TokenInv, Counts
  <2>6. DOMAIN exchange' = Exchanges /\ \A q \in Exchanges \ {p} : exchange'[q] = exchange[q]
    BY <2>2, Zenon DEF TokenInv, Dealt, done, goto_
  <2>7. exchange'[p].pc # "rotate" /\ (exchange'[p].pc = "sign" => exchange'[p].jti = j /\ exchange'[p].new = new)
    BY <2>2 DEF TokenInv, Dealt, done, goto_
  <2>8. ASSUME NEW q \in Exchanges, pending(q)'
        PROVE  pending(q) /\ exchange'[q].jti = exchange[q].jti /\ exchange'[q].new = exchange[q].new
    <3>1. CASE q = p
      BY <2>8, <3>1, <1>0, <2>7, Zenon DEF pending
    <3>2. CASE q # p
      BY <2>8, <3>2, <2>6, Zenon DEF pending
    <3>3. QED
      BY <3>1, <3>2, Zenon
  <2>9. ASSUME NEW q \in Exchanges, rotating(q)'
        PROVE  exchange'[q].new \notin whitelist' \cup rotated'
    <3>1. q # p /\ exchange'[q] = exchange[q] /\ rotating(q) /\ pending(q)
      BY <2>9, <2>6, <2>7, Zenon DEF rotating, pending
    <3>2. /\ exchange[q].new \notin whitelist \cup rotated
          /\ exchange[q].new # new /\ exchange[q].new # j
      BY <3>1, <1>0, Zenon DEF TokenInv, Dealt
    <3>3. QED
      BY <3>1, <3>2, <2>2, Zenon
  <2>10. ASSUME NEW q \in Exchanges, pending(q)'
         PROVE  /\ exchange'[q].jti \in Jtis /\ issued'[exchange'[q].jti] # NoSid
                /\ exchange'[q].new \in Jtis /\ issued'[exchange'[q].new] = NoSid
                /\ exchange'[q].new <= minted'
    BY <2>8, <2>10, <2>2, Zenon DEF TokenInv, Dealt
  <2>11. \A q, r \in Exchanges :
           pending(q)' /\ pending(r)' /\ exchange'[q].new = exchange'[r].new => q = r
    BY <2>8, Zenon DEF TokenInv, Dealt
  <2>12. Dealt'
    BY <2>6, <2>9, <2>10, <2>11, Zenon DEF Dealt, rotating, pending
  <2>13. QED
    BY <2>3, <2>5, <2>12, Zenon DEF TokenInv
<1>2. CASE rotateScript(j) # "ok"
  <2>1. /\ UNCHANGED <<issued, rotated, minted, exchanged, whitelist>>
        /\ goto_(p, "revoke", j) \/ goto_(p, "idle", 0)
    BY <1>2, Zenon DEF Rotate, done, signedVars
  <2>2. QED
    BY <2>1, QuietStep, Zenon
<1>3. QED
  BY <1>1, <1>2, Zenon

(* The new token is signed under the id its request alone knows.           *)
LEMMA SignStep ==
  ASSUME TokenInv, NEW p \in Exchanges, IssueRefresh(p)
  PROVE  TokenInv'
<1> DEFINE j == exchange[p].jti
           new == exchange[p].new
<1>0. /\ pending(p) /\ j \in Jtis /\ new \in Jtis /\ new <= minted
      /\ issued[j] # NoSid /\ issued[new] = NoSid
  BY Zenon DEF IssueRefresh, pending, TokenInv, Dealt
<1>1. /\ issued' = [issued EXCEPT ![new] = issued[j]] /\ done(p)
      /\ UNCHANGED <<whitelist, rotated, minted, exchanged>>
  BY Zenon DEF IssueRefresh, redisVars
<1>2. Ids' /\ Counts'
  BY <1>0, <1>1, Zenon DEF TokenInv, Ids, Counts
<1>3. /\ DOMAIN exchange' = Exchanges
      /\ \A q \in Exchanges : pending(q)' => q # p /\ exchange'[q] = exchange[q] /\ pending(q)
  BY <1>1, Zenon DEF TokenInv, Dealt, pending, done, goto_
<1>4. /\ \A k \in Jtis : k # new => issued'[k] = issued[k]
      /\ \A k \in Jtis : issued[k] # NoSid => issued'[k] # NoSid
  BY <1>0, <1>1, Zenon DEF TokenInv, Ids
<1>5. ASSUME NEW q \in Exchanges, pending(q)'
      PROVE  /\ exchange'[q].jti \in Jtis /\ issued'[exchange'[q].jti] # NoSid
             /\ exchange'[q].new \in Jtis /\ issued'[exchange'[q].new] = NoSid
             /\ exchange'[q].new <= minted'
  <2>1. q # p /\ exchange'[q] = exchange[q] /\ pending(q)
    BY <1>3, <1>5, Zenon
  <2>2. exchange[q].new # new
    BY <2>1, <1>0, Zenon DEF TokenInv, Dealt
  <2>3. QED
    BY <2>1, <2>2, <1>1, <1>4, Zenon DEF TokenInv, Dealt
<1>6. \A q \in Exchanges : rotating(q)' => exchange'[q].new \notin whitelist' \cup rotated'
  <2>1. \A q \in Exchanges : rotating(q)' => exchange'[q] = exchange[q] /\ rotating(q)
    BY <1>3, Zenon DEF rotating, pending
  <2>2. QED
    BY <2>1, <1>1, Zenon DEF TokenInv, Dealt
<1>7. \A q, r \in Exchanges : pending(q)' /\ pending(r)' /\ exchange'[q].new = exchange'[r].new => q = r
  <2>1. \A q \in Exchanges : pending(q)' => pending(q) /\ exchange'[q].new = exchange[q].new
    BY <1>3, Zenon
  <2>2. QED
    BY <2>1, Zenon DEF TokenInv, Dealt
<1>8. Dealt'
  BY <1>3, <1>5, <1>6, <1>7, Zenon DEF Dealt, rotating, pending
<1>9. QED
  BY <1>2, <1>8, Zenon DEF TokenInv

(* The invariant of the refresh tokens is inductive.                       *)
THEOREM TokenInvariance == TokenSpec => []TokenInv
<1>1. TokenInv /\ [TokenNext]_tokenVars => TokenInv'
  <2> SUFFICES ASSUME TokenInv, [TokenNext]_tokenVars PROVE TokenInv'
    BY Zenon
  <2>1. ASSUME NEW p \in Exchanges, NEW j \in Jtis, Logout(p, j) PROVE TokenInv'
    BY <2>1, QuietStep, Zenon DEF Logout, Delete, signedVars
  <2>2. ASSUME NEW p \in Exchanges, AnswerReplay(p) \/ FinishLogout(p) PROVE TokenInv'
    BY <2>2, QuietStep, Zenon DEF AnswerReplay, FinishLogout, done, signedVars
  <2>3. ASSUME RevokeAllForUser \/ SecondPasses PROVE TokenInv'
    BY <2>3, QuietStep, Zenon DEF RevokeAllForUser, SecondPasses, redisVars, signedVars
  <2>4. ASSUME NEW j \in Jtis, TokenExpires(j) PROVE TokenInv'
    BY <2>4, QuietStep, Zenon DEF TokenExpires, signedVars
  <2>5. ASSUME UNCHANGED tokenVars PROVE TokenInv'
    BY <2>5, QuietStep, Zenon DEF tokenVars
  <2>6. QED
    BY <2>1, <2>2, <2>3, <2>4, <2>5, IssueStep, RefreshStep, RotateStep, SignStep, Zenon DEF TokenNext
<1>2. QED
  BY NothingDealt, <1>1, PTL DEF TokenSpec

(* A request that is to revoke a session holds a token that was issued, so *)
(* only sessions are revoked.                                              *)
Steps == {"idle", "rotate", "sign", "revoke", "logout"}
Sessions ==
  /\ revoked \subseteq Sids /\ minted \in {0} \cup Jtis
  /\ \A p \in Exchanges :
       /\ exchange[p].pc \in Steps
       /\ exchange[p].pc \in {"revoke", "logout"} =>
            exchange[p].jti \in Jtis /\ issued[exchange[p].jti] # NoSid

(* A request that passed the revocation check in a second with a token     *)
(* that was alive, or is dead since a cutoff no earlier than that.         *)
racer(parent, checked) ==
  /\ parent \in Jtis /\ issued[parent] # NoSid
  /\ checked \in Nat /\ checked <= second
  /\ stamped[parent] <= cutoff => checked <= cutoff

Stamps ==
  /\ second \in Nat /\ cutoff \in 0..second
  /\ stamped \in [Jtis -> Nat] /\ DOMAIN origin = Jtis
  /\ \A j \in Jtis : origin[j].parent \in Jtis => racer(origin[j].parent, origin[j].checked)
  /\ \A p \in Exchanges : pending(p) => racer(exchange[p].jti, exchange[p].checked)

(* An issued token stays issued, with the stamp it has; nobody issues one  *)
(* that is issued.                                                         *)
LEMMA IssuedStays ==
  ASSUME TokenInv, Stamps, TokenNext \/ UNCHANGED tokenVars, NEW j \in Jtis, issued[j] # NoSid
  PROVE  issued'[j] = issued[j] /\ stamped'[j] = stamped[j]
<1>0. j \in Nat /\ j <= minted /\ issued \in [Jtis -> Sids \cup {NoSid}] /\ stamped \in [Jtis -> Nat]
      /\ minted \in Nat
  BY IdsAreNumbers, Zenon DEF TokenInv, Ids, Stamps
<1>1. ASSUME NEW sid \in Sids, issueFullPairWithSession(sid)
      PROVE  issued'[j] = issued[j] /\ stamped'[j] = stamped[j]
  <2>1. j # randomJTI
    BY <1>0 DEF randomJTI
  <2>2. \/ /\ issued' = [issued EXCEPT ![randomJTI] = sid]
           /\ stamped' = [stamped EXCEPT ![randomJTI] = second]
        \/ issued' = issued /\ stamped' = stamped
    BY <1>1, Zenon DEF issueFullPairWithSession
  <2>3. QED
    BY <1>0, <2>1, <2>2, Zenon
<1>2. ASSUME NEW p \in Exchanges, IssueRefresh(p)
      PROVE  issued'[j] = issued[j] /\ stamped'[j] = stamped[j]
  <2>1. exchange[p].new # j
    BY <1>2, Zenon DEF IssueRefresh, TokenInv, Dealt, pending
  <2>2. QED
    BY <1>0, <1>2, <2>1, Zenon DEF IssueRefresh
<1>3. ASSUME UNCHANGED signedVars
      PROVE  issued'[j] = issued[j] /\ stamped'[j] = stamped[j]
  BY <1>3, Zenon DEF signedVars
<1>4. ASSUME NEW p \in Exchanges, NEW i \in Jtis, Refresh(p, i) \/ Logout(p, i) PROVE UNCHANGED signedVars
  BY <1>4, Zenon DEF Refresh, Logout
<1>5. ASSUME NEW p \in Exchanges, Rotate(p) \/ AnswerReplay(p) \/ FinishLogout(p) PROVE UNCHANGED signedVars
  BY <1>5, Zenon DEF Rotate, AnswerReplay, FinishLogout
<1>6. ASSUME RevokeAllForUser \/ SecondPasses \/ (\E i \in Jtis : TokenExpires(i)) PROVE UNCHANGED signedVars
  BY <1>6, Zenon DEF RevokeAllForUser, SecondPasses, TokenExpires
<1>7. ASSUME UNCHANGED tokenVars PROVE UNCHANGED signedVars
  BY <1>7, Zenon DEF tokenVars, signedVars
<1>8. QED
  BY <1>1, <1>2, <1>3, <1>4, <1>5, <1>6, <1>7, Zenon DEF TokenNext

(* A request that moves on holds an issued token when it is to revoke.     *)
LEMMA SessionsMove ==
  ASSUME TokenInv, Sessions, NEW p \in Exchanges, NEW x,
         exchange' = [exchange EXCEPT ![p] = x], x.pc \in Steps,
         x.pc \in {"revoke", "logout"} => x.jti \in Jtis /\ issued[x.jti] # NoSid,
         \A j \in Jtis : issued[j] # NoSid => issued'[j] # NoSid,
         revoked' \subseteq Sids, minted' \in {0} \cup Jtis
  PROVE  Sessions'
<1>1. DOMAIN exchange = Exchanges
  BY Zenon DEF TokenInv, Dealt
<1>2. /\ exchange'[p] = x
      /\ \A q \in Exchanges \ {p} : exchange'[q] = exchange[q]
  BY <1>1, Zenon
<1>3. ASSUME NEW q \in Exchanges
      PROVE  /\ exchange'[q].pc \in Steps
             /\ exchange'[q].pc \in {"revoke", "logout"} =>
                  exchange'[q].jti \in Jtis /\ issued'[exchange'[q].jti] # NoSid
  <2>1. CASE q = p
    BY <1>2, <2>1, Zenon
  <2>2. CASE q # p
    BY <1>2, <2>2, Zenon DEF Sessions
  <2>3. QED
    BY <2>1, <2>2, Zenon
<1>4. QED
  BY <1>3, Zenon DEF Sessions, Steps

(* Sessions is inductive beside the invariant.                             *)
LEMMA SessionsKept == TokenInv /\ Sessions /\ Stamps /\ [TokenNext]_tokenVars => Sessions'
<1> SUFFICES ASSUME TokenInv, Sessions, Stamps, TokenNext \/ UNCHANGED tokenVars PROVE Sessions'
  BY Zenon
<1>0. /\ revoked \subseteq Sids /\ minted \in {0} \cup Jtis
      /\ issued \in [Jtis -> Sids \cup {NoSid}]
      /\ \A j \in Jtis : issued[j] # NoSid => issued'[j] # NoSid
  BY IssuedStays, Zenon DEF TokenInv, Ids, Sessions
<1>a. ASSUME fresh(1), minted' = randomJTI PROVE minted' \in {0} \cup Jtis
  BY <1>a, Zenon DEF fresh, randomJTI
<1>1. ASSUME NEW sid \in Sids, issueFullPairWithSession(sid) PROVE Sessions'
  <2>1. minted' \in {0} \cup Jtis /\ UNCHANGED <<revoked, exchange>>
    BY <1>1, <1>a, Zenon DEF issueFullPairWithSession
  <2>2. revoked' = revoked /\ exchange' = exchange
    BY <2>1, Zenon
  <2>3. QED
    BY <1>0, <2>1, <2>2, Zenon DEF Sessions
<1>2. ASSUME NEW p \in Exchanges, NEW j \in Jtis, Refresh(p, j) PROVE Sessions'
  <2> DEFINE x == [pc |-> "rotate", jti |-> j, new |-> randomJTI, checked |-> second]
  <2>1. /\ minted' \in {0} \cup Jtis /\ revoked' \subseteq Sids
        /\ exchange' = [exchange EXCEPT ![p] = x]
    BY <1>0, <1>2, <1>a, Zenon DEF Refresh, redisVars
  <2>2. x.pc = "rotate"
    BY Zenon
  <2> HIDE DEF x
  <2>3. QED
    BY <1>0, <2>1, <2>2, SessionsMove, Zenon DEF Steps
<1>3. ASSUME NEW p \in Exchanges, NEW j \in Jtis, Logout(p, j) PROVE Sessions'
  <2> DEFINE x == [pc |-> "logout", jti |-> j]
  <2>1. /\ UNCHANGED <<revoked, minted>> /\ issued[j] # NoSid
        /\ exchange' = [exchange EXCEPT ![p] = x]
    BY <1>3, Zenon DEF Logout, goto_
  <2>2. x.pc = "logout" /\ x.jti = j
    BY Zenon
  <2> HIDE DEF x
  <2>3. QED
    BY <1>0, <2>1, <2>2, SessionsMove, Zenon DEF Steps
<1>4. ASSUME NEW p \in Exchanges, Rotate(p) PROVE Sessions'
  <2>1. UNCHANGED <<revoked, minted>> /\ exchange[p].pc = "rotate"
    BY <1>4, Zenon DEF Rotate
  <2>2. exchange[p].jti \in Jtis /\ issued[exchange[p].jti] # NoSid /\ DOMAIN exchange = Exchanges
    BY <2>1, Zenon DEF TokenInv, Dealt, pending
  <2>3. \/ exchange' = [exchange EXCEPT ![p] = [pc |-> "sign", jti |-> exchange[p].jti, new |-> exchange[p].new,
                                               checked |-> exchange[p].checked]]
        \/ exchange' = [exchange EXCEPT ![p] = [pc |-> "idle", jti |-> 0]]
        \/ exchange' = [exchange EXCEPT ![p] = [pc |-> "revoke", jti |-> exchange[p].jti]]
    BY <1>4, Zenon DEF Rotate, done, goto_
  <2>4. ASSUME NEW x, x.pc \in {"idle", "sign"} \/ (x.pc = "revoke" /\ x.jti = exchange[p].jti),
               exchange' = [exchange EXCEPT ![p] = x]
        PROVE  Sessions'
    BY <1>0, <2>1, <2>2, <2>4, SessionsMove, Zenon DEF Steps
  <2>5. /\ [pc |-> "idle", jti |-> 0].pc = "idle"
        /\ [pc |-> "revoke", jti |-> exchange[p].jti].pc = "revoke"
        /\ [pc |-> "revoke", jti |-> exchange[p].jti].jti = exchange[p].jti
        /\ [pc |-> "sign", jti |-> exchange[p].jti, new |-> exchange[p].new,
            checked |-> exchange[p].checked].pc = "sign"
    BY Zenon
  <2>6. QED
    BY <2>3, <2>4, <2>5, Zenon
<1>5. ASSUME NEW p \in Exchanges, AnswerReplay(p) \/ FinishLogout(p) \/ IssueRefresh(p) PROVE Sessions'
  <2>1. /\ UNCHANGED minted
        /\ \/ revoked' = revoked
           \/ revoked' = revoked \cup {issued[exchange[p].jti]} /\ exchange[p].pc \in {"revoke", "logout"}
        /\ exchange' = [exchange EXCEPT ![p] = [pc |-> "idle", jti |-> 0]]
    BY <1>5, Zenon DEF AnswerReplay, FinishLogout, IssueRefresh, RevokeSession, done, goto_, redisVars
  <2>2. exchange[p].pc \in {"revoke", "logout"} => exchange[p].jti \in Jtis /\ issued[exchange[p].jti] # NoSid
    BY <2>1, Zenon DEF Sessions
  <2>3. revoked' \subseteq Sids
    BY <1>0, <2>1, <2>2
  <2>4. [pc |-> "idle", jti |-> 0].pc = "idle"
    BY Zenon
  <2>5. QED
    BY <1>0, <2>1, <2>3, <2>4, SessionsMove, Zenon DEF Steps
<1>6. ASSUME minted' = minted, exchange' = exchange, revoked' = revoked PROVE Sessions'
  BY <1>0, <1>6, Zenon DEF Sessions
<1>7. ASSUME RevokeAllForUser \/ SecondPasses \/ (\E j \in Jtis : TokenExpires(j)) \/ UNCHANGED tokenVars
      PROVE  minted' = minted /\ exchange' = exchange /\ revoked' = revoked
  BY <1>7, Zenon DEF RevokeAllForUser, SecondPasses, TokenExpires, redisVars, tokenVars
<1>8. QED
  BY <1>1, <1>2, <1>3, <1>4, <1>5, <1>6, <1>7, Zenon DEF TokenNext

(* The clock goes on, and a cutoff is set to what it shows.                *)
LEMMA CutoffMoves ==
  ASSUME Stamps, TokenNext \/ UNCHANGED tokenVars
  PROVE  /\ second' \in Nat /\ second <= second' /\ cutoff' \in 0..second'
         /\ cutoff' = cutoff \/ cutoff' = second
<1>1. ASSUME second' = second, cutoff' = cutoff
      PROVE  /\ second' \in Nat /\ second <= second' /\ cutoff' \in 0..second'
             /\ cutoff' = cutoff \/ cutoff' = second
  BY <1>1 DEF Stamps
<1>2. ASSUME NEW p \in Exchanges,
             \/ Rotate(p) \/ IssueRefresh(p) \/ AnswerReplay(p) \/ FinishLogout(p)
             \/ \E j \in Jtis : Refresh(p, j) \/ Logout(p, j)
      PROVE  second' = second /\ cutoff' = cutoff
  BY <1>2, Zenon DEF Rotate, IssueRefresh, AnswerReplay, FinishLogout, Refresh, Logout, redisVars
<1>3. ASSUME \/ \E sid \in Sids : issueFullPairWithSession(sid)
             \/ \E j \in Jtis : TokenExpires(j)
             \/ UNCHANGED tokenVars
      PROVE  second' = second /\ cutoff' = cutoff
  BY <1>3, Zenon DEF issueFullPairWithSession, TokenExpires, tokenVars
<1>4. ASSUME RevokeAllForUser
      PROVE  second' \in Nat /\ second <= second' /\ cutoff' \in 0..second' /\ cutoff' = second
  BY <1>4 DEF RevokeAllForUser, Stamps
<1>5. ASSUME SecondPasses
      PROVE  second' \in Nat /\ second <= second' /\ cutoff' \in 0..second' /\ cutoff' = cutoff
  BY <1>5 DEF SecondPasses, redisVars, Stamps
<1>6. QED
  BY <1>1, <1>2, <1>3, <1>4, <1>5, Zenon DEF TokenNext

(* A new cutoff is no earlier than any check that was passed.              *)
LEMMA RacersStay ==
  ASSUME TokenInv, Stamps, TokenNext \/ UNCHANGED tokenVars,
         NEW parent, NEW checked, racer(parent, checked)
  PROVE  racer(parent, checked)'
<1>1. /\ parent \in Jtis /\ issued'[parent] # NoSid /\ stamped'[parent] = stamped[parent]
  BY IssuedStays, Zenon DEF racer
<1>2. /\ second' \in Nat /\ second <= second' /\ cutoff' \in 0..second'
      /\ cutoff' = cutoff \/ cutoff' = second
  BY CutoffMoves, Zenon
<1>3. /\ checked \in Nat /\ checked <= second /\ second \in Nat
      /\ stamped[parent] <= cutoff => checked <= cutoff
  BY Zenon DEF racer, Stamps
<1>4. checked <= second'
  BY <1>2, <1>3
<1>5. stamped[parent] <= cutoff' => checked <= cutoff'
  BY <1>2, <1>3
<1>6. QED
  BY <1>1, <1>3, <1>4, <1>5, Zenon DEF racer

(* Stamps is inductive beside the invariant.                               *)
LEMMA StampsKept == TokenInv /\ Stamps /\ [TokenNext]_tokenVars => Stamps'
<1> SUFFICES ASSUME TokenInv, Stamps, TokenNext \/ UNCHANGED tokenVars PROVE Stamps'
  BY Zenon
<1>0. /\ second \in Nat /\ stamped \in [Jtis -> Nat] /\ DOMAIN origin = Jtis /\ DOMAIN exchange = Exchanges
  BY Zenon DEF Stamps, TokenInv, Dealt
<1>1. second' \in Nat /\ cutoff' \in 0..second'
  BY CutoffMoves, Zenon
<1>2. ASSUME stamped' \in [Jtis -> Nat], DOMAIN origin' = Jtis,
             \A j \in Jtis : origin'[j] = origin[j] \/ racer(origin'[j].parent, origin'[j].checked),
             \A q \in Exchanges : pending(q)' => racer(exchange'[q].jti, exchange'[q].checked)
      PROVE  Stamps'
  <2>1. \A j \in Jtis : origin'[j].parent \in Jtis => racer(origin'[j].parent, origin'[j].checked)
    BY <1>2, Zenon DEF Stamps
  <2>2. ASSUME NEW a, NEW b, racer(a, b)
        PROVE  /\ a \in Jtis /\ issued'[a] # NoSid
               /\ b \in Nat /\ b <= second'
               /\ stamped'[a] <= cutoff' => b <= cutoff'
    <3>1. racer(a, b)'
      BY <2>2, RacersStay, Zenon
    <3>2. QED
      BY <3>1, Zenon DEF racer
  <2>3. QED
    BY <1>1, <1>2, <2>1, <2>2, Zenon DEF Stamps, racer, pending
<1>3. ASSUME UNCHANGED <<stamped, origin>>,
             \A q \in Exchanges : pending(q)' =>
               pending(q) /\ exchange'[q].jti = exchange[q].jti /\ exchange'[q].checked = exchange[q].checked
      PROVE  Stamps'
  <2>1. stamped' = stamped /\ origin' = origin
    BY <1>3, Zenon
  <2>2. \A q \in Exchanges : pending(q)' => racer(exchange'[q].jti, exchange'[q].checked)
    BY <1>3, Zenon DEF Stamps
  <2>3. QED
    BY <1>0, <1>2, <2>1, <2>2, Zenon
<1>4. ASSUME NEW sid \in Sids, issueFullPairWithSession(sid) PROVE Stamps'
  <2>1. /\ stamped' = stamped \/ stamped' = [stamped EXCEPT ![randomJTI] = second]
        /\ origin' = origin /\ exchange' = exchange
    BY <1>4, Zenon DEF issueFullPairWithSession
  <2>2. stamped' \in [Jtis -> Nat]
    BY <1>0, <2>1, Zenon
  <2>3. \A q \in Exchanges : pending(q)' => racer(exchange'[q].jti, exchange'[q].checked)
    BY <2>1, Zenon DEF Stamps, pending
  <2>4. QED
    BY <1>0, <1>2, <2>1, <2>2, <2>3, Zenon
<1>5. ASSUME NEW p \in Exchanges, NEW j \in Jtis, Refresh(p, j) PROVE Stamps'
  <2>1. /\ stamped' = stamped /\ origin' = origin /\ issued[j] # NoSid
        /\ exchange' = [exchange EXCEPT ![p] =
                          [pc |-> "rotate", jti |-> j, new |-> randomJTI, checked |-> second]]
        /\ ~(stamped[j] <= cutoff)
    BY <1>5, Zenon DEF Refresh, signedVars, ValidateAccessToken, IsRevokedClaims
  <2>2. second <= second
    BY <1>0
  <2>3. racer(j, second)
    BY <1>0, <2>1, <2>2, Zenon DEF racer
  <2>4. exchange'[p].jti = j /\ exchange'[p].checked = second
    BY <1>0, <2>1
  <2>5. \A q \in Exchanges \ {p} : exchange'[q] = exchange[q]
    BY <1>0, <2>1, Zenon
  <2>6. ASSUME NEW q \in Exchanges, pending(q)' PROVE racer(exchange'[q].jti, exchange'[q].checked)
    <3>1. CASE q = p
      BY <3>1, <2>3, <2>4, Zenon
    <3>2. CASE q # p
      BY <2>6, <3>2, <2>5, Zenon DEF Stamps, pending
    <3>3. QED
      BY <3>1, <3>2, Zenon
  <2>7. QED
    BY <1>0, <1>2, <2>1, <2>6, Zenon
<1>6. ASSUME NEW p \in Exchanges, IssueRefresh(p) PROVE Stamps'
  <2> DEFINE new == exchange[p].new
             from == [parent |-> exchange[p].jti, checked |-> exchange[p].checked]
  <2>1. /\ stamped' = [stamped EXCEPT ![new] = second] /\ origin' = [origin EXCEPT ![new] = from]
        /\ exchange' = [exchange EXCEPT ![p] = [pc |-> "idle", jti |-> 0]] /\ pending(p)
    BY <1>6, Zenon DEF IssueRefresh, done, goto_, pending
  <2>2. racer(exchange[p].jti, exchange[p].checked) /\ new \in Jtis
    BY <2>1, Zenon DEF Stamps, TokenInv, Dealt
  <2>3. from.parent = exchange[p].jti /\ from.checked = exchange[p].checked
    BY Zenon
  <2>4. exchange'[p].pc = "idle" /\ \A q \in Exchanges \ {p} : exchange'[q] = exchange[q]
    BY <1>0, <2>1, Zenon
  <2>5. ASSUME NEW q \in Exchanges, pending(q)' PROVE racer(exchange'[q].jti, exchange'[q].checked)
    BY <2>4, <2>5, Zenon DEF Stamps, pending
  <2> HIDE DEF from
  <2>6. /\ stamped' \in [Jtis -> Nat] /\ DOMAIN origin' = Jtis
        /\ \A j \in Jtis : origin'[j] = origin[j] \/ origin'[j] = from
    BY <1>0, <2>1, <2>2, Zenon
  <2>7. QED
    BY <1>2, <2>2, <2>3, <2>5, <2>6, Zenon
<1>7. ASSUME NEW p \in Exchanges, Rotate(p) PROVE Stamps'
  <2>1. UNCHANGED <<stamped, origin>> /\ exchange[p].pc = "rotate"
    BY <1>7, Zenon DEF Rotate, signedVars
  <2>2. \/ exchange' = [exchange EXCEPT ![p] = [pc |-> "sign", jti |-> exchange[p].jti, new |-> exchange[p].new,
                                               checked |-> exchange[p].checked]]
        \/ exchange' = [exchange EXCEPT ![p] = [pc |-> "idle", jti |-> 0]]
        \/ exchange' = [exchange EXCEPT ![p] = [pc |-> "revoke", jti |-> exchange[p].jti]]
    BY <1>7, Zenon DEF Rotate, done, goto_
  <2>3. \A q \in Exchanges \ {p} : exchange'[q] = exchange[q]
    BY <1>0, <2>2, Zenon
  <2>4. \/ exchange'[p].jti = exchange[p].jti /\ exchange'[p].checked = exchange[p].checked
        \/ exchange'[p].pc \in {"idle", "revoke"}
    BY <1>0, <2>2
  <2>5. ASSUME NEW q \in Exchanges, pending(q)'
        PROVE  pending(q) /\ exchange'[q].jti = exchange[q].jti /\ exchange'[q].checked = exchange[q].checked
    BY <2>1, <2>3, <2>4, <2>5, Zenon DEF pending
  <2>6. QED
    BY <1>3, <2>1, <2>5, Zenon
<1>8. ASSUME NEW p \in Exchanges,
             AnswerReplay(p) \/ FinishLogout(p) \/ (\E j \in Jtis : Logout(p, j))
      PROVE  Stamps'
  <2>1. /\ UNCHANGED <<stamped, origin>>
        /\ \E j \in {0} \cup Jtis : \/ exchange' = [exchange EXCEPT ![p] = [pc |-> "idle", jti |-> j]]
                                   \/ exchange' = [exchange EXCEPT ![p] = [pc |-> "logout", jti |-> j]]
    BY <1>8, Zenon DEF AnswerReplay, FinishLogout, Logout, done, goto_, signedVars
  <2>2. exchange'[p].pc \in {"idle", "logout"} /\ \A q \in Exchanges \ {p} : exchange'[q] = exchange[q]
    BY <1>0, <2>1
  <2>3. ASSUME NEW q \in Exchanges, pending(q)' PROVE pending(q) /\ exchange'[q] = exchange[q]
    BY <2>2, <2>3, Zenon DEF pending
  <2>4. QED
    BY <1>3, <2>1, <2>3, Zenon
<1>9. ASSUME RevokeAllForUser \/ SecondPasses \/ (\E j \in Jtis : TokenExpires(j)) \/ UNCHANGED tokenVars
      PROVE  Stamps'
  <2>1. UNCHANGED <<stamped, origin>> /\ exchange' = exchange
    BY <1>9, Zenon DEF RevokeAllForUser, SecondPasses, TokenExpires, tokenVars, signedVars
  <2>2. QED
    BY <1>3, <2>1, Zenon DEF pending
<1>10. QED
  BY <1>4, <1>5, <1>6, <1>7, <1>8, <1>9, Zenon DEF TokenNext

(* A refresh token is exchanged at most once and never whitelisted again,  *)
(* however many requests on however many replicas carry it and whatever    *)
(* replies are lost (rotateScript); only sessions are ever revoked; and of *)
(* the tokens a cutoff killed, only those whose refresh had passed the     *)
(* check by then have a successor (RevokeAllForUser, IsRevokedClaims).     *)
THEOREM TokensAreExchangedOnce == TokenSpec => []TokensAreSafe
<1>1. TokenInit => Sessions /\ Stamps
  <2> SUFFICES ASSUME TokenInit PROVE Sessions /\ Stamps
    BY Zenon
  <2>1. \A p \in Exchanges : exchange[p].pc = "idle"
    BY Zenon DEF TokenInit, none
  <2>2. Sessions
    BY <2>1 DEF TokenInit, Sessions, Steps
  <2>3. \A j \in Jtis : origin[j].parent \notin Jtis
    BY TokenAssumption DEF TokenInit, NoOrigin
  <2>4. /\ second \in Nat /\ cutoff \in 0..second /\ stamped \in [Jtis -> Nat] /\ DOMAIN origin = Jtis
    BY DEF TokenInit
  <2>5. QED
    BY <2>1, <2>2, <2>3, <2>4, Zenon DEF Stamps, pending
<1>2. TokenInv /\ Sessions /\ Stamps => TokensAreSafe
  <2> SUFFICES ASSUME TokenInv, Sessions, Stamps PROVE TokensAreSafe
    BY Zenon
  <2>1. ExchangedOnce
    BY DEF TokenInv, Counts, ExchangedOnce
  <2>2. TokenTypeOK
    BY Zenon DEF TokenInv, Ids, Sessions, Stamps, Steps, TokenTypeOK
  <2>3. OnlyRacersSurvive
    BY Zenon DEF Stamps, racer, OnlyRacersSurvive
  <2>4. QED
    BY <2>1, <2>2, <2>3, Zenon DEF TokensAreSafe
<1>3. QED
  BY <1>1, <1>2, SessionsKept, StampsKept, TokenInvariance, PTL DEF TokenSpec

-----------------------------------------------------------------------------
(* Onboarding.                                                             *)
(*                                                                         *)
(* The property says nothing of requests under way.  Underway is what they *)
(* know: a key that is not inserted yet is no tenant's, and belongs to one *)
(* request; once it is inserted the row of the organisation carries it.    *)

Tenant == [status : {"none", "active", "suspended", "archived"}, kek : Nat, bucket : BOOLEAN]
Asked == {"key", "insert", "publish", "provision", "record", "done"}
Answers == {"none", "exists", "kmsUnavailable", "failed", "ok", "pending", "lost", "invalid"}
Onboarding == [pc : {"idle"} \cup Asked, org : OrgCodes \cup {"none"}, kek : Nat, answer : Answers]

TenantTypes ==
  /\ tenants \in [OrgCodes -> Tenant] /\ keks \in Nat
  /\ onboard \in [Onboardings -> Onboarding]
  /\ \A r \in Onboardings : onboard[r].pc # "idle" => onboard[r].org \in OrgCodes

(* An organisation that exists has a key, made earlier and its own, and    *)
(* its event; without a provisioner nobody has a bucket.                   *)
Organisations ==
  /\ \A o \in OrgCodes :
       /\ tenants[o].kek <= keks
       /\ known(o) => tenants[o].kek > 0 /\ <<o, "created">> \in tenantOutbox
       /\ ~known(o) => tenants[o].kek = 0
       /\ tenants[o].bucket => HasBuckets
  /\ \A o, q \in OrgCodes : known(o) /\ tenants[o].kek = tenants[q].kek => o = q

Underway ==
  /\ \A r \in Onboardings :
       /\ onboard[r].kek <= keks
       /\ onboard[r].pc \in {"idle", "key"} => onboard[r].kek = 0
       /\ onboard[r].pc = "insert" =>
            onboard[r].kek > 0 /\ \A o \in OrgCodes : tenants[o].kek # onboard[r].kek
       /\ onboard[r].pc \in {"publish", "provision", "record"} =>
            known(onboard[r].org) /\ tenants[onboard[r].org].kek = onboard[r].kek
       /\ onboard[r].pc \in {"provision", "record"} => HasBuckets
       /\ onboard[r].answer = "ok" =>
            /\ onboard[r].pc = "done" /\ known(onboard[r].org)
            /\ tenants[onboard[r].org].kek = onboard[r].kek
            /\ HasBuckets => tenants[onboard[r].org].bucket
  /\ \A r, q \in Onboardings : onboard[r].kek > 0 /\ onboard[r].kek = onboard[q].kek => r = q

owned(k) ==
  \/ k \in orphans
  \/ \E o \in OrgCodes : tenants[o].kek = k
  \/ \E r \in Onboardings : onboard[r].kek = k /\ excused(onboard[r])

KeysAreOwned == \A k \in 1..keks : owned(k)

TenantInv == TenantTypes /\ Organisations /\ Underway /\ KeysAreOwned

-----------------------------------------------------------------------------
(* Nothing exists at first.                                                *)
LEMMA NobodyYet == TenantInit => TenantInv
BY DEF TenantInit, NoTenant, Unasked, TenantInv, TenantTypes, Tenant, Asked, Answers, Onboarding,
       Organisations, Underway, KeysAreOwned, owned, excused, known

(* What the invariant says of one request.                                 *)
LEMMA InOrder ==
  ASSUME TenantInv, NEW q \in Onboardings
  PROVE  /\ onboard[q].pc # "idle" => onboard[q].org \in OrgCodes
         /\ onboard[q].kek <= keks
         /\ onboard[q].pc \in {"idle", "key"} => onboard[q].kek = 0
         /\ onboard[q].pc = "insert" =>
              onboard[q].kek > 0 /\ \A o \in OrgCodes : tenants[o].kek # onboard[q].kek
         /\ onboard[q].pc \in {"publish", "provision", "record"} =>
              known(onboard[q].org) /\ tenants[onboard[q].org].kek = onboard[q].kek
         /\ onboard[q].pc \in {"provision", "record"} => HasBuckets
         /\ onboard[q].answer = "ok" =>
              /\ onboard[q].pc = "done" /\ known(onboard[q].org)
              /\ tenants[onboard[q].org].kek = onboard[q].kek
              /\ HasBuckets => tenants[onboard[q].org].bucket
BY Zenon DEF TenantInv, TenantTypes, Underway

(* Of two requests, and of two organisations, each has a key of its own.   *)
LEMMA KeysApart ==
  ASSUME TenantInv
  PROVE  /\ \A p, q \in Onboardings : onboard[p].kek > 0 /\ onboard[p].kek = onboard[q].kek => p = q
         /\ \A o, q \in OrgCodes : known(o) /\ tenants[o].kek = tenants[q].kek => o = q
BY Zenon DEF TenantInv, Underway, Organisations

(* A request that moves on without touching the organisations.             *)
LEMMA MovesOn ==
  ASSUME TenantInv, UNCHANGED <<tenants, keks, tenantOutbox>>, orphans \subseteq orphans',
         NEW r \in Onboardings, NEW new \in Onboarding,
         onboard' = [onboard EXCEPT ![r] = new],
         new.kek = onboard[r].kek, new.pc # "idle", new.org \in OrgCodes,
         new.pc \notin {"insert", "idle"}, new.pc = "key" => new.kek = 0,
         new.pc \in {"publish", "provision", "record"} =>
           known(new.org) /\ tenants[new.org].kek = new.kek,
         new.pc \in {"provision", "record"} => HasBuckets,
         new.answer = "ok" => /\ new.pc = "done" /\ known(new.org)
                              /\ tenants[new.org].kek = new.kek
                              /\ HasBuckets => tenants[new.org].bucket,
         new.kek > 0 => \/ excused(new)
                        \/ new.kek \in orphans' \/ \E o \in OrgCodes : tenants[o].kek = new.kek
  PROVE  TenantInv'
<1>1. onboard'[r] = new /\ \A q \in Onboardings : q # r => onboard'[q] = onboard[q]
  BY Zenon DEF TenantInv, TenantTypes
<1>2. TenantTypes'
  BY Zenon DEF TenantInv, TenantTypes
<1>3. Organisations'
  BY ZenonT(40) DEF TenantInv, Organisations, known
<1>4. Underway'
  <2>1. \A q \in Onboardings : onboard'[q].kek = onboard[q].kek
    BY <1>1, Zenon
  <2>2. \A p, q \in Onboardings : onboard'[p].kek > 0 /\ onboard'[p].kek = onboard'[q].kek => p = q
    BY <2>1, KeysApart
  <2>3. ASSUME NEW q \in Onboardings
        PROVE  /\ onboard'[q].kek <= keks
               /\ onboard'[q].pc \in {"idle", "key"} => onboard'[q].kek = 0
               /\ onboard'[q].pc = "insert" =>
                    onboard'[q].kek > 0 /\ \A o \in OrgCodes : tenants[o].kek # onboard'[q].kek
               /\ onboard'[q].pc \in {"publish", "provision", "record"} =>
                    known(onboard'[q].org) /\ tenants[onboard'[q].org].kek = onboard'[q].kek
               /\ onboard'[q].pc \in {"provision", "record"} => HasBuckets
               /\ onboard'[q].answer = "ok" =>
                    /\ onboard'[q].pc = "done" /\ known(onboard'[q].org)
                    /\ tenants[onboard'[q].org].kek = onboard'[q].kek
                    /\ HasBuckets => tenants[onboard'[q].org].bucket
    <3>1. CASE q = r
      BY <1>1, <3>1, InOrder
    <3>2. CASE q # r
      BY <1>1, <3>2, InOrder
    <3>3. QED
      BY <3>1, <3>2, ZenonT(40)
  <2>4. QED
    BY <2>2, <2>3 DEF Underway, known
<1>5. KeysAreOwned'
  BY <1>1 DEF TenantInv, KeysAreOwned, owned, excused
<1>6. QED
  BY <1>2, <1>3, <1>4, <1>5, Zenon DEF TenantInv

(* The fast duplicate check.                                               *)
LEMMA CreateStep ==
  ASSUME TenantInv, NEW r \in Onboardings, NEW o \in OrgCodes, CreateTenant(r, o)
  PROVE  TenantInv'
<1> DEFINE new == [pc |-> IF GetByOrgCode(o) = {} THEN "key" ELSE "done", org |-> o, kek |-> 0,
                   answer |-> IF GetByOrgCode(o) = {} THEN "none" ELSE "exists"]
<1>1. onboard[r].kek = 0 /\ onboard' = [onboard EXCEPT ![r] = new] /\ new \in Onboarding
  BY Zenon DEF CreateTenant, TenantInv, Underway, Onboarding, Asked, Answers
<1>2. QED
  BY <1>1, MovesOn DEF CreateTenant

(* KMS makes a key, which is nobody's so far.                              *)
LEMMA KeyStep ==
  ASSUME TenantInv, NEW r \in Onboardings, CreateKey(r)
  PROVE  TenantInv'
<1>0. onboard[r] \in Onboarding /\ onboard[r].pc = "key" /\ onboard[r].kek = 0
      /\ onboard[r].org \in OrgCodes /\ onboard[r].answer # "ok" /\ keks \in Nat
  BY Zenon DEF CreateKey, TenantInv, TenantTypes, Underway
<1>1. CASE answer(r, "kmsUnavailable") /\ UNCHANGED keks
  <2> DEFINE new == [onboard[r] EXCEPT !.pc = "done", !.answer = "kmsUnavailable"]
  <2>1. /\ new \in Onboarding /\ new.pc = "done" /\ new.answer = "kmsUnavailable"
        /\ new.org = onboard[r].org /\ new.kek = 0
    BY <1>0, Zenon DEF Onboarding, Asked, Answers
  <2>2. onboard' = [onboard EXCEPT ![r] = new]
    BY <1>1, Zenon DEF answer
  <2> HIDE DEF new
  <2>3. UNCHANGED <<tenants, keks, tenantOutbox, orphans>>
    BY <1>1, Zenon DEF CreateKey
  <2>4. orphans \subseteq orphans' /\ new.kek = onboard[r].kek /\ new.org \in OrgCodes
    BY <1>0, <2>1, <2>3, Zenon
  <2>5. ~(new.kek > 0)
    <3>1. \A k : k = 0 => ~(k > 0)
      OBVIOUS
    <3>2. QED
      BY <2>1, <3>1, Zenon
  <2>6. QED
    BY <2>1, <2>2, <2>3, <2>4, <2>5, MovesOn, Zenon
<1>2. CASE keks' = keks + 1
           /\ onboard' = [onboard EXCEPT ![r] = [@ EXCEPT !.pc = "insert", !.kek = keks + 1]]
  <2> DEFINE new == [onboard[r] EXCEPT !.pc = "insert", !.kek = keks + 1]
  <2>0. keks + 1 \in Nat
    BY <1>0
  <2>1. /\ new \in Onboarding /\ new.pc = "insert" /\ new.kek = keks + 1
        /\ new.org = onboard[r].org /\ new.answer = onboard[r].answer
    BY <1>0, <2>0, Zenon DEF Onboarding, Asked
  <2>2. /\ onboard' = [onboard EXCEPT ![r] = new] /\ keks' = keks + 1 /\ keks' \in Nat
        /\ UNCHANGED <<tenants, tenantOutbox, orphans>>
    BY <1>0, <1>2 DEF CreateKey
  <2> HIDE DEF new
  <2>3. onboard'[r] = new /\ \A q \in Onboardings : q # r => onboard'[q] = onboard[q]
    BY <2>2, Zenon DEF TenantInv, TenantTypes
  <2>4. TenantTypes'
    BY <1>0, <2>1, <2>2, Zenon DEF TenantInv, TenantTypes
  <2>5. \A o \in OrgCodes : tenants[o].kek \in Nat /\ tenants[o].kek <= keks
    BY Zenon DEF TenantInv, TenantTypes, Tenant, Organisations
  <2>6. \A q \in Onboardings : onboard[q].kek \in Nat /\ onboard[q].kek <= keks
    BY ZenonT(40) DEF TenantInv, TenantTypes, Onboarding, Underway
  <2>7. Organisations'
    BY <1>0, <2>2, <2>5 DEF TenantInv, Organisations, known
  <2>8. ASSUME NEW q \in Onboardings
        PROVE  /\ onboard'[q].kek <= keks'
               /\ onboard'[q].pc \in {"idle", "key"} => onboard'[q].kek = 0
               /\ onboard'[q].pc = "insert" =>
                    onboard'[q].kek > 0 /\ \A o \in OrgCodes : tenants[o].kek # onboard'[q].kek
    <3>1. CASE q = r
      BY <3>1, <1>0, <2>1, <2>2, <2>3, <2>5
    <3>2. CASE q # r
      <4>1. onboard'[q] = onboard[q] /\ onboard[q].kek \in Nat /\ onboard[q].kek <= keks
        BY <2>3, <2>6, <3>2, Zenon
      <4>2. onboard'[q].kek <= keks'
        BY <1>0, <2>2, <4>1
      <4>3. QED
        BY <4>1, <4>2, InOrder, Zenon
    <3>3. QED
      BY <3>1, <3>2, Zenon
  <2>9. \A p, q \in Onboardings : onboard'[p].kek > 0 /\ onboard'[p].kek = onboard'[q].kek => p = q
    <3>1. \A q \in Onboardings : onboard[q].kek # new.kek
      BY <1>0, <2>1, <2>6
    <3>2. QED
      BY <2>3, <3>1, KeysApart, Zenon
  <2>10. Underway'
    <3>1. ASSUME NEW q \in Onboardings
          PROVE  /\ onboard'[q].pc \in {"publish", "provision", "record"} =>
                      known(onboard'[q].org) /\ tenants[onboard'[q].org].kek = onboard'[q].kek
                 /\ onboard'[q].pc \in {"provision", "record"} => HasBuckets
                 /\ onboard'[q].answer = "ok" =>
                      /\ onboard'[q].pc = "done" /\ known(onboard'[q].org)
                      /\ tenants[onboard'[q].org].kek = onboard'[q].kek
                      /\ HasBuckets => tenants[onboard'[q].org].bucket
      <4>1. CASE q = r
        BY <1>0, <2>1, <2>3, <4>1, InOrder, Zenon
      <4>2. CASE q # r
        BY <2>3, <4>2, InOrder, Zenon
      <4>3. QED
        BY <4>1, <4>2, Zenon
    <3>2. UNCHANGED tenants
      BY <2>2, Zenon
    <3>3. QED
      BY <2>8, <2>9, <3>1, <3>2, Zenon DEF Underway, known
  <2>11. ASSUME NEW k \in 1..keks' PROVE owned(k)'
    <3>1. CASE k = keks + 1
      BY <3>1, <2>1, <2>3, Zenon DEF owned, excused
    <3>2. CASE k # keks + 1
      <4>1. k \in 1..keks /\ k # onboard[r].kek
        BY <3>2, <1>0, <2>2
      <4>2. QED
        BY <4>1, <2>2, <2>3 DEF TenantInv, KeysAreOwned, owned, excused
    <3>3. QED
      BY <3>1, <3>2, Zenon
  <2>12. QED
    BY <2>4, <2>7, <2>10, <2>11, Zenon DEF TenantInv, KeysAreOwned
<1>3. QED
  BY <1>1, <1>2, Zenon DEF CreateKey

(* A request that ends with an answer other than ok, and whose key, if it  *)
(* has one, is accounted for.                                              *)
LEMMA Answered ==
  ASSUME TenantInv, UNCHANGED <<tenants, keks, tenantOutbox>>, orphans \subseteq orphans',
         NEW r \in Onboardings, onboard[r].pc # "idle",
         NEW a \in Answers \ {"ok"}, answer(r, a),
         \/ a = "lost" \/ (a = "invalid" /\ onboard[r].org \in TooLong)
         \/ onboard[r].kek \in orphans'
         \/ \E o \in OrgCodes : tenants[o].kek = onboard[r].kek
  PROVE  TenantInv'
<1> DEFINE new == [onboard[r] EXCEPT !.pc = "done", !.answer = a]
<1>1. /\ new \in Onboarding /\ new.pc = "done" /\ new.answer = a
      /\ new.org = onboard[r].org /\ new.kek = onboard[r].kek /\ new.org \in OrgCodes
  BY Zenon DEF TenantInv, TenantTypes, Onboarding, Asked
<1>2. onboard' = [onboard EXCEPT ![r] = new]
  BY Zenon DEF answer
<1> HIDE DEF new
<1>3. a = "lost" \/ (a = "invalid" /\ onboard[r].org \in TooLong) => excused(new)
  BY <1>1, Zenon DEF excused
<1>4. QED
  BY <1>1, <1>2, <1>3, MovesOn, Zenon

(* A request that goes on to a step after its transaction.                 *)
LEMMA Advances ==
  ASSUME TenantInv, UNCHANGED <<tenants, keks, tenantOutbox, orphans>>,
         NEW r \in Onboardings, onboard[r].pc \in {"publish", "provision", "record"},
         NEW pc \in {"provision", "record"}, HasBuckets, step(r, pc)
  PROVE  TenantInv'
<1> DEFINE new == [onboard[r] EXCEPT !.pc = pc]
<1>1. /\ new \in Onboarding /\ new.pc = pc /\ new.answer = onboard[r].answer
      /\ new.org = onboard[r].org /\ new.kek = onboard[r].kek /\ new.org \in OrgCodes
  BY Zenon DEF TenantInv, TenantTypes, Onboarding, Asked
<1>2. onboard' = [onboard EXCEPT ![r] = new]
  BY Zenon DEF step, TenantInv, TenantTypes, Onboarding
<1>3. onboard[r].answer # "ok" /\ known(onboard[r].org) /\ tenants[onboard[r].org].kek = onboard[r].kek
  BY Zenon DEF TenantInv, Underway
<1> HIDE DEF new
<1>4. excused(new)
  BY <1>1, Zenon DEF excused
<1>5. QED
  BY <1>1, <1>2, <1>3, <1>4, MovesOn, Zenon

(* The transaction: org_code is unique, so the row is new and its key was  *)
(* no tenant's; the loser reports its key, and a request for an org_code   *)
(* that is too long leaves it behind.                                      *)
LEMMA InsertStep ==
  ASSUME TenantInv, NEW r \in Onboardings, InsertTenant(r)
  PROVE  TenantInv'
<1> DEFINE o == onboard[r].org
           k == onboard[r].kek
<1>0. /\ onboard[r].pc = "insert" /\ o \in OrgCodes /\ k \in Nat /\ k > 0 /\ k <= keks
      /\ onboard[r].answer # "ok" /\ \A q \in OrgCodes : tenants[q].kek # k
      /\ onboard[r] \in Onboarding /\ keks' = keks
  BY Zenon DEF InsertTenant, TenantInv, TenantTypes, Onboarding, Underway
<1>1. CASE orphans' = orphans \cup {k} /\ answer(r, "failed") /\ UNCHANGED <<tenants, tenantOutbox>>
  BY <1>0, <1>1, Answered, Zenon DEF Answers
<1>2. CASE /\ InsertRow(r) /\ tenantOutbox' = appendCreatedToOutbox(o)
           /\ step(r, "publish") /\ UNCHANGED orphans
  <2> DEFINE row == [NoTenant EXCEPT !.status = "active", !.kek = k]
             new == [onboard[r] EXCEPT !.pc = "publish"]
  <2>1. /\ new \in Onboarding /\ new.pc = "publish" /\ new.answer = onboard[r].answer
        /\ new.org = o /\ new.kek = k
    BY <1>0, Zenon DEF Onboarding, Asked
  <2>2. onboard' = [onboard EXCEPT ![r] = new]
    BY <1>0, <1>2, Zenon DEF step, Onboarding
  <2>3. /\ row \in Tenant /\ row.status = "active" /\ row.kek = k /\ row.bucket = FALSE
        /\ tenants' = [tenants EXCEPT ![o] = row] /\ ~known(o)
    <3>1. row \in Tenant /\ row.status = "active" /\ row.kek = k /\ row.bucket = FALSE
      BY <1>0, Zenon DEF Tenant, NoTenant
    <3>2. tenants' = [tenants EXCEPT ![o] = row] /\ ~known(o)
      BY <1>2, Zenon DEF InsertRow
    <3>3. QED
      BY <3>1, <3>2, Zenon
  <2>4. tenantOutbox' = tenantOutbox \cup {<<o, "created">>}
    BY <1>2, Zenon DEF appendCreatedToOutbox
  <2> HIDE DEF new, row
  <2>5. onboard'[r] = new /\ \A q \in Onboardings : q # r => onboard'[q] = onboard[q]
    BY <2>2, Zenon DEF TenantInv, TenantTypes
  <2>6. tenants'[o] = row /\ \A q \in OrgCodes : q # o => tenants'[q] = tenants[q]
    BY <1>0, <2>3, Zenon DEF TenantInv, TenantTypes
  <2>7. TenantTypes'
    BY <1>0, <2>1, <2>2, <2>3, Zenon DEF TenantInv, TenantTypes
  <2>8. Organisations'
    <3>1. ASSUME NEW q \in OrgCodes
          PROVE  /\ tenants'[q].kek <= keks'
                 /\ known(q)' => tenants'[q].kek > 0 /\ <<q, "created">> \in tenantOutbox'
                 /\ ~known(q)' => tenants'[q].kek = 0
                 /\ tenants'[q].bucket => HasBuckets
      BY <1>0, <2>3, <2>4, <2>6, ZenonT(40) DEF TenantInv, Organisations, known
    <3>2. ASSUME NEW p \in OrgCodes, NEW q \in OrgCodes, known(p)', tenants'[p].kek = tenants'[q].kek
          PROVE  p = q
      <4>1. CASE p = o
        BY <1>0, <2>3, <2>6, <3>2, <4>1
      <4>2. CASE p # o
        <5>1. known(p)
          BY <2>6, <3>2, <4>2, Zenon DEF known
        <5>2. QED
          BY <1>0, <2>3, <2>6, <3>2, <4>2, <5>1, KeysApart
      <4>3. QED
        BY <4>1, <4>2, Zenon
    <3>3. QED
      BY <3>1, <3>2, Zenon DEF Organisations
  <2>9. \A q \in Onboardings :
          known(onboard[q].org) /\ onboard[q].org \in OrgCodes =>
            tenants'[onboard[q].org] = tenants[onboard[q].org]
    BY <2>3, <2>6, Zenon
  <2>10. Underway'
    <3>1. ASSUME NEW q \in Onboardings
          PROVE  /\ onboard'[q].kek <= keks'
                 /\ onboard'[q].pc \in {"idle", "key"} => onboard'[q].kek = 0
                 /\ onboard'[q].pc = "insert" =>
                      onboard'[q].kek > 0 /\ \A i \in OrgCodes : tenants'[i].kek # onboard'[q].kek
      <4>1. CASE q = r
        BY <4>1, <1>0, <2>1, <2>5, ZenonT(40)
      <4>2. CASE q # r
        <5>1. onboard[q].pc = "insert" => onboard[q].kek # k
          BY <4>2, <1>0, ZenonT(40) DEF TenantInv, Underway
        <5>2. \A i \in OrgCodes : tenants'[i].kek \in {tenants[i].kek, k}
          BY <2>3, <2>6, Zenon
        <5>3. QED
          BY <1>0, <2>5, <4>2, <5>1, <5>2, InOrder
      <4>3. QED
        BY <4>1, <4>2, Zenon
    <3>2. ASSUME NEW q \in Onboardings
          PROVE  /\ onboard'[q].pc \in {"publish", "provision", "record"} =>
                      tenants'[onboard'[q].org].status # "none" /\ tenants'[onboard'[q].org].kek = onboard'[q].kek
                 /\ onboard'[q].pc \in {"provision", "record"} => HasBuckets
                 /\ onboard'[q].answer = "ok" =>
                      /\ onboard'[q].pc = "done" /\ tenants'[onboard'[q].org].status # "none"
                      /\ tenants'[onboard'[q].org].kek = onboard'[q].kek
                      /\ HasBuckets => tenants'[onboard'[q].org].bucket
      <4>1. CASE q = r
        BY <4>1, <1>0, <2>1, <2>3, <2>5, <2>6, Zenon
      <4>2. CASE q # r
        <5>1. onboard'[q] = onboard[q]
          BY <2>5, <4>2, Zenon
        <5>2. onboard[q].pc \in {"publish", "provision", "record"} \/ onboard[q].answer = "ok" =>
                /\ known(onboard[q].org) /\ onboard[q].org \in OrgCodes
                /\ tenants'[onboard[q].org] = tenants[onboard[q].org]
          BY <2>9, InOrder, Zenon
        <5>3. QED
          BY <5>1, <5>2, InOrder, ZenonT(40) DEF known
      <4>3. QED
        BY <4>1, <4>2, Zenon
    <3>3. \A p, q \in Onboardings : onboard'[p].kek > 0 /\ onboard'[p].kek = onboard'[q].kek => p = q
      <4>1. \A q \in Onboardings : onboard'[q].kek = onboard[q].kek
        BY <2>1, <2>5, Zenon
      <4>2. QED
        BY <4>1, KeysApart, Zenon
    <3>4. QED
      BY <3>1, <3>2, <3>3, Zenon DEF Underway, known
  <2>11. KeysAreOwned'
    <3>1. ASSUME NEW i \in 1..keks, owned(i) PROVE owned(i)'
      <4>1. CASE i \in orphans
        BY <4>1, <1>2, Zenon DEF owned
      <4>2. CASE i = k
        BY <4>2, <1>0, <2>3, <2>6, Zenon DEF owned
      <4>3. ASSUME NEW q \in OrgCodes, tenants[q].kek = i PROVE owned(i)'
        <5>1. q # o
          <6>1. tenants[o].kek = 0
            BY <1>0, <2>3, Zenon DEF TenantInv, Organisations
          <6>2. i # 0
            BY DEF TenantInv, TenantTypes
          <6>3. QED
            BY <4>3, <6>1, <6>2, Zenon
        <5>2. QED
          BY <4>3, <5>1, <2>6, Zenon DEF owned
      <4>4. ASSUME NEW q \in Onboardings, onboard[q].kek = i, i # k,
                   excused(onboard[q])
            PROVE owned(i)'
        BY <4>4, <2>5, Zenon DEF owned, excused
      <4>5. QED
        BY <3>1, <4>1, <4>2, <4>3, <4>4, Zenon DEF owned
    <3>2. QED
      BY <3>1, <1>0, Zenon DEF TenantInv, KeysAreOwned
  <2>12. QED
    BY <2>7, <2>8, <2>10, <2>11, Zenon DEF TenantInv
<1>3. CASE ~Validate(o) /\ answer(r, "invalid") /\ UNCHANGED <<tenants, tenantOutbox, orphans>>
  <2>1. o \in TooLong /\ UNCHANGED <<tenants, keks, tenantOutbox>> /\ orphans \subseteq orphans'
    BY <1>0, <1>3, Zenon DEF Validate
  <2>2. "invalid" \in Answers \ {"ok"} /\ onboard[r].pc # "idle"
    BY <1>0, Zenon DEF Answers
  <2>3. QED
    BY <1>3, <2>1, <2>2, Answered, Zenon
<1>4. QED
  BY <1>1, <1>2, <1>3, Zenon DEF InsertTenant

(* Publishing, provisioning and the death of the process change no row.    *)
LEMMA LaterSteps ==
  ASSUME TenantInv, NEW r \in Onboardings, PublishCreated(r) \/ Provision(r) \/ Dies(r)
  PROVE  TenantInv'
<1>1. UNCHANGED <<tenants, keks, tenantOutbox, orphans>>
  BY Zenon DEF PublishCreated, Provision, Dies
<1>2. CASE Dies(r)
  BY <1>1, <1>2, Answered, Zenon DEF Dies, Answers
<1>3. CASE Provision(r)
  <2>1. /\ onboard[r].pc = "provision" /\ HasBuckets /\ onboard[r].org \in OrgCodes
        /\ tenants[onboard[r].org].kek = onboard[r].kek
    BY <1>3, Zenon DEF Provision, TenantInv, TenantTypes, Underway
  <2>2. step(r, "record") \/ answer(r, "pending")
    BY <1>3, Zenon DEF Provision
  <2>3. CASE step(r, "record")
    BY <1>1, <2>1, <2>3, Advances, Zenon
  <2>4. CASE answer(r, "pending")
    BY <1>1, <2>1, <2>4, Answered, Zenon DEF Answers
  <2>5. QED
    BY <2>2, <2>3, <2>4, Zenon
<1>4. CASE PublishCreated(r) /\ HasBuckets
  BY <1>1, <1>4, Advances, Zenon DEF PublishCreated
<1>5. CASE PublishCreated(r) /\ ~HasBuckets
  <2> DEFINE new == [onboard[r] EXCEPT !.pc = "done", !.answer = "ok"]
  <2>1. /\ onboard[r].pc = "publish" /\ onboard[r].org \in OrgCodes
        /\ known(onboard[r].org) /\ tenants[onboard[r].org].kek = onboard[r].kek
    BY <1>5, Zenon DEF PublishCreated, TenantInv, TenantTypes, Underway
  <2>2. /\ new \in Onboarding /\ new.pc = "done" /\ new.answer = "ok"
        /\ new.org = onboard[r].org /\ new.kek = onboard[r].kek
    BY Zenon DEF TenantInv, TenantTypes, Onboarding, Asked, Answers
  <2>3. onboard' = [onboard EXCEPT ![r] = new]
    BY <1>5, Zenon DEF PublishCreated, answer
  <2> HIDE DEF new
  <2>4. QED
    BY <1>1, <1>5, <2>1, <2>2, <2>3, MovesOn, Zenon
<1>6. QED
  BY <1>2, <1>3, <1>4, <1>5, Zenon

(* A step that updates the row of an existing organisation and leaves its  *)
(* key as it is.                                                           *)
LEMMA RowChanges ==
  ASSUME TenantInv, NEW o \in OrgCodes, known(o), NEW row \in Tenant, row.status # "none",
         row.kek = tenants[o].kek, tenants[o].bucket => row.bucket, row.bucket => HasBuckets,
         tenants' = [tenants EXCEPT ![o] = row], UNCHANGED <<keks, orphans, onboard>>,
         tenantOutbox \subseteq tenantOutbox'
  PROVE  TenantInv'
<1>1. tenants'[o] = row /\ \A q \in OrgCodes : q # o => tenants'[q] = tenants[q]
  BY Zenon DEF TenantInv, TenantTypes
<1>2. \A q \in OrgCodes : /\ tenants'[q].kek = tenants[q].kek /\ (known(q)' <=> known(q))
                          /\ tenants[q].bucket => tenants'[q].bucket
                          /\ tenants'[q].bucket => HasBuckets
  <2>1. ASSUME NEW q \in OrgCodes, q # o
        PROVE  tenants'[q] = tenants[q] /\ (tenants[q].bucket => HasBuckets)
    BY <1>1, <2>1, Zenon DEF TenantInv, Organisations
  <2>2. QED
    BY <1>1, <2>1, ZenonT(40) DEF known
<1>3. TenantTypes'
  BY Zenon DEF TenantInv, TenantTypes
<1>4. Organisations'
  BY <1>2 DEF TenantInv, Organisations
<1>5. Underway'
  BY <1>2 DEF TenantInv, TenantTypes, Underway
<1>6. KeysAreOwned'
  BY <1>2 DEF TenantInv, KeysAreOwned, owned, excused
<1>7. QED
  BY <1>3, <1>4, <1>5, <1>6, Zenon DEF TenantInv

(* The bucket is recorded and the request answered ok, or it is pending.   *)
LEMMA RecordStep ==
  ASSUME TenantInv, NEW r \in Onboardings, UpdateBucket(r)
  PROVE  TenantInv'
<1> DEFINE o == onboard[r].org
<1>1. /\ onboard[r].pc = "record" /\ o \in OrgCodes /\ known(o) /\ HasBuckets
      /\ tenants[o].kek = onboard[r].kek /\ UNCHANGED <<keks, orphans, tenantOutbox>>
  BY Zenon DEF UpdateBucket, TenantInv, TenantTypes, Underway
<1>2. CASE answer(r, whenNotRecorded) /\ UNCHANGED tenants
  BY <1>1, <1>2, Answered, ZenonT(40) DEF Answers, whenNotRecorded
<1>3. CASE tenants' = [tenants EXCEPT ![o].bucket = TRUE] /\ answer(r, "ok")
  <2> DEFINE new == [onboard[r] EXCEPT !.pc = "done", !.answer = "ok"]
             row == [tenants[o] EXCEPT !.bucket = TRUE]
  <2>1. /\ new \in Onboarding /\ new.pc = "done" /\ new.answer = "ok"
        /\ new.org = o /\ new.kek = onboard[r].kek
    BY Zenon DEF TenantInv, TenantTypes, Onboarding, Asked, Answers
  <2>2. onboard' = [onboard EXCEPT ![r] = new]
    BY <1>3, Zenon DEF answer
  <2>3. /\ row \in Tenant /\ row.bucket = TRUE /\ row.kek = tenants[o].kek
        /\ row.status = tenants[o].status
    BY <1>1, ZenonT(40) DEF TenantInv, TenantTypes, Tenant
  <2>4. tenants' = [tenants EXCEPT ![o] = row]
    BY <1>1, <1>3, Zenon DEF TenantInv, TenantTypes, Tenant
  <2> HIDE DEF new, row
  <2>5. onboard'[r] = new /\ \A q \in Onboardings : q # r => onboard'[q] = onboard[q]
    BY <2>2, Zenon DEF TenantInv, TenantTypes
  <2>6. tenants'[o] = row /\ \A q \in OrgCodes : q # o => tenants'[q] = tenants[q]
    BY <1>1, <2>4, Zenon DEF TenantInv, TenantTypes
  <2>7. \A q \in OrgCodes : /\ tenants'[q].kek = tenants[q].kek
                            /\ tenants'[q].status = tenants[q].status
                            /\ tenants[q].bucket => tenants'[q].bucket
    BY <2>3, <2>6, Zenon
  <2>8. TenantTypes'
    BY <1>1, <2>1, <2>2, <2>3, <2>4, Zenon DEF TenantInv, TenantTypes
  <2>9. Organisations'
    BY <1>1, <2>7 DEF TenantInv, Organisations, known
  <2>10. Underway'
    <3>1. ASSUME NEW q \in Onboardings, q # r
          PROVE  /\ onboard[q].pc \in {"publish", "provision", "record"} =>
                      /\ tenants'[onboard[q].org].status # "none"
                      /\ tenants'[onboard[q].org].kek = onboard[q].kek
                 /\ onboard[q].answer = "ok" =>
                      /\ onboard[q].pc = "done" /\ tenants'[onboard[q].org].status # "none"
                      /\ tenants'[onboard[q].org].kek = onboard[q].kek
                      /\ HasBuckets => tenants'[onboard[q].org].bucket
      <4>1. onboard[q].pc \in {"publish", "provision", "record"} \/ onboard[q].answer = "ok" =>
              onboard[q].org \in OrgCodes
        BY InOrder, Zenon
      <4>2. QED
        BY <2>7, <4>1, InOrder DEF known
    <3>2. /\ tenants'[o].status # "none" /\ tenants'[o].kek = onboard[r].kek /\ tenants'[o].bucket
      BY <1>1, <2>3, <2>6, Zenon DEF known
    <3>3. \A q \in Onboardings : onboard'[q].kek = onboard[q].kek
      BY <2>1, <2>5, Zenon
    <3>4. \A q \in Onboardings : onboard'[q].pc = "insert" =>
            onboard'[q].kek > 0 /\ \A i \in OrgCodes : tenants'[i].kek # onboard'[q].kek
      <4>1. ASSUME NEW q \in Onboardings, onboard'[q].pc = "insert"
            PROVE  onboard'[q].kek > 0 /\ \A i \in OrgCodes : tenants'[i].kek # onboard'[q].kek
        <5>1. onboard'[q] = onboard[q]
          BY <2>1, <2>5, <4>1, ZenonT(40)
        <5>2. QED
          BY <2>7, <4>1, <5>1, InOrder
      <4>2. QED
        BY <4>1, ZenonT(40)
    <3>5. \A q \in Onboardings :
            /\ onboard'[q].kek <= keks'
            /\ onboard'[q].pc \in {"idle", "key"} => onboard'[q].kek = 0
            /\ onboard'[q].pc \in {"provision", "record"} => HasBuckets
      BY <1>1, <2>1, <2>5, <3>3 DEF TenantInv, Underway
    <3>6. \A q \in Onboardings :
            /\ onboard'[q].pc \in {"publish", "provision", "record"} =>
                 /\ tenants'[onboard'[q].org].status # "none"
                 /\ tenants'[onboard'[q].org].kek = onboard'[q].kek
            /\ onboard'[q].answer = "ok" =>
                 /\ onboard'[q].pc = "done" /\ tenants'[onboard'[q].org].status # "none"
                 /\ tenants'[onboard'[q].org].kek = onboard'[q].kek
                 /\ HasBuckets => tenants'[onboard'[q].org].bucket
      <4>1. ASSUME NEW q \in Onboardings
            PROVE  /\ onboard'[q].pc \in {"publish", "provision", "record"} =>
                        /\ tenants'[onboard'[q].org].status # "none"
                        /\ tenants'[onboard'[q].org].kek = onboard'[q].kek
                   /\ onboard'[q].answer = "ok" =>
                        /\ onboard'[q].pc = "done" /\ tenants'[onboard'[q].org].status # "none"
                        /\ tenants'[onboard'[q].org].kek = onboard'[q].kek
                        /\ HasBuckets => tenants'[onboard'[q].org].bucket
        <5>1. CASE q = r
          BY <2>1, <2>5, <3>2, <5>1, Zenon
        <5>2. CASE q # r
          BY <2>5, <3>1, <5>2, ZenonT(40)
        <5>3. QED
          BY <5>1, <5>2, Zenon
      <4>2. QED
        BY <4>1, Zenon
    <3>7. \A p, q \in Onboardings : onboard'[p].kek > 0 /\ onboard'[p].kek = onboard'[q].kek => p = q
      BY <3>3, KeysApart, Zenon
    <3>8. QED
      BY <3>4, <3>5, <3>6, <3>7, ZenonT(40) DEF Underway, known
  <2>11. KeysAreOwned'
    <3>1. ASSUME NEW k \in 1..keks, owned(k) PROVE owned(k)'
      <4>1. CASE k \in orphans \/ \E q \in OrgCodes : tenants[q].kek = k
        BY <4>1, <1>1, <2>7, Zenon DEF owned
      <4>2. CASE k = onboard[r].kek
        BY <4>2, <1>1, <2>7, ZenonT(40) DEF owned
      <4>3. ASSUME NEW q \in Onboardings, onboard[q].kek = k, k # onboard[r].kek,
                   excused(onboard[q])
            PROVE  owned(k)'
        BY <4>3, <2>5, Zenon DEF owned, excused
      <4>4. QED
        BY <3>1, <4>1, <4>2, <4>3, Zenon DEF owned
    <3>2. QED
      BY <3>1, <1>1, Zenon DEF TenantInv, KeysAreOwned
  <2>12. QED
    BY <2>8, <2>9, <2>10, <2>11, Zenon DEF TenantInv
<1>4. QED
  BY <1>2, <1>3, Zenon DEF UpdateBucket

(* transitionStatus writes the row and the event in one transaction.       *)
LEMMA StatusStep ==
  ASSUME TenantInv, NEW o \in OrgCodes, NEW to \in {"active", "suspended", "archived"}, NEW event, NEW noticed,
         transitionStatus(o, to, event, noticed)
  PROVE  TenantInv'
<1> DEFINE row == [tenants[o] EXCEPT !.status = to]
<1>1. /\ row \in Tenant /\ row.status = to /\ row.kek = tenants[o].kek
      /\ row.bucket = tenants[o].bucket
  BY Zenon DEF TenantInv, TenantTypes, Tenant
<1>2. /\ tenants' = [tenants EXCEPT ![o] = row] /\ known(o)
      /\ UNCHANGED <<keks, orphans, onboard>> /\ tenantOutbox \subseteq tenantOutbox'
  BY Zenon DEF transitionStatus, UpdateStatus, TenantInv, TenantTypes, Tenant
<1> HIDE DEF row
<1>3. row.bucket => HasBuckets
  BY <1>1, Zenon DEF TenantInv, Organisations
<1>4. QED
  BY <1>1, <1>2, <1>3, RowChanges, Zenon

-----------------------------------------------------------------------------
(* The invariant of onboarding is inductive.                               *)
THEOREM TenantInvariance == TenantSpec => []TenantInv
<1>1. TenantInv /\ [TenantNext]_tenantVars => TenantInv'
  <2> SUFFICES ASSUME TenantInv, [TenantNext]_tenantVars PROVE TenantInv'
    BY Zenon
  <2>1. ASSUME NEW o \in OrgCodes, Suspend(o) \/ Resume(o) \/ ArchiveTenant(o) PROVE TenantInv'
    BY <2>1, StatusStep, Zenon DEF Suspend, Resume, ArchiveTenant
  <2>2. ASSUME UNCHANGED tenantVars PROVE TenantInv'
    <3>1. TenantTypes' /\ Organisations'
      BY <2>2, Zenon DEF tenantVars, TenantInv, TenantTypes, Organisations, known
    <3>2. Underway'
      BY <2>2, ZenonT(40) DEF tenantVars, TenantInv, Underway, known
    <3>3. KeysAreOwned'
      BY <2>2, Zenon DEF tenantVars, TenantInv, KeysAreOwned, owned
    <3>4. QED
      BY <3>1, <3>2, <3>3, Zenon DEF TenantInv
  <2>3. QED
    BY <2>1, <2>2, CreateStep, KeyStep, InsertStep, LaterSteps, RecordStep, Zenon DEF TenantNext
<1>2. QED
  BY NobodyYet, <1>1, PTL DEF TenantSpec

(* Orphans are keys that were made, and buckets belong to organisations.   *)
Stores == orphans \subseteq 1..keks /\ buckets \subseteq OrgCodes

(* Stores is inductive beside the invariant.                               *)
LEMMA StoresKept == TenantInv /\ Stores /\ [TenantNext]_tenantVars => Stores'
<1> SUFFICES ASSUME TenantInv, Stores, [TenantNext]_tenantVars PROVE Stores'
  BY Zenon
<1>1. keks \in Nat
  BY Zenon DEF TenantInv, TenantTypes
<1>2. ASSUME NEW r \in Onboardings, CreateKey(r) PROVE Stores'
  <2>1. UNCHANGED <<orphans, buckets>> /\ keks' \in {keks, keks + 1}
    BY <1>2, Zenon DEF CreateKey
  <2>2. QED
    BY <1>1, <2>1 DEF Stores
<1>3. ASSUME NEW r \in Onboardings, InsertTenant(r) PROVE Stores'
  <2>1. /\ onboard[r].pc = "insert" /\ UNCHANGED <<keks, buckets>>
        /\ UNCHANGED orphans \/ orphans' = orphans \cup {onboard[r].kek}
    BY <1>3, Zenon DEF InsertTenant
  <2>2. /\ onboard[r].kek > 0 /\ onboard[r].kek <= keks /\ onboard[r] \in Onboarding
    BY <2>1, ZenonT(40) DEF TenantInv, TenantTypes, Underway
  <2>3. onboard[r].kek \in 1..keks
    BY <1>1, <2>2 DEF Onboarding
  <2>4. QED
    BY <2>1, <2>3, Zenon DEF Stores
<1>4. ASSUME NEW r \in Onboardings, Provision(r) PROVE Stores'
  <2>1. /\ onboard[r].pc = "provision" /\ UNCHANGED <<keks, orphans>>
        /\ UNCHANGED buckets \/ buckets' = buckets \cup {onboard[r].org}
    BY <1>4, Zenon DEF Provision, ensureBucket
  <2>2. onboard[r].org \in OrgCodes
    BY <2>1, Zenon DEF TenantInv, TenantTypes
  <2>3. QED
    BY <2>1, <2>2, Zenon DEF Stores
<1>5. ASSUME UNCHANGED <<keks, orphans, buckets>> PROVE Stores'
  BY <1>5, Zenon DEF Stores
<1>6. ASSUME NEW r \in Onboardings,
             (\E o \in OrgCodes : CreateTenant(r, o)) \/ PublishCreated(r) \/ UpdateBucket(r) \/ Dies(r)
      PROVE  Stores'
  BY <1>5, <1>6, Zenon DEF CreateTenant, PublishCreated, UpdateBucket, Dies
<1>7. ASSUME NEW o \in OrgCodes, Suspend(o) \/ Resume(o) \/ ArchiveTenant(o) PROVE Stores'
  BY <1>5, <1>7, Zenon DEF Suspend, Resume, ArchiveTenant, transitionStatus
<1>8. ASSUME UNCHANGED tenantVars PROVE Stores'
  BY <1>5, <1>8, Zenon DEF tenantVars
<1>9. QED
  BY <1>2, <1>3, <1>4, <1>6, <1>7, <1>8, Zenon DEF TenantNext

(* However many requests for however many organisations overlap, fail or   *)
(* die: an organisation has a key of its own and its created event, what   *)
(* was answered ok is complete, and a key is forgotten unreported only     *)
(* where the process died or Validate refused the org_code after the key   *)
(* was made.                                                               *)
THEOREM OnboardingAccounted == TenantSpec => []TenantsAreAccounted
<1>1. TenantInv => OnboardingIsAccounted
  <2> SUFFICES ASSUME TenantInv PROVE OnboardingIsAccounted
    BY Zenon
  <2>1. \A o \in OrgCodes : known(o) =>
          /\ <<o, "created">> \in tenantOutbox /\ tenants[o].kek > 0
          /\ \A q \in OrgCodes \ {o} : tenants[q].kek # tenants[o].kek
    BY Zenon DEF TenantInv, Organisations
  <2>2. ASSUME NEW r \in Onboardings, onboard[r].answer = "ok"
        PROVE  /\ tenants[onboard[r].org].kek = onboard[r].kek
               /\ tenants[onboard[r].org].bucket = HasBuckets
    <3>1. /\ onboard[r].org \in OrgCodes /\ tenants[onboard[r].org].kek = onboard[r].kek
          /\ HasBuckets => tenants[onboard[r].org].bucket
      BY <2>2, Zenon DEF TenantInv, TenantTypes, Underway
    <3>2. /\ tenants[onboard[r].org].bucket => HasBuckets
          /\ tenants[onboard[r].org].bucket \in BOOLEAN
      BY <3>1, Zenon DEF TenantInv, TenantTypes, Tenant, Organisations
    <3>3. QED
      BY <3>1, <3>2, TenantsAssumption, Zenon
  <2>3. QED
    BY <2>1, <2>2, Zenon DEF OnboardingIsAccounted, TenantInv, KeysAreOwned, owned
<1>2. TenantInv /\ Stores => TenantTypeOK
  <2> SUFFICES ASSUME TenantInv, Stores PROVE TenantTypeOK
    BY Zenon
  <2>1. ASSUME NEW o \in OrgCodes
        PROVE  /\ tenants[o].status \in {"none", "active", "suspended", "archived"}
               /\ tenants[o].kek \in 0..keks
    <3>1. tenants[o] \in Tenant /\ tenants[o].kek <= keks /\ keks \in Nat
      BY Zenon DEF TenantInv, TenantTypes, Organisations
    <3>2. QED
      BY <3>1 DEF Tenant
  <2>2. QED
    BY <2>1, Zenon DEF TenantTypeOK, Stores
<1>3. TenantInit => Stores
  BY Zenon DEF TenantInit, Stores
<1>4. TenantInv /\ Stores => TenantsAreAccounted
  BY <1>1, <1>2, Zenon DEF TenantsAreAccounted
<1>5. QED
  BY <1>3, <1>4, StoresKept, TenantInvariance, PTL DEF TenantSpec
====
