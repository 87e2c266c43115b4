------------------------------ MODULE Accounts ------------------------------
(***************************************************************************)
(* The users of an organisation: their administration, their passwords and *)
(* their second factor.  A service method is one transaction where the     *)
(* code opens one, and several steps where it reads in one transaction and *)
(* writes in another.                                                      *)
(***************************************************************************)
EXTENDS Naturals, FiniteSets

CONSTANTS
  Callers,      \* callers of the admin routes: roles and organisation
  Members,      \* users of organisation "own"
  Requests,     \* self-service requests in progress
  BackupCodes,
  MaxSecrets,   \* bound on enrolments
  MaxPasswords  \* bound on password changes

ASSUME AccountsAssumption == MaxSecrets \in Nat /\ MaxPasswords \in Nat

VARIABLES
  users,      \* the users table
  totp,       \* the auth_totp table
  request,    \* requests between two of their transactions
  secrets,    \* TOTP secrets generated
  passwords,  \* passwords set
  announced,  \* user_deleted events in the outbox, per user
  accepted,   \* times a backup code was accepted
  raced       \* history: users whose factor was confirmed while a Disable that
              \* had found no row was still to clear their flag

accountVars == <<users, totp, request, secrets, passwords, announced, accepted, raced>>

Roles == {"operator", "supervisor", "admin"}
Self == {"self.change_password", "self.totp_enroll", "self.totp_disable"}
Running == {"project.list", "call.start", "call.end"}
Monitoring == {"project.assign_operator", "call.listen", "call.list", "recording.list",
               "recording.download", "report.generate", "report.list", "billing.view"}
Managing == {"user.create", "user.list", "user.get", "user.update", "user.archive",
             "user.reset_password", "project.create", "billing.tariff_update"}
rbacMatrix ==
  [operator |-> Self \cup Running,
   supervisor |-> Self \cup Running \cup Monitoring,
   admin |-> Self \cup Running \cup Monitoring \cup Managing]
Check(claims, action) == \E r \in claims.roles \cap Roles : action \in rbacMatrix[r]

NoUser == [state |-> "absent", roles |-> {}, mustChange |-> FALSE, pw |-> 0, totpEnabled |-> FALSE]
NoRow == [secret |-> 0, enrolled |-> FALSE, codes |-> {}]
Quiet == [pc |-> "idle", u |-> "none", secret |-> 0, code |-> "none"]
isUser(u) == users[u].state # "absent"

AccountInit ==
  /\ users = [u \in Members |-> NoUser] /\ totp = [u \in Members |-> NoRow]
  /\ request = [p \in Requests |-> Quiet]
  /\ secrets = 0 /\ passwords = 0
  /\ announced = [u \in Members |-> 0]
  /\ accepted = [k \in (1..MaxSecrets) \X BackupCodes |-> 0] /\ raced = {}

at(p, pc, u, secret, code) == request' = [request EXCEPT ![p] = [pc |-> pc, u |-> u, secret |-> secret, code |-> code]]
end(p) == request' = [request EXCEPT ![p] = Quiet]
selfVars == <<totp, request, secrets, accepted, raced>>

-----------------------------------------------------------------------------
(* Administration: the routes under /auth/users.                           *)
requireRole(c) == "admin" \in c.roles \/ Check(c, "user.list")
RequireSameTenant(c, u) == c.org = "own" /\ isUser(u)
adminRoute(c, u) == requireRole(c) /\ RequireSameTenant(c, u)

setUser(u, new) == users' = [users EXCEPT ![u] = new]

Insert(u, roles) ==
  ~isUser(u) /\ setUser(u, [state |-> "active", roles |-> roles, mustChange |-> TRUE, pw |-> passwords + 1,
                            totpEnabled |-> FALSE])
Create(u, roles) ==
  /\ roles # {} /\ passwords < MaxPasswords
  /\ passwords' = passwords + 1
  /\ Insert(u, roles)
  /\ UNCHANGED <<selfVars, announced>>
createUser(c, u, roles) == requireRole(c) /\ c.org = "own" /\ Create(u, roles)

UpdateRoles(u, roles) == setUser(u, [users[u] EXCEPT !.roles = roles])
UpdateRole(u, roles) == roles # {} /\ UpdateRoles(u, roles) /\ UNCHANGED <<selfVars, passwords, announced>>
updateRoles(c, u, roles) == adminRoute(c, u) /\ UpdateRole(u, roles)

(* The event is left to a second transaction.                              *)
FaultSilentArchive(u) == UNCHANGED announced

appendUserDeleted(u) == announced' = [announced EXCEPT ![u] = @ + 1]

StoreArchive(u) == setUser(u, [users[u] EXCEPT !.state = "archived"])
(* One transaction; an account already archived is announced again.        *)
Archive(u) ==
  /\ StoreArchive(u)
  /\ announced[u] < 2 /\ appendUserDeleted(u)
  /\ UNCHANGED <<selfVars, passwords>>
archiveUser(c, u) == adminRoute(c, u) /\ Archive(u)

StoreRestore(u) == users[u].state = "archived" /\ setUser(u, [users[u] EXCEPT !.state = "active"])
Restore(u) == StoreRestore(u) /\ UNCHANGED <<selfVars, passwords, announced>>
restoreUser(c, u) == adminRoute(c, u) /\ Restore(u)

UpdatePassword(u, must) ==
  /\ isUser(u) /\ passwords < MaxPasswords
  /\ passwords' = passwords + 1
  /\ setUser(u, [users[u] EXCEPT !.pw = passwords + 1, !.mustChange = must])
ResetPassword(u) == UpdatePassword(u, TRUE) /\ UNCHANGED <<selfVars, announced>>
resetPassword(c, u) == adminRoute(c, u) /\ ResetPassword(u)

-----------------------------------------------------------------------------
(* ChangePassword: the old hash is read and compared, then the new one     *)
(* written; at READ COMMITTED another change may come in between.          *)
ChangePassword(p, u) ==
  /\ request[p] = Quiet /\ isUser(u)
  /\ at(p, "changePassword", u, 0, "none")
  /\ UNCHANGED <<users, totp, secrets, passwords, announced, accepted, raced>>
applyPasswordChange(p) ==
  /\ request[p].pc = "changePassword"
  /\ UpdatePassword(request[p].u, FALSE)
  /\ end(p)
  /\ UNCHANGED <<totp, secrets, announced, accepted, raced>>

-----------------------------------------------------------------------------
(* Enroll: refused once confirmed; the new secret is written by a second   *)
(* transaction.                                                            *)
Enroll(p, u) ==
  /\ request[p] = Quiet /\ isUser(u) /\ secrets < MaxSecrets
  /\ ~totp[u].enrolled
  /\ secrets' = secrets + 1
  /\ at(p, "enroll", u, secrets + 1, "none")
  /\ UNCHANGED <<users, totp, passwords, announced, accepted, raced>>
generateBackupCodes(secret) == {secret} \X BackupCodes
Upsert(p) ==
  /\ request[p].pc = "enroll"
  /\ LET s == request[p].secret IN
       totp' = [totp EXCEPT ![request[p].u] =
                  [secret |-> s, enrolled |-> FALSE, codes |-> generateBackupCodes(s)]]
  /\ end(p)
  /\ UNCHANGED <<users, secrets, passwords, announced, accepted, raced>>

(* Confirm: the code is checked against the row read; the second           *)
(* transaction enrols whatever row there is then, and sets the user's flag.*)
loadAnyState(u) == totp[u] # NoRow
Confirm(p, u) ==
  /\ request[p] = Quiet
  /\ loadAnyState(u) /\ ~totp[u].enrolled
  /\ at(p, "confirm", u, totp[u].secret, "none")
  /\ UNCHANGED <<users, totp, secrets, passwords, announced, accepted, raced>>
SetTOTPEnabled(u, on) == users' = [users EXCEPT ![u].totpEnabled = on]
clearing(u) == \E q \in Requests : request[q].pc = "clear" /\ request[q].u = u
StoreConfirm(p) ==
  LET u == request[p].u IN
  /\ request[p].pc = "confirm"
  /\ IF totp[u] = NoRow THEN UNCHANGED <<totp, users, raced>>
     ELSE /\ totp' = [totp EXCEPT ![u].enrolled = TRUE] /\ SetTOTPEnabled(u, TRUE)
          /\ raced' = IF clearing(u) THEN raced \cup {u} ELSE raced \ {u}
  /\ end(p)
  /\ UNCHANGED <<secrets, passwords, announced, accepted>>

(* Only the flag is cleared.                                               *)
FaultKeepsRow(u) == SetTOTPEnabled(u, FALSE) /\ UNCHANGED totp

(* Disable: one transaction at READ COMMITTED.  A DELETE that finds the    *)
(* row holds it until the commit, so nobody writes it in between; one that *)
(* finds none holds nothing, and the unconditional UPDATE of the flag      *)
(* comes after whatever another request commits meanwhile.                 *)
deleteAndClear(u) == totp' = [totp EXCEPT ![u] = NoRow] /\ SetTOTPEnabled(u, FALSE)
Disable(u) ==
  /\ isUser(u) /\ totp[u] # NoRow
  /\ deleteAndClear(u) /\ raced' = raced \ {u}
  /\ UNCHANGED <<request, secrets, passwords, announced, accepted>>
DeleteFindsNone(p, u) ==
  /\ request[p] = Quiet /\ isUser(u) /\ totp[u] = NoRow
  /\ at(p, "clear", u, 0, "none")
  /\ UNCHANGED <<users, totp, secrets, passwords, announced, accepted, raced>>
ClearFlag(p) ==
  /\ request[p].pc = "clear"
  /\ SetTOTPEnabled(request[p].u, FALSE)
  /\ end(p)
  /\ UNCHANGED <<totp, secrets, passwords, announced, accepted, raced>>

(* Verify with a backup code: found among the hashes read, then removed    *)
(* by an update guarded on its being there still.                          *)
loadEnrolledState(u) == totp[u].enrolled
Verify(p, u, code) ==
  /\ request[p] = Quiet
  /\ loadEnrolledState(u) /\ <<totp[u].secret, code>> \in totp[u].codes
  /\ at(p, "burn", u, totp[u].secret, code)
  /\ UNCHANGED <<users, totp, secrets, passwords, announced, accepted, raced>>

(* The update is not guarded.                                              *)
FaultUnguardedRemove(u, k) == TRUE

stillThere(u, k) == k \in totp[u].codes

MarkBackupUsed(p) ==
  LET u == request[p].u  k == <<request[p].secret, request[p].code>> IN
  /\ request[p].pc = "burn"
  /\ IF stillThere(u, k)
     THEN /\ totp' = [totp EXCEPT ![u].codes = @ \ {k}]
          /\ accepted' = [accepted EXCEPT ![k] = @ + 1]
     ELSE UNCHANGED <<totp, accepted>>
  /\ end(p)
  /\ UNCHANGED <<users, secrets, passwords, announced, raced>>

-----------------------------------------------------------------------------
AdminNext ==
  \E c \in Callers, u \in Members :
    \/ \E roles \in {{"operator"}, {"admin"}} : createUser(c, u, roles) \/ updateRoles(c, u, roles)
    \/ archiveUser(c, u) \/ restoreUser(c, u) \/ resetPassword(c, u)
SelfNext ==
  \/ \E p \in Requests, u \in Members :
       \/ ChangePassword(p, u) \/ Enroll(p, u) \/ Confirm(p, u) \/ DeleteFindsNone(p, u)
       \/ \E code \in BackupCodes : Verify(p, u, code)
  \/ \E p \in Requests : applyPasswordChange(p) \/ Upsert(p) \/ StoreConfirm(p)
                          \/ MarkBackupUsed(p) \/ ClearFlag(p)
  \/ \E u \in Members : Disable(u)
AccountNext == AdminNext \/ SelfNext

AccountSpec == AccountInit /\ [][AccountNext]_accountVars

-----------------------------------------------------------------------------
AccountTypeOK ==
  /\ \A u \in Members : users[u].state \in {"absent", "active", "archived"} /\ users[u].pw \in 0..passwords
  /\ \A u \in Members : totp[u].secret \in 0..secrets
  /\ secrets \in 0..MaxSecrets /\ passwords \in 0..MaxPasswords

(* An enrolled second factor is asked for: the users flag Login reads is   *)
(* set whenever the row says enrolled, whatever Enroll, Confirm and        *)
(* Disable overlap, except where the factor was confirmed between the two  *)
(* statements of a Disable whose DELETE had found no row; and an archived  *)
(* account has been announced to the other services (totp.go Confirm and   *)
(* Disable, user_service.go Archive).                                      *)
AccountsAgree ==
  \A u \in Members :
    /\ totp[u].enrolled /\ u \notin raced => users[u].totpEnabled
    /\ users[u].state = "archived" => announced[u] > 0

(* A backup code opens one session, whatever requests carry it at the same *)
(* time and whatever enrolment or disabling goes on (totp_store.go         *)
(* MarkBackupUsed).                                                        *)
BackupUsedOnce == \A k \in DOMAIN accepted : accepted[k] <= 1

(* The rows are sound, the second factor and the announcements agree with  *)
(* them, and a backup code opens one session (user_service.go, totp.go).   *)
UsersAreConsistent == AccountTypeOK /\ AccountsAgree /\ BackupUsedOnce
=============================================================================
