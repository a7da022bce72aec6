------------------------------- MODULE Accounts -------------------------------
(***************************************************************************)
(* Roles, account statuses and MOD grants: the first-admin bootstrap of     *)
(* SetupService (setup.service.ts), the account administration of           *)
(* AdminService (admin.service.ts) and the registration of AuthService.     *)
(*                                                                         *)
(* PostgreSQL runs the transactions at READ COMMITTED.  The two advisory    *)
(* locks are different: 7330 orders the bootstraps, 7331 the role, status   *)
(* and grant changes.  A transaction is split where it reads something it   *)
(* relies on later; its writes appear together, when it commits.  Users are *)
(* identified by what the unique constraints on email and username compare. *)
(***************************************************************************)
EXTENDS Naturals, FiniteSets

CONSTANTS
  Users,       \* the identities that may register
  Grants,      \* MOD grants: a permission, global or for one server
  Requests,    \* slots for HTTP requests in flight at the same time
  Configured,  \* SETUP_TOKEN is set
  Approval,    \* REQUIRE_ADMIN_APPROVAL is "true"
  Perils,      \* subset of {"crash", "db"}: the process dies, a statement fails
  NoUser

ASSUME AccountsAssumption ==
  /\ IsFiniteSet(Users)
  /\ Configured \in BOOLEAN /\ Approval \in BOOLEAN
  /\ Perils \subseteq {"crash", "db"}
  /\ NoUser \notin Users

VARIABLES
  user,       \* the users table, role and status columns: [Users -> Account]
  grants,     \* the mod_permissions table
  sessions,   \* the users with rows in refresh_tokens
  setupDone,  \* setup_state.initialAdminCreated
  token,      \* this process has generated a bootstrap token
  up,         \* the process has booted
  req         \* the requests in flight: [Requests -> Request]

vars == <<user, grants, sessions, setupDone, token, up, req>>

Role == {"ADMIN", "MOD", "USER"}
UserStatus == {"PENDING", "ACTIVE", "BANNED"}
Account == [role : Role \cup {"none"}, status : UserStatus \cup {"ABSENT"}]
Absent == [role |-> "none", status |-> "ABSENT"]

(* `arg` is the requested status, role or grant, `seen` the target's row as *)
(* the transaction has read it.                                             *)
Steps == {"idle", "setup", "setupWrite", "register", "lock", "count", "write"}
Request == [pc : Steps, op : {"none", "setup", "register", "status", "role", "grant"},
            user : Users \cup {NoUser}, arg : UserStatus \cup Role \cup Grants \cup {"none"},
            seen : Account]
Idle == [pc |-> "idle", op |-> "none", user |-> NoUser, arg |-> "none", seen |-> Absent]

(* Accounts have a role and a status, grants name a user, requests are at a *)
(* step of a handler.                                                       *)
TypeOK ==
  /\ user \in [Users -> Account]
  /\ grants \subseteq Users \X Grants
  /\ sessions \subseteq Users
  /\ setupDone \in BOOLEAN /\ token \in BOOLEAN /\ up \in BOOLEAN
  /\ req \in [Requests -> Request]

Init ==
  /\ user = [u \in Users |-> Absent]
  /\ grants = {} /\ sessions = {}
  /\ setupDone = FALSE /\ token = FALSE /\ up = FALSE
  /\ req = [p \in Requests |-> Idle]

Exists(u) == user[u].status # "ABSENT"
ActiveAdmins == {u \in Users : user[u] = [role |-> "ADMIN", status |-> "ACTIVE"]}

Begin(p, step, o, u, arg) ==
  /\ up
  /\ req[p].pc = "idle"
  /\ req' = [req EXCEPT ![p] =
               [pc |-> step, op |-> o, user |-> u, arg |-> arg, seen |-> Absent]]
  /\ UNCHANGED <<user, grants, sessions, setupDone, token, up>>

Goto(p, step) == req' = [req EXCEPT ![p] = [@ EXCEPT !.pc = step]]
End(p) == req' = [req EXCEPT ![p] = Idle]

-----------------------------------------------------------------------------
(* SetupService                                                            *)

(* Mutant: the token is generated only for an empty users table. *)
BootIfEmpty ==
  /\ ~up /\ up' = TRUE
  /\ token' = (~Configured /\ \A u \in Users : ~Exists(u))
  /\ UNCHANGED <<user, grants, sessions, setupDone, req>>

(* onModuleInit: no request is in flight, so the lock is free. *)
Boot ==
  /\ ~up /\ up' = TRUE
  /\ token' = (~Configured /\ ~setupDone)
  /\ UNCHANGED <<user, grants, sessions, setupDone, req>>

(* expectedSetupToken: there is a token that a request can present. *)
TokenExpected == Configured \/ token

(* initAdminRegister past the token test; the password is being hashed. *)
InitAdminRegister(p, u) ==
  /\ TokenExpected
  /\ Begin(p, "setup", "setup", u, "none")

(* Mutant: the bootstrap does not take its lock. *)
NoSetupLock == TRUE

SetupLockFree == \A q \in Requests : req[q].pc # "setupWrite"

(* pg_advisory_xact_lock(7330) and the re-read of the flag. *)
SetupReread(p) ==
  /\ req[p].pc = "setup" /\ SetupLockFree
  /\ IF setupDone THEN End(p) ELSE Goto(p, "setupWrite")
  /\ UNCHANGED <<user, grants, sessions, setupDone, token, up>>

(* INSERT of the admin, UPDATE of the flag and COMMIT; an email or username *)
(* that is taken fails the INSERT and rolls both back.                      *)
SetupCommit(p) ==
  LET u == req[p].user IN
  /\ req[p].pc = "setupWrite"
  /\ IF Exists(u) THEN UNCHANGED <<user, setupDone>>
     ELSE /\ user' = [user EXCEPT ![u] = [role |-> "ADMIN", status |-> "ACTIVE"]]
          /\ setupDone' = TRUE
  /\ End(p)
  /\ UNCHANGED <<grants, sessions, token, up>>

-----------------------------------------------------------------------------
(* Registration, by password or by a new provider identity.                *)

(* The identifier is free; the password is being hashed. *)
RegisterUser(p, u) ==
  /\ ~Exists(u)
  /\ Begin(p, "register", "register", u, "none")

(* createUser: the unique constraints have the last word. *)
CreateUser(p) ==
  LET u == req[p].user IN
  /\ req[p].pc = "register"
  /\ user' = IF Exists(u) THEN user
             ELSE [user EXCEPT ![u] = [role |-> "USER",
                                       status |-> IF Approval THEN "PENDING" ELSE "ACTIVE"]]
  /\ End(p)
  /\ UNCHANGED <<grants, sessions, setupDone, token, up>>

(* issueSession, for any account that may log in. *)
SignIn(u) ==
  /\ up /\ user[u].status = "ACTIVE" /\ u \notin sessions
  /\ sessions' = sessions \cup {u}
  /\ UNCHANGED <<user, grants, setupDone, token, up, req>>

-----------------------------------------------------------------------------
(* AdminService: the guards let a request of an active ADMIN pass.         *)

UpdateStatus(p, u, st) == ActiveAdmins # {} /\ Begin(p, "lock", "status", u, st)
UpdateRole(p, u, role) == ActiveAdmins # {} /\ Begin(p, "lock", "role", u, role)
GrantModPermission(p, u, g) == ActiveAdmins # {} /\ Begin(p, "lock", "grant", u, g)

(* revokeModPermission takes no lock: one DELETE. *)
RevokeModPermission(u, g) ==
  /\ up /\ ActiveAdmins # {} /\ <<u, g>> \in grants
  /\ grants' = grants \ {<<u, g>>}
  /\ UNCHANGED <<user, sessions, setupDone, token, up, req>>

(* Mutant: the transactions do not take the advisory lock. *)
NoAdminLock == TRUE

AdminLockFree == \A q \in Requests : req[q].pc \notin {"count", "write"}

(* deactivates and demotes. *)
LosesAdmin(op, target, arg) ==
  /\ target = [role |-> "ADMIN", status |-> "ACTIVE"]
  /\ (op = "status" /\ arg # "ACTIVE") \/ (op = "role" /\ arg # "ADMIN")

(* The refusals that follow the first read: 404, "No changes", "not a MOD". *)
Refused(op, target, arg) ==
  \/ target.status = "ABSENT"
  \/ op = "status" /\ target.status = arg
  \/ op = "role" /\ target.role = arg
  \/ op = "grant" /\ target.role # "MOD"

(* pg_advisory_xact_lock(7331) and the read of the target. *)
AdminRead(p) ==
  LET r == req[p]  target == user[r.user] IN
  /\ r.pc = "lock" /\ AdminLockFree
  /\ IF Refused(r.op, target, r.arg) THEN End(p)
     ELSE req' = [req EXCEPT ![p] = [@ EXCEPT !.seen = target,
                    !.pc = IF LosesAdmin(r.op, target, r.arg) THEN "count" ELSE "write"]]
  /\ UNCHANGED <<user, grants, sessions, setupDone, token, up>>

(* assertActiveAdminsRemain *)
AssertActiveAdminsRemain(p) ==
  /\ req[p].pc = "count"
  /\ IF Cardinality(ActiveAdmins) <= 1 THEN End(p) ELSE Goto(p, "write")
  /\ UNCHANGED <<user, grants, sessions, setupDone, token, up>>

(* UPDATE of the status, with BANNED the DELETE of the sessions, COMMIT. *)
CommitStatus(p) ==
  LET r == req[p] IN
  /\ r.pc = "write" /\ r.op = "status"
  /\ user' = [user EXCEPT ![r.user] = [@ EXCEPT !.status = r.arg]]
  /\ sessions' = IF r.arg = "BANNED" THEN sessions \ {r.user} ELSE sessions
  /\ End(p)
  /\ UNCHANGED <<grants, setupDone, token, up>>

(* Mutant: the grants survive a change of role. *)
CommitRoleOnly(p) ==
  LET r == req[p] IN
  /\ r.pc = "write" /\ r.op = "role"
  /\ user' = [user EXCEPT ![r.user] = [@ EXCEPT !.role = r.arg]]
  /\ End(p)
  /\ UNCHANGED <<grants, sessions, setupDone, token, up>>

(* UPDATE of the role, DELETE of all grants of the user, COMMIT. *)
CommitRole(p) ==
  LET r == req[p] IN
  /\ r.pc = "write" /\ r.op = "role"
  /\ user' = [user EXCEPT ![r.user] = [@ EXCEPT !.role = r.arg]]
  /\ grants' = {g \in grants : g[1] # r.user}
  /\ End(p)
  /\ UNCHANGED <<sessions, setupDone, token, up>>

(* Mutant: the INSERT swaps its columns. *)
CommitGrantSwapped(p) ==
  LET r == req[p] IN
  /\ r.pc = "write" /\ r.op = "grant"
  /\ grants' = grants \cup {<<r.arg, r.user>>}
  /\ End(p)
  /\ UNCHANGED <<user, sessions, setupDone, token, up>>

(* INSERT ... ON CONFLICT DO NOTHING; a duplicate is answered with 409. *)
CommitGrant(p) ==
  LET r == req[p] IN
  /\ r.pc = "write" /\ r.op = "grant"
  /\ grants' = grants \cup {<<r.user, r.arg>>}
  /\ End(p)
  /\ UNCHANGED <<user, sessions, setupDone, token, up>>

-----------------------------------------------------------------------------
(* A statement fails: the transaction is rolled back, its lock released. *)
DbFailure(p) ==
  /\ "db" \in Perils /\ req[p].pc # "idle"
  /\ End(p)
  /\ UNCHANGED <<user, grants, sessions, setupDone, token, up>>

(* The process dies, and with it its transactions and its token. *)
Crash ==
  /\ "crash" \in Perils /\ up
  /\ up' = FALSE /\ token' = FALSE
  /\ req' = [p \in Requests |-> Idle]
  /\ UNCHANGED <<user, grants, sessions, setupDone>>

Arrival(p) ==
  \E u \in Users :
    \/ InitAdminRegister(p, u)
    \/ RegisterUser(p, u)
    \/ \E st \in UserStatus : UpdateStatus(p, u, st)
    \/ \E role \in Role : UpdateRole(p, u, role)
    \/ \E g \in Grants : GrantModPermission(p, u, g)

HandlerStep(p) ==
  \/ SetupReread(p) \/ SetupCommit(p) \/ CreateUser(p)
  \/ AdminRead(p) \/ AssertActiveAdminsRemain(p)
  \/ CommitStatus(p) \/ CommitRole(p) \/ CommitGrant(p)

Next ==
  \/ Boot \/ Crash
  \/ \E p \in Requests : Arrival(p) \/ HandlerStep(p) \/ DbFailure(p)
  \/ \E u \in Users : SignIn(u) \/ \E g \in Grants : RevokeModPermission(u, g)

Spec == Init /\ [][Next]_vars

-----------------------------------------------------------------------------
(* Properties.                                                             *)

(* Once setup is complete there is an ADMIN whose account is ACTIVE,        *)
(* whichever status and role changes of AdminService run at the same time   *)
(* and whichever of their transactions fail.                                *)
ActiveAdminRemains == setupDone => ActiveAdmins # {}

(* Setup creates one administrator: initAdminRegister inserts an ADMIN only *)
(* while the flag is unset and no other user has that role, and sets the    *)
(* flag in the same commit, however many bootstraps run at the same time.   *)
OneFounder ==
  [][\A u \in Users :
       ~Exists(u) /\ user'[u].role = "ADMIN" =>
         /\ ~setupDone /\ setupDone'
         /\ \A w \in Users : user[w].role # "ADMIN"]_vars

(* The grants stay aligned with the roles: a user with a row in             *)
(* mod_permissions is a MOD, although the role is read before the grant is  *)
(* inserted and role changes run at the same time.                          *)
GrantsBelongToMods == \A g \in grants : user[g[1]].role = "MOD"

(* Setup stays possible until it is done: a process that serves requests    *)
(* has a token that initAdminRegister accepts, after any number of crashes  *)
(* and failed bootstraps and whoever has registered before.                 *)
SetupPossible == up /\ ~setupDone => TokenExpected
=============================================================================
