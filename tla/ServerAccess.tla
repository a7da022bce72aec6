---------------------------- MODULE ServerAccess ----------------------------
(***************************************************************************)
(* Who may see, ask for and operate a server: ServerAccessService           *)
(* (server-access.service.ts), the visibility predicate and the discovery   *)
(* list of ServersService, and the guards in front of the lifecycle routes  *)
(* (roles.guard.ts, permissions.guard.ts).                                  *)
(*                                                                         *)
(* None of these handlers opens a transaction: every statement commits by   *)
(* itself, and between two of them a server can be deleted, a row inserted, *)
(* approved or withdrawn, a role or a grant changed by other requests.  A   *)
(* foreign key ties access rows and grants to their server: deleting the    *)
(* server deletes them, and inserting one for a deleted server fails.       *)
(***************************************************************************)
EXTENDS Naturals, FiniteSets

CONSTANTS
  Servers,     \* the server ids that can ever be allotted
  Others,      \* further servers, which a grant may name
  Users,
  Requests,    \* slots for HTTP requests in flight at the same time
  MaxRetries,  \* MAX_RACE_RETRIES
  MaxGrants,   \* bound: grants a user holds at a time
  Perils,      \* subset of {"db"}: a statement fails
  Global, NoServer, NoUser

ASSUME AccessAssumption ==
  /\ MaxRetries \in Nat /\ MaxGrants \in Nat
  /\ Perils \subseteq {"db"}
  /\ Global \notin Servers \cup Others
  /\ NoServer \notin Servers /\ NoUser \notin Users

VARIABLES
  server,      \* the life of each servers row, see ServerStates
  accessType,  \* its accessType column, which nothing ever updates
  access,      \* the server_access table: [Servers -> [Users -> AccessStatus]]
  role,        \* the role column of users
  grants,      \* SERVER_LIFECYCLE rows of mod_permissions: [Users -> SUBSET Scopes]
  req,         \* the requests in flight: [Requests -> Request]
  saw          \* history: what has been true since a request arrived

vars == <<server, accessType, access, role, grants, req, saw>>

(* "live" stands for every status but CREATING: only that one is tested. *)
ServerStates == {"unused", "CREATING", "live", "deleted"}
AccessTypes == {"OPEN", "REQUEST", "PRIVATE"}
AccessStatus == {"none", "PENDING", "APPROVED"}
Roles == {"USER", "MOD", "ADMIN"}
Scopes == {Global} \cup Servers \cup Others

Ops == {"none", "request", "mine", "approve", "revoke", "operate"}
Steps == {"idle", "load", "target", "insert", "find", "reload", "update", "assign",
          "reread", "delete", "permit", "visible", "done"}
Answers == {"none", "created", "alreadyPending", "alreadyApproved", "retry", "approved",
            "stillPending", "revoked", "notFound", "serverNotFound", "open", "admin",
            "forbidden", "admitted", "shown", "error"}

(* `role` is the role JwtAuthGuard has put into request.user, kept where    *)
(* it is used after the arrival.                                            *)
Request == [pc : Steps, op : Ops, srv : Servers \cup {NoServer}, user : Users \cup {NoUser},
            role : Roles, attempt : 0..MaxRetries, ans : Answers]
Idle == [pc |-> "idle", op |-> "none", srv |-> NoServer, user |-> NoUser,
         role |-> "USER", attempt |-> 0, ans |-> "none"]

Facts == {"unrequestable", "granted", "visible", "hidden"}

(* The tables and the requests have the shape above, and the foreign keys   *)
(* hold: only a server that exists has access rows and grants.              *)
TypeOK ==
  /\ server \in [Servers -> ServerStates]
  /\ accessType \in [Servers -> AccessTypes]
  /\ access \in [Servers -> [Users -> AccessStatus]]
  /\ role \in [Users -> Roles]
  /\ grants \in [Users -> SUBSET Scopes]
  /\ req \in [Requests -> Request]
  /\ saw \in [Requests -> SUBSET Facts]
  /\ \A s \in Servers, u \in Users :
       /\ access[s][u] # "none" => server[s] = "live"
       /\ s \in grants[u] => server[s] \in {"CREATING", "live"}

Init ==
  /\ server = [s \in Servers |-> "unused"]
  /\ accessType \in [Servers -> AccessTypes]
  /\ access = [s \in Servers |-> [u \in Users |-> "none"]]
  /\ role = [u \in Users |-> "USER"]
  /\ grants = [u \in Users |-> {}]
  /\ req = [p \in Requests |-> Idle]
  /\ saw = [p \in Requests |-> {}]

Goto(p, step) == req' = [req EXCEPT ![p] = [@ EXCEPT !.pc = step]]
Answer(p, ans) == req' = [req EXCEPT ![p] = [@ EXCEPT !.pc = "done", !.ans = ans]]
Retry(p, step) ==
  req' = [req EXCEPT ![p] = [@ EXCEPT !.pc = step, !.attempt = req[p].attempt + 1]]
SetAccess(s, u, st) == access' = [access EXCEPT ![s] = [@ EXCEPT ![u] = st]]
Tables == <<server, accessType, access, role, grants>>

-----------------------------------------------------------------------------
(* What a user is shown                                                    *)

(* buildVisibilityPredicate, for a principal with role r. *)
Visible(s, u, r) ==
  /\ server[s] = "live"
  /\ r = "ADMIN" \/ accessType[s] = "OPEN" \/ access[s][u] = "APPROVED"

(* listRequestableServers *)
Requestable(s, u) ==
  server[s] = "live" /\ accessType[s] = "REQUEST" /\ access[s][u] # "APPROVED"

(* Of the facts about the server and the user of a request, those that hold *)
(* now and bear on its answer.                                              *)
Fact(r) ==
  LET shown == IF Visible(r.srv, r.user, r.role) THEN "visible" ELSE "hidden"
      granted == grants[r.user] \cap {Global, r.srv} # {}
  IN  CASE r.op = "request" /\ ~Requestable(r.srv, r.user) -> {"unrequestable"}
        [] r.op = "operate" -> {shown} \cup (IF granted THEN {"granted"} ELSE {})
        [] OTHER -> {}

Observe ==
  saw' = [p \in Requests |-> IF req'[p].pc = "idle" THEN {} ELSE saw[p] \cup Fact(req[p])']

-----------------------------------------------------------------------------
(* Arrivals                                                                *)

Begin(p, op, s, u, r, step) ==
  /\ req[p].pc = "idle"
  /\ req' = [req EXCEPT ![p] = [Idle EXCEPT !.pc = step, !.op = op, !.srv = s, !.user = u,
                                            !.role = r]]
  /\ UNCHANGED Tables

(* requestAccess, past the test of the caller's role, and                  *)
(* getMyAccessRequest.                                                      *)
RequestAccess(p, s, u) == role[u] # "ADMIN" /\ Begin(p, "request", s, u, "USER", "load")
GetMyAccessRequest(p, s, u) == Begin(p, "mine", s, u, "USER", "load")

(* approveAccess and revokeAccess, called by some administrator for user u. *)
ApproveAccess(p, s, u) == Begin(p, "approve", s, u, "USER", "load")
RevokeAccess(p, s, u) == Begin(p, "revoke", s, u, "USER", "load")

(* A user calls start, stop or restart: JwtAuthGuard has read the account   *)
(* and RolesGuard lets the role pass.                                       *)
OperateServer(p, s, u) ==
  role[u] \in {"MOD", "ADMIN"} /\ Begin(p, "operate", s, u, role[u], "permit")

-----------------------------------------------------------------------------
(* The statements of the handlers                                          *)

(* loadRequestableServer and loadServerForAdmin, and the tests of the       *)
(* accessType that follow them.                                             *)
LoadServer(p) ==
  LET r == req[p]
      type == accessType[r.srv]
      then == CASE r.op = "request" -> "insert" [] r.op = "mine" -> "find"
                [] r.op = "approve" -> "target" [] OTHER -> "delete"
  IN  /\ r.pc = "load"
      /\ IF server[r.srv] # "live" THEN Answer(p, "serverNotFound")
         ELSE IF r.op = "request" /\ type = "OPEN" THEN Answer(p, "open")
         ELSE IF r.op = "mine" /\ type = "OPEN" THEN Answer(p, "notFound")
         ELSE IF r.op \in {"request", "mine"} /\ type = "PRIVATE" THEN Answer(p, "serverNotFound")
         ELSE Goto(p, then)
      /\ UNCHANGED Tables

(* loadTargetUser, and approveAccess's tests of what has been loaded. *)
LoadTargetUser(p) ==
  LET r == req[p] IN
  /\ r.pc = "target"
  /\ IF role[r.user] = "ADMIN" THEN Answer(p, "admin")
     ELSE IF accessType[r.srv] = "OPEN" THEN Answer(p, "open")
     ELSE Goto(p, "update")
  /\ UNCHANGED Tables

(* tryInsertPending and tryInsertApproved: INSERT ... ON CONFLICT DO        *)
(* NOTHING.  The foreign key fails once the server is deleted.              *)
InsertRow(p, step, st, won, lost) ==
  LET r == req[p] IN
  /\ r.pc = step
  /\ \/ server[r.srv] = "deleted" /\ Answer(p, "error") /\ UNCHANGED access
     \/ /\ server[r.srv] # "deleted" /\ access[r.srv][r.user] = "none"
        /\ SetAccess(r.srv, r.user, st)
        /\ Answer(p, won)
     \/ /\ server[r.srv] # "deleted" /\ access[r.srv][r.user] # "none"
        /\ lost
        /\ UNCHANGED access
  /\ UNCHANGED <<server, accessType, role, grants>>

TryInsertPending(p) == InsertRow(p, "insert", "PENDING", "created", Goto(p, "find"))

TryInsertApproved(p) ==
  InsertRow(p, "assign", "APPROVED", "approved",
            IF req[p].attempt >= MaxRetries THEN Goto(p, "reread") ELSE Retry(p, "update"))

(* tryApprovePending: UPDATE ... WHERE status = 'PENDING'. *)
TryApprovePending(p) ==
  LET r == req[p] IN
  /\ r.pc = "update"
  /\ \/ /\ access[r.srv][r.user] = "PENDING"
        /\ SetAccess(r.srv, r.user, "APPROVED")
        /\ Answer(p, "approved")
     \/ /\ access[r.srv][r.user] # "PENDING"
        /\ Goto(p, "find")
        /\ UNCHANGED access
  /\ UNCHANGED <<server, accessType, role, grants>>

(* Mutant: any existing row is taken for an approval. *)
FindOwnAccessHasty(p) ==
  LET r == req[p]
      row == access[r.srv][r.user]
  IN  /\ r.pc = "find" /\ r.op \in {"request", "mine"}
      /\ CASE r.op = "mine" -> Answer(p, IF row = "none" THEN "notFound" ELSE "shown")
           [] r.op = "request" /\ row # "none" -> Answer(p, "alreadyApproved")
           [] OTHER -> Goto(p, "reload")
      /\ UNCHANGED Tables

(* findAccess in upsertPendingWithRetry and getMyAccessRequest. *)
FindOwnAccess(p) ==
  LET r == req[p]
      row == access[r.srv][r.user]
  IN  /\ r.pc = "find" /\ r.op \in {"request", "mine"}
      /\ CASE r.op = "mine" -> Answer(p, IF row = "none" THEN "notFound" ELSE "shown")
           [] r.op = "request" /\ row = "PENDING" -> Answer(p, "alreadyPending")
           [] r.op = "request" /\ row = "APPROVED" -> Answer(p, "alreadyApproved")
           [] OTHER -> Goto(p, "reload")
      /\ UNCHANGED Tables

(* Mutant: the retries are not counted. *)
ReloadServerForever(p) ==
  LET r == req[p] IN
  /\ r.pc = "reload"
  /\ IF server[r.srv] = "live" THEN Goto(p, "insert") ELSE Answer(p, "serverNotFound")
  /\ UNCHANGED Tables

(* upsertPendingWithRetry found no row although its INSERT met one: the     *)
(* server is loaded again, and the INSERT tried once more or given up.      *)
ReloadServer(p) ==
  LET r == req[p]
      requests == server[r.srv] = "live" /\ accessType[r.srv] = "REQUEST"
  IN  /\ r.pc = "reload"
      /\ CASE ~requests -> Answer(p, "serverNotFound")
           [] requests /\ r.attempt >= MaxRetries -> Answer(p, "retry")
           [] OTHER -> Retry(p, "insert")
      /\ UNCHANGED Tables

(* findAccess in approveWithRetry: a PRIVATE server is assigned directly,   *)
(* a REQUEST server needs the user's request.                               *)
FindForApproval(p) ==
  LET r == req[p]
      row == access[r.srv][r.user]
  IN  /\ r.pc = "find" /\ r.op = "approve"
      /\ CASE row = "APPROVED" -> Answer(p, "alreadyApproved")
           [] row = "PENDING" /\ r.attempt >= MaxRetries -> Answer(p, "stillPending")
           [] row = "PENDING" /\ r.attempt < MaxRetries -> Retry(p, "update")
           [] row = "none" /\ accessType[r.srv] = "REQUEST" -> Answer(p, "notFound")
           [] OTHER -> Goto(p, "assign")
      /\ UNCHANGED Tables

(* Mutant: who has lost the last race takes the winner for an approval. *)
RereadAccessNever(p) ==
  /\ req[p].pc = "reread"
  /\ Answer(p, "alreadyApproved")
  /\ UNCHANGED Tables

(* approveWithRetry has lost its last race: it tells what it reads. *)
RereadAccess(p) ==
  LET row == access[req[p].srv][req[p].user] IN
  /\ req[p].pc = "reread"
  /\ Answer(p, CASE row = "APPROVED" -> "alreadyApproved"
                 [] row = "PENDING" -> "stillPending"
                 [] OTHER -> "notFound")
  /\ UNCHANGED Tables

(* The DELETE ... RETURNING of revokeAccess. *)
DeleteAccess(p) ==
  LET r == req[p] IN
  /\ r.pc = "delete"
  /\ SetAccess(r.srv, r.user, "none")
  /\ Answer(p, IF access[r.srv][r.user] = "none" THEN "notFound" ELSE "revoked")
  /\ UNCHANGED <<server, accessType, role, grants>>

(* Mutant: a grant for one server is good for all. *)
PermissionsGuardUnscoped(p) ==
  /\ req[p].pc = "permit"
  /\ IF req[p].role = "ADMIN" \/ grants[req[p].user] # {}
     THEN Goto(p, "visible") ELSE Answer(p, "forbidden")
  /\ UNCHANGED Tables

(* PermissionsGuard.canActivate: RolesGuard has let only MOD and ADMIN by. *)
PermissionsGuard(p) ==
  LET r == req[p] IN
  /\ r.pc = "permit"
  /\ IF r.role = "ADMIN" \/ grants[r.user] \cap {Global, r.srv} # {}
     THEN Goto(p, "visible") ELSE Answer(p, "forbidden")
  /\ UNCHANGED Tables

(* loadVisibleServer, the first statement of the lifecycle operations. *)
LoadVisibleServer(p) ==
  LET r == req[p] IN
  /\ r.pc = "visible"
  /\ Answer(p, IF Visible(r.srv, r.user, r.role) THEN "admitted" ELSE "serverNotFound")
  /\ UNCHANGED Tables

(* A statement fails.  requestAccess's last load reads the failure as a     *)
(* missing server.                                                          *)
DbFailure(p) ==
  LET r == req[p] IN
  /\ "db" \in Perils
  /\ r.pc \notin {"idle", "done"}
  /\ Answer(p, IF r.pc = "reload" /\ r.attempt >= MaxRetries THEN "serverNotFound" ELSE "error")
  /\ UNCHANGED Tables

Return(p) ==
  /\ req[p].pc = "done"
  /\ req' = [req EXCEPT ![p] = Idle]
  /\ UNCHANGED Tables

-----------------------------------------------------------------------------
(* What other requests do to the tables meanwhile                          *)

(* createServer inserts the CREATING row, then finishes it or takes it      *)
(* back; deleteServer erases a finished one, and the foreign keys cascade.  *)
CreateServer(s) ==
  /\ server[s] = "unused"
  /\ server' = [server EXCEPT ![s] = "CREATING"]
  /\ UNCHANGED <<accessType, access, role, grants, req>>

FinishServer(s) ==
  /\ server[s] = "CREATING"
  /\ server' = [server EXCEPT ![s] = "live"]
  /\ UNCHANGED <<accessType, access, role, grants, req>>

(* Mutant: server_access does not cascade. *)
EraseServerOnly(s) ==
  /\ server[s] \in {"CREATING", "live"}
  /\ server' = [server EXCEPT ![s] = "deleted"]
  /\ grants' = [u \in Users |-> grants[u] \ {s}]
  /\ UNCHANGED <<accessType, access, role, req>>

EraseServer(s) ==
  /\ server[s] \in {"CREATING", "live"}
  /\ server' = [server EXCEPT ![s] = "deleted"]
  /\ access' = [access EXCEPT ![s] = [u \in Users |-> "none"]]
  /\ grants' = [u \in Users |-> grants[u] \ {s}]
  /\ UNCHANGED <<accessType, role, req>>

(* AdminService.updateRole: every grant of the user goes. *)
UpdateRole(u, r) ==
  /\ role[u] # r
  /\ role' = [role EXCEPT ![u] = r]
  /\ grants' = [grants EXCEPT ![u] = {}]
  /\ UNCHANGED <<server, accessType, access, req>>

(* grantModPermission and revokeModPermission, for SERVER_LIFECYCLE. *)
GrantModPermission(u, scope) ==
  /\ role[u] = "MOD"
  /\ scope \in Servers => server[scope] \in {"CREATING", "live"}
  /\ scope \notin grants[u] /\ Cardinality(grants[u]) < MaxGrants
  /\ grants' = [grants EXCEPT ![u] = @ \cup {scope}]
  /\ UNCHANGED <<server, accessType, access, role, req>>

RevokeModPermission(u, scope) ==
  /\ scope \in grants[u]
  /\ grants' = [grants EXCEPT ![u] = @ \ {scope}]
  /\ UNCHANGED <<server, accessType, access, role, req>>

-----------------------------------------------------------------------------
Arrival(p, s, u) ==
  \/ RequestAccess(p, s, u) \/ GetMyAccessRequest(p, s, u)
  \/ ApproveAccess(p, s, u) \/ RevokeAccess(p, s, u)
  \/ OperateServer(p, s, u)

HandlerStep(p) ==
  \/ LoadServer(p) \/ LoadTargetUser(p)
  \/ TryInsertPending(p) \/ FindOwnAccess(p) \/ ReloadServer(p)
  \/ TryApprovePending(p) \/ FindForApproval(p) \/ TryInsertApproved(p) \/ RereadAccess(p)
  \/ DeleteAccess(p)
  \/ PermissionsGuard(p) \/ LoadVisibleServer(p)
  \/ DbFailure(p) \/ Return(p)

Environment ==
  \/ \E s \in Servers : CreateServer(s) \/ FinishServer(s) \/ EraseServer(s)
  \/ \E u \in Users :
       \/ \E r \in Roles : UpdateRole(u, r)
       \/ \E scope \in Scopes : GrantModPermission(u, scope) \/ RevokeModPermission(u, scope)

Next ==
  \/ \E p \in Requests : HandlerStep(p) /\ Observe
  \/ \E p \in Requests, s \in Servers, u \in Users : Arrival(p, s, u) /\ Observe
  \/ Environment /\ Observe

Spec == Init /\ [][Next]_vars

(* The database answers or fails every statement, and Node resumes every    *)
(* handler.  Nothing is asked of clients, administrators or the servers.    *)
FairSpec == Spec /\ \A p \in Requests : WF_vars(HandlerStep(p) /\ Observe)

-----------------------------------------------------------------------------
(* A request as a call of the contract, which knows of those that write. *)
CallOf(r) ==
  LET writes == r.op \in {"request", "approve", "revoke"}
      state == IF r.pc = "done" THEN "answered" ELSE "pending"
  IN  [state |-> IF writes THEN state ELSE "idle",
       op    |-> IF writes THEN r.op ELSE "none",
       srv   |-> IF writes THEN r.srv ELSE NoServer,
       user  |-> IF writes THEN r.user ELSE NoUser,
       ans   |-> IF writes THEN r.ans ELSE "none"]

Calls == [p \in Requests |-> CallOf(req[p])]

Contract == INSTANCE AccessContract WITH call <- Calls

(* The retry loops of requestAccess and approveAccess, statement by         *)
(* statement and with every interleaving of deletions and of each other,    *)
(* implement the atomic operations of AccessContract: each call changes the *)
(* table at most once, its answer is true of the row at that moment, also   *)
(* after the last retry, and a refused call changes nothing.                *)
AtomicContract == Contract!Spec

(* startServer, stopServer and restartServer are admitted for a moderator   *)
(* only when PermissionsGuard and loadVisibleServer each had cause: since   *)
(* the request arrived there was a moment with a grant for this server (or  *)
(* for all), and one when the server was visible; and a server visible all  *)
(* along is never reported missing.                                         *)
OperatesOnlyEntitled ==
  \A p \in Requests :
    /\ req[p].ans = "admitted" =>
         "visible" \in saw[p] /\ (req[p].role = "MOD" => "granted" \in saw[p])
    /\ req[p].op = "operate" /\ req[p].ans = "serverNotFound" => "hidden" \in saw[p]

(* What listRequestableServers offers can be requested: requestAccess       *)
(* answers "not found", "open" or "already approved" only if at some moment *)
(* since it arrived the list did not show the server to this user.  Exempt  *)
(* is "not found" at the last attempt, where the code reports a database    *)
(* failure at the last load of upsertPendingWithRetry as a missing server,  *)
(* too.                                                                     *)
RequestableHonoured ==
  \A p \in Requests :
    LET r == req[p]
        turnedAway == \/ r.ans \in {"open", "alreadyApproved"}
                      \/ r.ans = "serverNotFound" /\ r.attempt < MaxRetries
    IN  r.op = "request" /\ turnedAway => "unrequestable" \in saw[p]

(* The retry loops are bounded: every request is answered, however long     *)
(* other requests go on changing the row under it.                          *)
CallsEnd == \A p \in Requests : req[p].pc # "idle" ~> req[p].pc = "idle"
=============================================================================
