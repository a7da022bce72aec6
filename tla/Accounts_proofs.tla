--------------------------- MODULE Accounts_proofs ---------------------------
(***************************************************************************)
(* Proofs about Accounts, for any finite set of users and any number of     *)
(* requests.                                                                *)
(***************************************************************************)
EXTENDS Accounts, FiniteSetTheorems, TLAPS

Locked == {"count", "write"}   \* the steps at which lock 7331 is held

(* What a request knows at each of its steps: in a transaction under the    *)
(* lock the row it has read is still the row in the table, and an admin     *)
(* that is about to be lost leaves another one behind.                      *)
Sound(r) ==
  /\ r.pc # "idle" => r.user \in Users
  /\ r.pc = "setupWrite" => ~setupDone
  /\ r.pc \in {"lock"} \cup Locked =>
       /\ setupDone
       /\ r.op \in {"status", "role", "grant"}
       /\ r.op = "status" => r.arg \in UserStatus
       /\ r.op = "role" => r.arg \in Role
       /\ r.op = "grant" => r.arg \in Grants
  /\ r.pc \in Locked =>
       /\ r.seen = user[r.user] /\ r.seen.status # "ABSENT"
       /\ r.op = "grant" => r.seen.role = "MOD"
  /\ r.pc = "write" /\ LosesAdmin(r.op, r.seen, r.arg) =>
       \E a \in ActiveAdmins : a # r.user

AllSound == \A p \in Requests : Sound(req[p])

(* The two advisory locks exclude each holder's rivals. *)
Exclusive ==
  \A p, q \in Requests : p # q =>
    /\ ~(req[p].pc \in Locked /\ req[q].pc \in Locked)
    /\ ~(req[p].pc = "setupWrite" /\ req[q].pc = "setupWrite")

AdminsFollowSetup == \A u \in Users : user[u].role = "ADMIN" => setupDone
AbsentHasNoRole == \A u \in Users : user[u].status = "ABSENT" => user[u] = Absent

Inv == /\ TypeOK /\ AllSound /\ Exclusive /\ AdminsFollowSetup /\ AbsentHasNoRole
       /\ ActiveAdminRemains /\ GrantsBelongToMods /\ SetupPossible

LEMMA InitInv == Init => Inv
<1> SUFFICES ASSUME Init PROVE Inv
  OBVIOUS
<1>1. Idle \in Request /\ Idle.pc = "idle" /\ Absent \in Account
  BY DEF Idle, Request, Steps, Account, Absent
<1>2. TypeOK
  BY <1>1, Zenon DEF Init, TypeOK
<1>3. AllSound /\ Exclusive
  BY <1>1 DEF Init, AllSound, Sound, Exclusive, Locked
<1>4. AdminsFollowSetup /\ AbsentHasNoRole /\ GrantsBelongToMods
  BY DEF Init, Absent, AdminsFollowSetup, AbsentHasNoRole, GrantsBelongToMods
<1>5. ActiveAdminRemains /\ SetupPossible
  BY DEF Init, ActiveAdminRemains, SetupPossible
<1>6. QED
  BY <1>2, <1>3, <1>4, <1>5 DEF Inv

(* More than one active admin: any given user leaves another one. *)
LEMMA AnotherAdmin ==
  ASSUME NEW u, ~(Cardinality(ActiveAdmins) <= 1)
  PROVE  \E a \in ActiveAdmins : a # u
<1>1. SUFFICES ASSUME ActiveAdmins \subseteq {u}
               PROVE  FALSE
  OBVIOUS
<1>2. IsFiniteSet({u}) /\ Cardinality({u}) = 1
  BY FS_Singleton
<1>3. IsFiniteSet(ActiveAdmins) /\ Cardinality(ActiveAdmins) <= Cardinality({u})
  BY <1>1, <1>2, FS_Subset
<1>4. QED
  BY <1>2, <1>3

LEMMA IdleSound == Idle \in Request /\ Idle.pc = "idle" /\ Sound(Idle)
BY DEF Idle, Request, Steps, Account, Absent, Sound, Locked

(* A step that only moves request p. *)
LEMMA MoveInv ==
  ASSUME Inv, NEW p \in Requests, NEW r \in Request, req' = [req EXCEPT ![p] = r],
         UNCHANGED <<user, grants, sessions, setupDone, token, up>>,
         Sound(r),
         r.pc \in Locked => \A q \in Requests : q # p => req[q].pc \notin Locked,
         r.pc = "setupWrite" => \A q \in Requests : q # p => req[q].pc # "setupWrite"
  PROVE  Inv'
<1>1. req'[p] = r /\ \A q \in Requests : q # p => req'[q] = req[q]
  BY DEF Inv, TypeOK
<1>2. TypeOK'
  BY DEF Inv, TypeOK
<1>3. AllSound'
  <2>1. ASSUME NEW q \in Requests
        PROVE  Sound(req[q])' = Sound(req'[q])
    BY DEF Sound, ActiveAdmins
  <2>2. \A q \in Requests : Sound(req'[q])
    BY <1>1 DEF Inv, AllSound
  <2>3. QED
    BY <2>1, <2>2 DEF AllSound
<1>4. Exclusive'
  BY <1>1 DEF Inv, Exclusive
<1>5. AdminsFollowSetup' /\ AbsentHasNoRole' /\ ActiveAdminRemains' /\ GrantsBelongToMods'
      /\ SetupPossible'
  BY DEF Inv, AdminsFollowSetup, AbsentHasNoRole, ActiveAdminRemains, ActiveAdmins,
         GrantsBelongToMods, SetupPossible, TokenExpected
<1>6. QED
  BY <1>2, <1>3, <1>4, <1>5 DEF Inv

LEMMA EndInv ==
  ASSUME Inv, NEW p \in Requests, End(p),
         UNCHANGED <<user, grants, sessions, setupDone, token, up>>
  PROVE  Inv'
BY IdleSound, MoveInv, Zenon DEF End, Locked

LEMMA ArrivalInv ==
  ASSUME Inv, NEW p \in Requests, Arrival(p)
  PROVE  Inv'
<1>1. PICK u \in Users : \/ InitAdminRegister(p, u) \/ RegisterUser(p, u)
                         \/ \E st \in UserStatus : UpdateStatus(p, u, st)
                         \/ \E role \in Role : UpdateRole(p, u, role)
                         \/ \E g \in Grants : GrantModPermission(p, u, g)
  BY DEF Arrival
<1> DEFINE New(step, o, arg) ==
      [pc |-> step, op |-> o, user |-> u, arg |-> arg, seen |-> Absent]
<1>2. Absent \in Account
  BY DEF Absent, Account
<1>3. ASSUME NEW step \in {"setup", "register", "lock"},
             NEW o \in {"setup", "register", "status", "role", "grant"},
             NEW arg \in UserStatus \cup Role \cup Grants \cup {"none"},
             Begin(p, step, o, u, arg),
             step = "lock" => /\ setupDone
                              /\ o \in {"status", "role", "grant"}
                              /\ o = "status" => arg \in UserStatus
                              /\ o = "role" => arg \in Role
                              /\ o = "grant" => arg \in Grants
      PROVE  Inv'
  <2>1. New(step, o, arg) \in Request
    BY <1>2 DEF Request, Steps
  <2>2. Sound(New(step, o, arg)) /\ New(step, o, arg).pc \notin Locked \cup {"setupWrite"}
    BY <1>3 DEF Sound, Locked
  <2>3. QED
    BY <1>3, <2>1, <2>2, MoveInv, Zenon DEF Begin
<1>4. ActiveAdmins # {} => setupDone
  BY DEF ActiveAdmins, Inv, AdminsFollowSetup
<1>5. QED
  BY <1>1, <1>3, <1>4
     DEF InitAdminRegister, RegisterUser, UpdateStatus, UpdateRole, GrantModPermission

(* A commit of request p that changes the row of its user u to a: either u  *)
(* is new or p holds the lock.                                              *)
LEMMA CommitSound ==
  ASSUME Inv, NEW p \in Requests, NEW u \in Users, u = req[p].user, NEW a,
         user' = [user EXCEPT ![u] = a], End(p),
         ~Exists(u) \/ req[p].pc \in Locked,
         setupDone' = setupDone \/ (setupDone' = TRUE /\ req[p].pc = "setupWrite")
  PROVE  AllSound' /\ Exclusive'
<1>1. /\ req'[p] = Idle /\ \A q \in Requests : q # p => req'[q] = req[q]
      /\ \A w \in Users : w # u => user'[w] = user[w]
      /\ req \in [Requests -> Request] /\ user \in [Users -> Account]
  BY DEF End, Inv, TypeOK
<1>2. Exclusive'
  BY <1>1, IdleSound DEF Inv, Exclusive, Locked
<1>3. ASSUME NEW q \in Requests, q # p
      PROVE  Sound(req[q])'
  <2>1. Sound(req[q]) /\ req'[q] = req[q]
    BY <1>1, <1>3 DEF Inv, AllSound
  <2>2. req[q].pc = "setupWrite" => ~setupDone'
    BY <1>3, <2>1 DEF Sound, Inv, Exclusive
  <2>3. req[q].pc \in Locked => req[q].user # u /\ req[q].user \in Users /\ ~Exists(u)
    BY <1>3, <2>1 DEF Sound, Inv, Exclusive, Exists, Locked
  <2>4. ~Exists(u) => ActiveAdmins \subseteq ActiveAdmins'
    BY <1>1 DEF ActiveAdmins, Exists
  <2>5. setupDone => setupDone'
    BY Zenon
  <2>6. QED
    BY <1>1, <2>1, <2>2, <2>3, <2>4, <2>5 DEF Sound, Locked
<1>4. Sound(req[p])'
  <2>1. req'[p].pc = "idle"
    BY <1>1, IdleSound
  <2>2. QED
    BY <2>1 DEF Sound, Locked
<1>5. AllSound'
  BY <1>3, <1>4 DEF AllSound
<1>6. QED
  BY <1>2, <1>5

LEMMA InsertInv ==
  ASSUME Inv, NEW p \in Requests, SetupCommit(p) \/ CreateUser(p)
  PROVE  Inv'
<1> DEFINE u == req[p].user
<1>1. /\ u \in Users /\ req \in [Requests -> Request] /\ user \in [Users -> Account]
      /\ Idle \in Request
  BY IdleSound DEF SetupCommit, CreateUser, Inv, AllSound, Sound, TypeOK
<1>2. CASE Exists(u)
  BY <1>2, EndInv DEF SetupCommit, CreateUser
<1>3. ASSUME ~Exists(u), NEW a \in Account, user' = [user EXCEPT ![u] = a], End(p),
             UNCHANGED <<grants, sessions, token, up>>, a.status # "ABSENT",
             \/ setupDone' = setupDone /\ a.role = "USER"
             \/ /\ setupDone' = TRUE /\ req[p].pc = "setupWrite"
                /\ a = [role |-> "ADMIN", status |-> "ACTIVE"]
      PROVE  Inv'
  <2>1. AllSound' /\ Exclusive'
    BY <1>1, <1>3, CommitSound, Zenon
  <2>2. TypeOK'
    BY <1>1, <1>3, Zenon DEF End, Inv, TypeOK
  <2>3. user'[u] = a /\ \A w \in Users : w # u => user'[w] = user[w]
    BY <1>1, <1>3
  <2>4. AdminsFollowSetup' /\ AbsentHasNoRole'
    BY <1>3, <2>3 DEF Inv, AdminsFollowSetup, AbsentHasNoRole
  <2>5. ActiveAdmins \subseteq ActiveAdmins'
    BY <1>3, <2>3 DEF ActiveAdmins, Exists
  <2>6. ActiveAdminRemains'
    <3>1. CASE setupDone' = setupDone
      BY <2>5, <3>1 DEF Inv, ActiveAdminRemains
    <3>2. CASE a = [role |-> "ADMIN", status |-> "ACTIVE"]
      BY <1>1, <2>3, <3>2 DEF ActiveAdminRemains, ActiveAdmins
    <3>3. QED
      BY <1>3, <3>1, <3>2
  <2>7. GrantsBelongToMods'
    <3>1. \A g \in grants : g[1] \in Users /\ g[1] # u
      BY <1>3 DEF Inv, TypeOK, GrantsBelongToMods, AbsentHasNoRole, Absent, Exists
    <3>2. QED
      BY <1>3, <2>3, <3>1 DEF Inv, GrantsBelongToMods
  <2>8. SetupPossible'
    BY <1>3 DEF Inv, SetupPossible, TokenExpected
  <2>9. QED
    BY <2>1, <2>2, <2>4, <2>6, <2>7, <2>8 DEF Inv
<1>4. CASE ~Exists(u)
  <2>1. /\ [role |-> "ADMIN", status |-> "ACTIVE"] \in Account
        /\ \A st \in {"PENDING", "ACTIVE"} : [role |-> "USER", status |-> st] \in Account
    BY DEF Account, Role, UserStatus
  <2>2. CASE SetupCommit(p)
    BY <1>3, <1>4, <2>1, <2>2, Zenon DEF SetupCommit
  <2>3. CASE CreateUser(p)
    BY <1>3, <1>4, <2>1, <2>3, Zenon DEF CreateUser
  <2>4. QED
    BY <2>2, <2>3
<1>5. QED
  BY <1>2, <1>4

LEMMA TransactionInv ==
  ASSUME Inv, NEW p \in Requests,
         SetupReread(p) \/ AdminRead(p) \/ AssertActiveAdminsRemain(p)
  PROVE  Inv'
<1> DEFINE r0 == req[p]
<1>1. r0 \in Request /\ Sound(r0) /\ user \in [Users -> Account]
  BY DEF Inv, AllSound, TypeOK
<1>2. CASE SetupReread(p)
  <2>1. CASE setupDone
    BY <1>2, <2>1, EndInv DEF SetupReread
  <2>2. CASE ~setupDone
    <3> DEFINE r == [r0 EXCEPT !.pc = "setupWrite"]
    <3>1. r \in Request /\ r.pc = "setupWrite" /\ r.user = r0.user
      BY <1>1 DEF Request, Steps
    <3>2. Sound(r)
      BY <1>1, <1>2, <2>2, <3>1 DEF SetupReread, Sound, Locked
    <3>3. QED
      BY <1>2, <2>2, <3>1, <3>2, MoveInv, Zenon DEF SetupReread, Goto, SetupLockFree, Locked
  <2>3. QED
    BY <2>1, <2>2
<1>3. CASE AdminRead(p)
  <2> DEFINE target == user[r0.user]
             step == IF LosesAdmin(r0.op, target, r0.arg) THEN "count" ELSE "write"
             r == [r0 EXCEPT !.seen = target, !.pc = step]
  <2>1. CASE Refused(r0.op, target, r0.arg)
    BY <1>3, <2>1, EndInv DEF AdminRead
  <2>2. CASE ~Refused(r0.op, target, r0.arg)
    <3>1. r0.user \in Users /\ target \in Account /\ step \in Locked
      BY <1>1, <1>3 DEF AdminRead, Sound, Locked
    <3>2. /\ r \in Request /\ r.pc = step /\ r.user = r0.user /\ r.seen = target
          /\ r.op = r0.op /\ r.arg = r0.arg
      BY <1>1, <3>1, Zenon DEF Request, Steps, Locked
    <3>3. Sound(r)
      <4> HIDE DEF r
      <4>1. QED
        BY <1>1, <1>3, <2>2, <3>1, <3>2 DEF AdminRead, Refused, Sound, Locked
    <3>4. req' = [req EXCEPT ![p] = r]
      BY <1>3, <2>2 DEF AdminRead
    <3>5. QED
      <4> HIDE DEF r
      <4>1. QED
        BY <1>3, <3>1, <3>2, <3>3, <3>4, MoveInv, Zenon DEF AdminRead, AdminLockFree, Locked
  <2>3. QED
    BY <2>1, <2>2
<1>4. CASE AssertActiveAdminsRemain(p)
  <2>1. CASE Cardinality(ActiveAdmins) <= 1
    BY <1>4, <2>1, EndInv DEF AssertActiveAdminsRemain
  <2>2. CASE ~(Cardinality(ActiveAdmins) <= 1)
    <3> DEFINE r == [r0 EXCEPT !.pc = "write"]
    <3>1. /\ r \in Request /\ r.pc = "write" /\ r.user = r0.user /\ r.seen = r0.seen
          /\ r.op = r0.op /\ r.arg = r0.arg
      BY <1>1 DEF Request, Steps
    <3>2. Sound(r)
      BY <1>1, <1>4, <2>2, <3>1, AnotherAdmin DEF AssertActiveAdminsRemain, Sound, Locked
    <3>3. \A q \in Requests : q # p => req[q].pc \notin Locked
      BY <1>4 DEF AssertActiveAdminsRemain, Inv, Exclusive, Locked
    <3>4. QED
      BY <1>4, <2>2, <3>1, <3>2, <3>3, MoveInv, Zenon DEF AssertActiveAdminsRemain, Goto, Locked
  <2>3. QED
    BY <2>1, <2>2
<1>5. QED
  BY <1>2, <1>3, <1>4

(* A status or role change keeps an active admin: if it takes one away,     *)
(* another one has been counted and could not be lost since.                *)
LEMMA CommitInv ==
  ASSUME Inv, NEW p \in Requests, CommitStatus(p) \/ CommitRole(p) \/ CommitGrant(p)
  PROVE  Inv'
<1> DEFINE r == req[p]
           u == req[p].user
<1>1. /\ r.pc = "write" /\ Sound(r) /\ u \in Users /\ user \in [Users -> Account]
      /\ user[u] \in Account /\ setupDone /\ r.seen = user[u]
      /\ r.arg \in UserStatus \/ r.op # "status"
      /\ r.arg \in Role \/ r.op # "role"
      /\ Idle \in Request
  BY IdleSound DEF CommitStatus, CommitRole, CommitGrant, Inv, AllSound, Sound, TypeOK, Locked
<1>2. CASE CommitGrant(p)
  <2>1. r.arg \in Grants /\ user[u].role = "MOD"
    BY <1>1, <1>2 DEF CommitGrant, Sound, Locked
  <2>2. GrantsBelongToMods' /\ TypeOK'
    BY <1>1, <1>2, <2>1 DEF CommitGrant, End, Inv, GrantsBelongToMods, TypeOK
  <2>3. user' = [user EXCEPT ![u] = user[u]]
    BY <1>1, <1>2 DEF CommitGrant
  <2>4. AllSound' /\ Exclusive'
    BY <1>1, <1>2, <2>3, CommitSound, Zenon DEF CommitGrant, Locked
  <2>5. AdminsFollowSetup' /\ AbsentHasNoRole' /\ ActiveAdminRemains' /\ SetupPossible'
    BY <1>2 DEF CommitGrant, Inv, AdminsFollowSetup, AbsentHasNoRole, ActiveAdminRemains,
                ActiveAdmins, SetupPossible, TokenExpected
  <2>6. QED
    BY <2>2, <2>4, <2>5 DEF Inv
<1>3. ASSUME NEW a \in Account, user' = [user EXCEPT ![u] = a], End(p), a.status # "ABSENT",
             UNCHANGED <<setupDone, token, up>>, sessions' \subseteq sessions,
             grants' \subseteq grants,
             a.role = user[u].role \/ \A g \in grants' : g[1] # u,
             \/ LosesAdmin(r.op, r.seen, r.arg)
             \/ user[u] # [role |-> "ADMIN", status |-> "ACTIVE"]
             \/ a = [role |-> "ADMIN", status |-> "ACTIVE"]
      PROVE  Inv'
  <2>1. AllSound' /\ Exclusive'
    BY <1>1, <1>3, CommitSound, Zenon DEF Locked
  <2>2. TypeOK'
    BY <1>1, <1>3 DEF End, Inv, TypeOK
  <2>3. user'[u] = a /\ \A w \in Users : w # u => user'[w] = user[w]
    BY <1>1, <1>3
  <2>4. AdminsFollowSetup' /\ AbsentHasNoRole'
    BY <1>1, <1>3, <2>3 DEF Inv, AdminsFollowSetup, AbsentHasNoRole
  <2>5. ActiveAdminRemains'
    <3>1. CASE LosesAdmin(r.op, r.seen, r.arg)
      <4>1. PICK w \in ActiveAdmins : w # u
        BY <1>1, <3>1 DEF Sound
      <4>2. QED
        BY <2>3, <4>1 DEF ActiveAdminRemains, ActiveAdmins
    <3>2. CASE user[u] # [role |-> "ADMIN", status |-> "ACTIVE"]
      <4>1. PICK w \in ActiveAdmins : TRUE
        BY <1>1 DEF Inv, ActiveAdminRemains
      <4>2. QED
        BY <2>3, <3>2, <4>1 DEF ActiveAdminRemains, ActiveAdmins
    <3>3. CASE a = [role |-> "ADMIN", status |-> "ACTIVE"]
      BY <1>1, <2>3, <3>3 DEF ActiveAdminRemains, ActiveAdmins
    <3>4. QED
      BY <1>3, <3>1, <3>2, <3>3
  <2>6. GrantsBelongToMods'
    <3>1. \A g \in grants : g[1] \in Users
      BY DEF Inv, TypeOK
    <3>2. QED
      BY <1>3, <2>3, <3>1 DEF Inv, GrantsBelongToMods
  <2>7. SetupPossible'
    BY <1>3 DEF Inv, SetupPossible, TokenExpected
  <2>8. QED
    BY <2>1, <2>2, <2>4, <2>5, <2>6, <2>7 DEF Inv
<1>4. CASE CommitStatus(p)
  <2> DEFINE a == [user[u] EXCEPT !.status = r.arg]
  <2>1. a \in Account /\ a.status # "ABSENT" /\ a.role = user[u].role /\ a.status = r.arg
    BY <1>1, <1>4 DEF CommitStatus, Account, UserStatus
  <2>2. user[u] = [role |-> "ADMIN", status |-> "ACTIVE"] /\ r.arg = "ACTIVE" => a = user[u]
    BY <1>1
  <2>3. user[u] = [role |-> "ADMIN", status |-> "ACTIVE"] /\ r.arg # "ACTIVE" =>
          LosesAdmin(r.op, r.seen, r.arg)
    BY <1>1, <1>4 DEF CommitStatus, LosesAdmin
  <2>4. QED
    <3> HIDE DEF a
    <3>1. user' = [user EXCEPT ![u] = a]
      BY <1>4 DEF CommitStatus, a
    <3>2. QED
      BY <1>3, <1>4, <2>1, <2>2, <2>3, <3>1, Zenon DEF CommitStatus
<1>5. CASE CommitRole(p)
  <2> DEFINE a == [user[u] EXCEPT !.role = r.arg]
  <2>1. a \in Account /\ a.status = user[u].status /\ a.status # "ABSENT"
    BY <1>1, <1>5 DEF CommitRole, Account, Sound, Locked
  <2>2. user[u] = [role |-> "ADMIN", status |-> "ACTIVE"] /\ r.arg = "ADMIN" => a = user[u]
    BY <1>1
  <2>3. user[u] = [role |-> "ADMIN", status |-> "ACTIVE"] /\ r.arg # "ADMIN" =>
          LosesAdmin(r.op, r.seen, r.arg)
    BY <1>1, <1>5 DEF CommitRole, LosesAdmin
  <2>4. QED
    <3> HIDE DEF a
    <3>1. user' = [user EXCEPT ![u] = a]
      BY <1>5 DEF CommitRole, a
    <3>2. QED
      BY <1>3, <1>5, <2>1, <2>2, <2>3, <3>1, Zenon DEF CommitRole
<1>6. QED
  BY <1>2, <1>4, <1>5

LEMMA ProcessInv ==
  ASSUME Inv, \/ Boot \/ Crash
              \/ \E u \in Users : SignIn(u) \/ \E g \in Grants : RevokeModPermission(u, g)
  PROVE  Inv'
<1>1. UNCHANGED <<user, setupDone>> /\ grants' \subseteq grants /\ sessions' \subseteq Users
  BY Zenon DEF Boot, Crash, SignIn, RevokeModPermission, Inv, TypeOK
<1>2. req' = req \/ req' = [p \in Requests |-> Idle]
  BY Zenon DEF Boot, Crash, SignIn, RevokeModPermission
<1>3. token' \in BOOLEAN /\ up' \in BOOLEAN
  BY AccountsAssumption, Zenon DEF Boot, Crash, SignIn, RevokeModPermission, Inv, TypeOK
<1>4. TypeOK'
  BY <1>1, <1>2, <1>3, IdleSound DEF Inv, TypeOK
<1>5. AllSound' /\ Exclusive'
  <2>1. \A p \in Requests : Sound(req'[p])
    BY <1>2, IdleSound DEF Inv, AllSound
  <2>2. \A p \in Requests : Sound(req[p])' = Sound(req'[p])
    BY <1>1 DEF Sound, ActiveAdmins
  <2>3. Exclusive'
    BY <1>2, IdleSound DEF Inv, Exclusive, Locked
  <2>4. QED
    BY <2>1, <2>2, <2>3 DEF AllSound
<1>6. AdminsFollowSetup' /\ AbsentHasNoRole' /\ ActiveAdminRemains' /\ GrantsBelongToMods'
  BY <1>1 DEF Inv, AdminsFollowSetup, AbsentHasNoRole, ActiveAdminRemains, ActiveAdmins,
              GrantsBelongToMods
<1>7. SetupPossible'
  BY <1>1, AccountsAssumption, Zenon
     DEF Boot, Crash, SignIn, RevokeModPermission, Inv, SetupPossible, TokenExpected
<1>8. QED
  BY <1>4, <1>5, <1>6, <1>7 DEF Inv

LEMMA NextInv == Inv /\ [Next]_vars => Inv'
<1> SUFFICES ASSUME Inv, [Next]_vars PROVE Inv'
  OBVIOUS
<1>1. CASE UNCHANGED vars
  BY <1>1 DEF vars, Inv, TypeOK, AllSound, Sound, Exclusive, AdminsFollowSetup,
              AbsentHasNoRole, ActiveAdminRemains, ActiveAdmins, GrantsBelongToMods,
              SetupPossible, TokenExpected
<1>2. ASSUME NEW p \in Requests, HandlerStep(p)
      PROVE  Inv'
  BY <1>2, InsertInv, TransactionInv, CommitInv DEF HandlerStep
<1>3. ASSUME NEW p \in Requests, DbFailure(p)
      PROVE  Inv'
  BY <1>3, EndInv DEF DbFailure
<1>4. QED
  BY <1>1, <1>2, <1>3, ArrivalInv, ProcessInv DEF Next

(* Accounts is well typed: the columns that admin.service.ts and            *)
(* setup.service.ts write keep their enumerations.                          *)
THEOREM AccountsTypeCorrect == Spec => []TypeOK
<1>1. Inv => TypeOK
  BY DEF Inv
<1>2. QED
  BY <1>1, InitInv, NextInv, PTL DEF Spec

(* The last-admin guard of AdminService works: after setup an active ADMIN  *)
(* remains, for any number of users and of concurrent status and role       *)
(* changes, bootstraps, failures and crashes.                               *)
THEOREM LastAdminGuard == Spec => []ActiveAdminRemains
<1>1. Inv => ActiveAdminRemains
  BY DEF Inv
<1>2. QED
  BY <1>1, InitInv, NextInv, PTL DEF Spec

(* grantModPermission and updateRole, serialized by the same advisory lock, *)
(* never leave a grant with a user who is not a MOD.                        *)
THEOREM GrantsAligned == Spec => []GrantsBelongToMods
<1>1. Inv => GrantsBelongToMods
  BY DEF Inv
<1>2. QED
  BY <1>1, InitInv, NextInv, PTL DEF Spec

(* A process that serves requests before setup is complete has a token for  *)
(* initAdminRegister.                                                       *)
THEOREM SetupStaysPossible == Spec => []SetupPossible
<1>1. Inv => SetupPossible
  BY DEF Inv
<1>2. QED
  BY <1>1, InitInv, NextInv, PTL DEF Spec

(* initAdminRegister creates the first administrator and no other. *)
THEOREM SetupCreatesOneAdmin == Spec => OneFounder
<1> DEFINE A == \A u \in Users :
                  ~Exists(u) /\ user'[u].role = "ADMIN" =>
                    /\ ~setupDone /\ setupDone'
                    /\ \A w \in Users : user[w].role # "ADMIN"
<1>1. ASSUME Inv, [Next]_vars
      PROVE  [A]_vars
  <2>1. SUFFICES ASSUME NEW u \in Users, ~Exists(u), user'[u].role = "ADMIN"
                 PROVE  /\ ~setupDone /\ setupDone'
                        /\ \A w \in Users : user[w].role # "ADMIN"
    OBVIOUS
  <2>2. user[u].role = "none" /\ user \in [Users -> Account]
    BY <1>1, <2>1 DEF Inv, AbsentHasNoRole, Absent, Exists, TypeOK
  <2>3. user'[u] # user[u]
    BY <2>1, <2>2
  <2>4. PICK p \in Requests :
          SetupCommit(p) \/ CreateUser(p) \/ CommitStatus(p) \/ CommitRole(p)
    BY <1>1, <2>3, Zenon
       DEF Next, vars, Boot, Crash, SignIn, RevokeModPermission, DbFailure, Arrival, Begin,
           InitAdminRegister, RegisterUser, UpdateStatus, UpdateRole, GrantModPermission,
           HandlerStep, SetupReread, AdminRead, AssertActiveAdminsRemain, CommitGrant
  <2>5. Sound(req[p])
    BY <1>1 DEF Inv, AllSound
  <2>6. CASE SetupCommit(p)
    <3>1. ~setupDone /\ setupDone' = TRUE
      BY <2>3, <2>5, <2>6 DEF SetupCommit, Sound
    <3>2. QED
      BY <1>1, <3>1 DEF Inv, AdminsFollowSetup
  <2>7. CASE CreateUser(p)
    BY <2>1, <2>2, <2>7 DEF CreateUser
  <2>8. CASE CommitStatus(p) \/ CommitRole(p)
    <3>1. user[req[p].user].status # "ABSENT"
      BY <2>5, <2>8 DEF CommitStatus, CommitRole, Sound, Locked
    <3>2. user'[u] = user[u]
      BY <2>1, <2>2, <2>8, <3>1 DEF CommitStatus, CommitRole, Exists
    <3>3. QED
      BY <2>3, <3>2
  <2>9. QED
    BY <2>4, <2>6, <2>7, <2>8
<1>2. QED
  BY <1>1, InitInv, NextInv, PTL DEF Spec, OneFounder
=============================================================================
