------------------------------- MODULE Sessions -------------------------------
(***************************************************************************)
(* The refresh sessions of one account: sign-in, two-factor verification,   *)
(* rotation and revocation (auth.service.ts), the password change           *)
(* (users.service.ts), and the administrator's ban and password reset       *)
(* (admin.service.ts).  Every statement of these handlers is restricted to  *)
(* one user id, so accounts do not meet and one of them is enough.          *)
(*                                                                         *)
(* PostgreSQL runs at READ COMMITTED.  A transaction that has updated the   *)
(* users row, or read it FOR UPDATE, holds that row until it commits, and   *)
(* its writes appear when it commits.  A DELETE over the user's sessions    *)
(* sees the rows committed when it starts (Scan) and removes those of them  *)
(* that are left when it is done (Apply): a row inserted in between stays.  *)
(*                                                                         *)
(* A request whose password, code or token is wrong changes nothing here    *)
(* and is not an action.                                                    *)
(***************************************************************************)
EXTENDS Naturals, FiniteSets, Sequences

CONSTANTS
  Requests,    \* slots for HTTP requests in flight at the same time
  Codes,       \* the backup codes of the account
  MaxTokens,   \* bound: refresh tokens ever issued
  MaxResets,   \* bound: password resets
  Perils,      \* subset of {"crash", "db"}: the process dies, a statement fails
  NoCode

ASSUME SessionsAssumption ==
  /\ IsFiniteSet(Requests)
  /\ MaxTokens \in Nat /\ MaxResets \in Nat
  /\ Perils \subseteq {"crash", "db"}
  /\ NoCode \notin Codes

VARIABLES
  acct,     \* the users row
  totp,     \* totpEnabled: the account signs in with two factors
  issued,   \* the refresh tokens signed so far: a token's id is its index
  rows,     \* refresh_tokens: the ids with a row
  expired,  \* the rows whose expiresAt has passed
  preauth,  \* the pre-auth tokens that clients hold
  resets,   \* how many temporary passwords have been generated
  req       \* the requests in flight: [Requests -> Request]

vars == <<acct, totp, issued, rows, expired, preauth, resets, req>>

(* `pw` tells a password hash from the one before it, `temp` is the number  *)
(* of the reset whose hash is in tempPasswordHash (0 is null), and `exp` is *)
(* tempPasswordExpiresAt: null, in the future or in the past.               *)
Account ==
  [status : {"PENDING", "ACTIVE", "BANNED"}, pw : {0, 1}, must : BOOLEAN,
   temp : 0..MaxResets, exp : {"null", "open", "past"}, codes : SUBSET Codes]

(* A token carries the temporaryAuth claim.  Where it came from is history: *)
(* the token it was rotated from (0 is a sign-in), and the temporary        *)
(* password and the backup code that the sign-in used.                      *)
Token == [parent : 0..MaxTokens, temporaryAuth : BOOLEAN, cred : 0..MaxResets,
          code : Codes \cup {NoCode}]
PreAuth == [temporaryAuth : BOOLEAN, cred : 0..MaxResets]

Ops == {"none", "login", "rotate", "logoutAll", "change", "recover", "ban", "reset"}
Steps == {"idle", "backup", "consume", "issue", "lock", "rotate", "read", "update",
          "scan", "apply"}
Request ==
  [pc : Steps, op : Ops, tok : 0..MaxTokens, temporaryAuth : BOOLEAN, cred : 0..MaxResets,
   code : Codes \cup {NoCode}, codes : SUBSET Codes, seen : SUBSET (1..MaxTokens)]

(* A sign-in that goes on at a step, with what it has read of the account;  *)
(* any other request, with its session and the reset it makes.              *)
SignIn(step, temporary, c, code, codes) ==
  [pc |-> step, op |-> "login", tok |-> 0, temporaryAuth |-> temporary, cred |-> c,
   code |-> code, codes |-> codes, seen |-> {}]
Task(step, o, t, c) ==
  [pc |-> step, op |-> o, tok |-> t, temporaryAuth |-> FALSE, cred |-> c,
   code |-> NoCode, codes |-> {}, seen |-> {}]
Idle == Task("idle", "none", 0, 0)

(* The account, its tokens and the requests in flight have the shape above, *)
(* only a row can be expired, and the three recovery columns that reset,    *)
(* consumeTempPassword and updatePassword write agree: there is a temporary *)
(* hash exactly while the change is forced, and an expiry only then.        *)
TypeOK ==
  /\ acct \in Account /\ totp \in BOOLEAN
  /\ acct.must <=> acct.temp # 0
  /\ ~acct.must => acct.exp = "null"
  /\ issued \in Seq(Token) /\ Len(issued) <= MaxTokens
  /\ rows \subseteq DOMAIN issued /\ expired \subseteq rows
  /\ preauth \subseteq PreAuth
  /\ resets \in 0..MaxResets
  /\ req \in [Requests -> Request]

Init ==
  /\ acct = [status |-> "ACTIVE", pw |-> 0, must |-> FALSE, temp |-> 0, exp |-> "null",
             codes |-> Codes]
  /\ totp \in BOOLEAN
  /\ issued = <<>> /\ rows = {} /\ expired = {} /\ preauth = {} /\ resets = 0
  /\ req = [p \in Requests |-> Idle]

Begin(p, r) == req[p].pc = "idle" /\ req' = [req EXCEPT ![p] = r]
Goto(p, step) == req' = [req EXCEPT ![p] = [@ EXCEPT !.pc = step]]
End(p) == req' = [req EXCEPT ![p] = Idle]

(* Bound: every request that may issue a token can still do so. *)
Room == Len(issued) + Cardinality({q \in Requests : req[q].op # "none"}) < MaxTokens

(* Mutant: refreshTokens reads the users row without FOR UPDATE. *)
NoUserLock == TRUE

(* Nobody holds the users row: no rotation past its FOR UPDATE, and no      *)
(* transaction past its UPDATE.                                             *)
UserLockFree ==
  \A q \in Requests :
    /\ req[q].pc # "rotate"
    /\ ~(req[q].op \in {"ban", "reset", "recover"} /\ req[q].pc \in {"scan", "apply"})

-----------------------------------------------------------------------------
(* Sign-in                                                                 *)

LoginAllowed == acct.status = "ACTIVE"

(* loginUser with a matching password.  The users row is read once; the     *)
(* rest of the handler works with what it has read.                         *)
LoginUser(p) ==
  LET cred == IF acct.must THEN acct.temp ELSE 0 IN
  /\ req[p].pc = "idle" /\ Room
  /\ LoginAllowed
  /\ acct.must => acct.exp = "open"
  /\ \/ /\ totp
        /\ preauth' = preauth \cup {[temporaryAuth |-> acct.must, cred |-> cred]}
        /\ UNCHANGED req
     \/ /\ ~totp
        /\ Begin(p, SignIn(IF acct.must THEN "consume" ELSE "issue", acct.must, cred, NoCode, {}))
        /\ UNCHANGED preauth
  /\ UNCHANGED <<acct, totp, issued, rows, expired, resets>>

(* issueProviderSession, for a Google identity linked to the account. *)
IssueProviderSession(p) ==
  /\ Room /\ LoginAllowed /\ ~acct.must /\ ~totp
  /\ Begin(p, SignIn("issue", FALSE, 0, NoCode, {}))
  /\ UNCHANGED <<acct, totp, issued, rows, expired, preauth, resets>>

(* completeTwoFactorLogin up to the code: an authenticator code matches at  *)
(* once, a backup code (code # NoCode) has to be consumed.                  *)
CompleteTwoFactorLogin(p, t, code) ==
  /\ Room /\ totp /\ LoginAllowed
  /\ acct.must = t.temporaryAuth
  /\ t.temporaryAuth => acct.exp = "open" /\ acct.temp = t.cred
  /\ code \in acct.codes \cup {NoCode}
  /\ Begin(p, SignIn(IF code # NoCode THEN "backup" ELSE IF t.temporaryAuth THEN "consume" ELSE "issue",
                     t.temporaryAuth, t.cred, code, acct.codes))
  /\ UNCHANGED <<acct, totp, issued, rows, expired, preauth, resets>>

(* verifyAndConsumeBackupCode: compare-and-swap on the list that was read. *)
ConsumeBackupCode(p) ==
  LET r == req[p] IN
  /\ r.pc = "backup" /\ UserLockFree
  /\ \/ /\ acct.codes = r.codes
        /\ acct' = [acct EXCEPT !.codes = r.codes \ {r.code}]
        /\ Goto(p, IF r.temporaryAuth THEN "consume" ELSE "issue")
     \/ acct.codes # r.codes /\ End(p) /\ UNCHANGED acct
  /\ UNCHANGED <<totp, issued, rows, expired, preauth, resets>>

(* consumeTempPassword: the temporary password is good for one sign-in. *)
ConsumeTempPassword(p) ==
  LET r == req[p]
      current == acct.must /\ acct.temp = r.cred /\ acct.exp = "open"
  IN  /\ r.pc = "consume" /\ UserLockFree
      /\ \/ current /\ acct' = [acct EXCEPT !.exp = "null"] /\ Goto(p, "issue")
         \/ ~current /\ End(p) /\ UNCHANGED acct
      /\ UNCHANGED <<totp, issued, rows, expired, preauth, resets>>

(* issueSession.  The foreign key of the new row takes the users row FOR    *)
(* KEY SHARE, which only a rotation's FOR UPDATE keeps waiting.             *)
IssueSession(p) ==
  LET r == req[p] IN
  /\ r.pc = "issue"
  /\ \A q \in Requests : req[q].pc # "rotate"
  /\ issued' = Append(issued, [parent |-> 0, temporaryAuth |-> r.temporaryAuth,
                               cred |-> r.cred, code |-> r.code])
  /\ rows' = rows \cup {Len(issued')}
  /\ End(p)
  /\ UNCHANGED <<acct, totp, expired, preauth, resets>>

-----------------------------------------------------------------------------
(* Rotation and sign-out                                                   *)

(* refreshTokens: the transaction finds a row for the token, in date. *)
RefreshTokens(p, t) ==
  /\ Room
  /\ t \in rows \ expired
  /\ Begin(p, Task("lock", "rotate", t, 0))
  /\ UNCHANGED <<acct, totp, issued, rows, expired, preauth, resets>>

(* Mutant: the claim is not compared with the recovery state. *)
ReadUserForUpdateUnmatched(p) ==
  /\ req[p].pc = "lock" /\ UserLockFree
  /\ IF LoginAllowed THEN Goto(p, "rotate") ELSE End(p)
  /\ UNCHANGED <<acct, totp, issued, rows, expired, preauth, resets>>

(* SELECT ... FOR UPDATE on the users row, and the tests of what it holds. *)
ReadUserForUpdate(p) ==
  /\ req[p].pc = "lock" /\ UserLockFree
  /\ IF LoginAllowed /\ acct.must = issued[req[p].tok].temporaryAuth
     THEN Goto(p, "rotate") ELSE End(p)
  /\ UNCHANGED <<acct, totp, issued, rows, expired, preauth, resets>>

(* Mutant: the outcome of the DELETE is not tested. *)
RotateUnconsumed(p) ==
  LET t == req[p].tok IN
  /\ req[p].pc = "rotate"
  /\ issued' = Append(issued, [parent |-> t, temporaryAuth |-> issued[t].temporaryAuth,
                               cred |-> issued[t].cred, code |-> NoCode])
  /\ rows' = (rows \ (expired \cup {t})) \cup {Len(issued')}
  /\ expired' = {}
  /\ End(p)
  /\ UNCHANGED <<acct, totp, preauth, resets>>

(* The old row is deleted, a new one inserted, expired ones swept, and the  *)
(* transaction commits; or the old row is gone and it rolls back.           *)
Rotate(p) ==
  LET t == req[p].tok IN
  /\ req[p].pc = "rotate"
  /\ \/ /\ t \in rows
        /\ issued' = Append(issued, [parent |-> t, temporaryAuth |-> issued[t].temporaryAuth,
                                     cred |-> issued[t].cred, code |-> NoCode])
        /\ rows' = (rows \ (expired \cup {t})) \cup {Len(issued')}
        /\ expired' = {}
     \/ t \notin rows /\ UNCHANGED <<issued, rows, expired>>
  /\ End(p)
  /\ UNCHANGED <<acct, totp, preauth, resets>>

(* JwtAuthGuard admits an ordinary access token to these routes. *)
Authenticated == LoginAllowed /\ ~acct.must /\ \E t \in DOMAIN issued : ~issued[t].temporaryAuth

(* logoutUser and deleteSingleSession: one DELETE of one row. *)
DeleteSession(t) ==
  /\ Authenticated /\ t \in rows
  /\ rows' = rows \ {t} /\ expired' = expired \ {t}
  /\ UNCHANGED <<acct, totp, issued, preauth, resets, req>>

(* logoutAll: one DELETE of every row. *)
LogoutAll(p) ==
  /\ Authenticated
  /\ Begin(p, Task("scan", "logoutAll", 0, 0))
  /\ UNCHANGED <<acct, totp, issued, rows, expired, preauth, resets>>

-----------------------------------------------------------------------------
(* Passwords and the account's status                                      *)

(* updateUserPassword behind JwtAuthGuard, with the access token of session *)
(* t: a temporary one while the change is forced, an ordinary one else.     *)
UpdateUserPassword(p, t) ==
  /\ Room /\ LoginAllowed
  /\ acct.must = issued[t].temporaryAuth
  /\ Begin(p, Task("read", IF acct.must THEN "recover" ELSE "change", t, 0))
  /\ UNCHANGED <<acct, totp, issued, rows, expired, preauth, resets>>

(* updatePassword reads the users row again; the old password matches. *)
ReadForChange(p) ==
  LET r == req[p]
      valid == IF r.op = "recover" THEN acct.must /\ acct.temp # 0 /\ acct.exp = "null"
                                   ELSE ~acct.must
  IN  /\ r.pc = "read"
      /\ \/ /\ valid
            /\ req' = [req EXCEPT ![p] = [@ EXCEPT !.pc = "update", !.cred = acct.temp]]
         \/ ~valid /\ End(p)
      /\ UNCHANGED <<acct, totp, issued, rows, expired, preauth, resets>>

(* Mutant: the UPDATE does not compare the temporary hash. *)
UpdatePasswordUnbound(p) ==
  LET r == req[p]
      current == r.op = "change" \/ (acct.must /\ acct.exp = "null")
  IN  /\ r.pc = "update" /\ UserLockFree
      /\ IF current THEN Goto(p, "scan") ELSE End(p)
      /\ acct' = IF r.op = "change" THEN [acct EXCEPT !.pw = 1 - @] ELSE acct
      /\ UNCHANGED <<totp, issued, rows, expired, preauth, resets>>

(* The UPDATE of updatePassword.  A forced change compares-and-swaps inside *)
(* a transaction; an ordinary one is a statement of its own, without        *)
(* conditions, and is committed before the sessions are deleted.            *)
UpdatePassword(p) ==
  LET r == req[p]
      current == r.op = "change" \/ (acct.must /\ acct.exp = "null" /\ acct.temp = r.cred)
  IN  /\ r.pc = "update" /\ UserLockFree
      /\ IF current THEN Goto(p, "scan") ELSE End(p)
      /\ acct' = IF r.op = "change" THEN [acct EXCEPT !.pw = 1 - @] ELSE acct
      /\ UNCHANGED <<totp, issued, rows, expired, preauth, resets>>

(* updateStatus: a ban goes on to delete the sessions in its transaction.   *)
(* The last-admin guard is the subject of Accounts.                         *)
UpdateStatus(p, s) ==
  /\ s # acct.status /\ UserLockFree
  /\ \/ s = "BANNED" /\ Begin(p, Task("scan", "ban", 0, 0)) /\ UNCHANGED acct
     \/ /\ s # "BANNED" /\ req[p].pc = "idle"
        /\ acct' = [acct EXCEPT !.status = s]
        /\ UNCHANGED req
  /\ UNCHANGED <<totp, issued, rows, expired, preauth, resets>>

(* resetPassword past the hash of the new temporary password. *)
ResetPassword(p) ==
  /\ resets < MaxResets /\ UserLockFree
  /\ resets' = resets + 1
  /\ Begin(p, Task("scan", "reset", 0, resets'))
  /\ UNCHANGED <<acct, totp, issued, rows, expired, preauth>>

(* DELETE FROM refresh_tokens starts; an ordinary password change spares    *)
(* the session it is made from.                                             *)
Scan(p) ==
  LET r == req[p]
      spared == IF r.op = "change" THEN {r.tok} ELSE {}
  IN  /\ r.pc = "scan"
      /\ req' = [req EXCEPT ![p] = [@ EXCEPT !.pc = "apply", !.seen = rows \ spared]]
      /\ UNCHANGED <<acct, totp, issued, rows, expired, preauth, resets>>

(* Mutant: a forced change leaves the temporary hash in place. *)
WrittenKeepingHash(r) ==
  CASE r.op = "ban"     -> [acct EXCEPT !.status = "BANNED"]
    [] r.op = "reset"   -> [acct EXCEPT !.temp = r.cred, !.exp = "open", !.must = TRUE]
    [] r.op = "recover" -> [acct EXCEPT !.pw = 1 - @, !.exp = "null", !.must = FALSE]
    [] OTHER            -> acct

(* What the transaction of the DELETE has written to the users row. *)
Written(r) ==
  CASE r.op = "ban"     -> [acct EXCEPT !.status = "BANNED"]
    [] r.op = "reset"   -> [acct EXCEPT !.temp = r.cred, !.exp = "open", !.must = TRUE]
    [] r.op = "recover" -> [acct EXCEPT !.pw = 1 - @, !.temp = 0, !.exp = "null", !.must = FALSE]
    [] OTHER            -> acct

(* The DELETE ends and its transaction commits.  A forced change goes on to *)
(* issue an ordinary session.                                               *)
Apply(p) ==
  LET r == req[p] IN
  /\ r.pc = "apply"
  /\ rows' = rows \ r.seen /\ expired' = expired \ r.seen
  /\ acct' = Written(r)
  /\ IF r.op = "recover" THEN req' = [req EXCEPT ![p] = Task("issue", "recover", 0, 0)]
                         ELSE End(p)
  /\ UNCHANGED <<totp, issued, preauth, resets>>

-----------------------------------------------------------------------------
(* Clock, failures                                                         *)

TempPasswordExpires ==
  /\ acct.exp = "open"
  /\ acct' = [acct EXCEPT !.exp = "past"]
  /\ UNCHANGED <<totp, issued, rows, expired, preauth, resets, req>>

SessionExpires(t) ==
  /\ t \in rows \ expired
  /\ expired' = expired \cup {t}
  /\ UNCHANGED <<acct, totp, issued, rows, preauth, resets, req>>

(* A statement fails: the transaction, if there is one, is rolled back. *)
DbFailure(p) ==
  /\ "db" \in Perils /\ req[p].pc # "idle"
  /\ End(p)
  /\ UNCHANGED <<acct, totp, issued, rows, expired, preauth, resets>>

Crash ==
  /\ "crash" \in Perils
  /\ \E p \in Requests : req[p].pc # "idle"
  /\ req' = [p \in Requests |-> Idle]
  /\ UNCHANGED <<acct, totp, issued, rows, expired, preauth, resets>>

Arrival(p) ==
  \/ LoginUser(p) \/ IssueProviderSession(p) \/ LogoutAll(p) \/ ResetPassword(p)
  \/ \E t \in preauth, code \in Codes \cup {NoCode} : CompleteTwoFactorLogin(p, t, code)
  \/ \E t \in rows : RefreshTokens(p, t)
  \/ \E t \in DOMAIN issued : UpdateUserPassword(p, t)
  \/ \E s \in {"PENDING", "ACTIVE", "BANNED"} : UpdateStatus(p, s)

HandlerStep(p) ==
  \/ ConsumeBackupCode(p) \/ ConsumeTempPassword(p) \/ IssueSession(p)
  \/ ReadUserForUpdate(p) \/ Rotate(p)
  \/ ReadForChange(p) \/ UpdatePassword(p) \/ Scan(p) \/ Apply(p)

Next ==
  \/ \E p \in Requests : Arrival(p) \/ HandlerStep(p) \/ DbFailure(p)
  \/ \E t \in rows : DeleteSession(t) \/ SessionExpires(t)
  \/ TempPasswordExpires \/ Crash

Spec == Init /\ [][Next]_vars

-----------------------------------------------------------------------------
(* Properties.                                                             *)

(* Whatever starts a session starts one only, however many requests present *)
(* it at the same time: a refresh token is rotated once (refreshTokens), a  *)
(* temporary password signs in once, two-factor sign-ins included           *)
(* (consumeTempPassword), and a backup code completes one sign-in           *)
(* (verifyAndConsumeBackupCode).                                            *)
UsedOnce ==
  \A i, j \in DOMAIN issued :
    LET a == issued[i]
        b == issued[j]
    IN  \/ a.parent # 0 /\ a.parent = b.parent
        \/ a.parent = 0 /\ b.parent = 0 /\ a.temporaryAuth /\ b.temporaryAuth /\ a.cred = b.cred
        \/ a.code # NoCode /\ a.code = b.code
        => i = j

(* refreshTokens never prolongs a session that the account's state rules    *)
(* out: when a rotated token is inserted the account is ACTIVE, and the     *)
(* token is temporary exactly while the password change is forced, whatever *)
(* bans, resets and recoveries committed since the old row was found.       *)
RotationLawful ==
  [][\A i \in DOMAIN issued' \ DOMAIN issued :
       issued'[i].parent # 0 =>
         acct.status = "ACTIVE" /\ acct.must = issued'[i].temporaryAuth]_vars

(* A ban, a reset and a forced change revoke every session that a rotation  *)
(* keeps alive: of the rows left when one of them commits, none is a        *)
(* rotated token.  (A sign-in that read the account before can still insert *)
(* its row.)                                                                *)
RevocationCatchesRotations ==
  [][\/ acct'.status = "BANNED" /\ acct.status # "BANNED"
     \/ acct'.must # acct.must
     \/ acct'.temp > acct.temp
     => \A t \in rows' : issued[t].parent = 0]_vars

(* A forced recovery ends only with the newest temporary password: the      *)
(* request that ends it matched the hash that is in the row, and a sign-in  *)
(* had consumed that password, whichever resets ran since it read the row.  *)
RecoveryByNewestReset ==
  [][acct.must /\ ~acct'.must =>
       /\ acct.exp = "null"
       /\ \E p \in Requests : /\ req[p].op = "recover" /\ req[p].pc = "apply"
                              /\ req[p].cred = acct.temp]_vars

(* What a comment in updatePassword says: an ordinary session never         *)
(* completes a password change while forced recovery is active.  A step     *)
(* that changes the password during recovery is the one that ends it.       *)
OrdinaryChangeNotForced ==
  [][acct'.pw # acct.pw /\ acct.must => ~acct'.must]_vars
=============================================================================
