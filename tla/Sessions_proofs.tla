---------------------------- MODULE Sessions_proofs ----------------------------
(***************************************************************************)
(* Proofs about Sessions, for any requests, backup codes, faults and bounds *)
(* on tokens and resets.                                                    *)
(*                                                                         *)
(* The invariant Inv says what a request may rely on while it waits: that   *)
(* the users row is held by one transaction (Apart), that what a holder has *)
(* read is still true (Sound), that a DELETE past its scan has seen every   *)
(* rotated token (Sound), and that what has signed in once, or is about to, *)
(* cannot be presented again (Settled, Sound, Apart).  Bounded, on top of   *)
(* Inv, says that a request in flight keeps the room it was given for the   *)
(* token it may issue, which bounds the tokens.                             *)
(***************************************************************************)
EXTENDS Sessions, FiniteSetTheorems, TLAPS

Row == [status : {"PENDING", "ACTIVE", "BANNED"}, pw : {0, 1}, must : BOOLEAN,
        temp : Nat, exp : {"null", "open", "past"}, codes : SUBSET Codes]
AnyToken == [parent : Nat, temporaryAuth : BOOLEAN, cred : Nat, code : Codes \cup {NoCode}]
AnyPreAuth == [temporaryAuth : BOOLEAN, cred : Nat]
AnyRequest ==
  [pc : Steps, op : Ops, tok : Nat, temporaryAuth : BOOLEAN, cred : Nat,
   code : Codes \cup {NoCode}, codes : SUBSET Codes, seen : SUBSET Nat]

(* TypeOK without the bounds. *)
Typed ==
  /\ acct \in Row
  /\ issued \in Seq(AnyToken)
  /\ rows \subseteq 1..Len(issued)
  /\ preauth \subseteq AnyPreAuth
  /\ resets \in Nat
  /\ req \in [Requests -> AnyRequest]

(* The request is in a transaction that holds the users row. *)
Holds(r) ==
  \/ r.pc = "rotate"
  \/ r.op \in {"ban", "reset", "recover"} /\ r.pc \in {"scan", "apply"}

(* The request is about to sign in with a temporary password it consumed,   *)
(* or with a backup code it consumed.                                       *)
Spends(r) == r.pc = "issue" /\ r.temporaryAuth
Redeems(r) == r.pc \in {"consume", "issue"} /\ r.code # NoCode
SigningIn(r) == r.pc \in {"backup", "consume", "issue"}

(* No sign-in matches temporary password c any more. *)
Spent(c) == acct.temp # c \/ acct.exp = "null"

(* A sign-in, not a rotation, with a temporary password. *)
Recovers(i) == issued[i].parent = 0 /\ issued[i].temporaryAuth

(* What the tables say of the tokens issued so far. *)
Settled ==
  /\ acct.temp <= resets
  /\ \A t \in preauth : t.cred <= resets
  /\ \A i \in 1..Len(issued) :
       /\ issued[i].cred <= resets
       /\ issued[i].parent <= Len(issued) /\ issued[i].parent \notin rows
       /\ issued[i].code \notin acct.codes
       /\ Recovers(i) => Spent(issued[i].cred)

(* What a request may rely on. *)
Sound(r) ==
  /\ r.pc \in {"lock", "rotate"} => r.tok \in 1..Len(issued)
  /\ r.pc = "rotate" => acct.status = "ACTIVE" /\ acct.must = issued[r.tok].temporaryAuth
  /\ r.op = "recover" /\ r.pc \in {"scan", "apply"} =>
       acct.must /\ acct.exp = "null" /\ acct.temp = r.cred
  /\ Holds(r) /\ r.pc = "apply" => \A t \in rows : issued[t].parent # 0 => t \in r.seen
  /\ r.op = "reset" =>
       /\ r.pc \in {"scan", "apply"} /\ r.cred <= resets /\ acct.temp < r.cred
       /\ \A t \in preauth : t.cred < r.cred
       /\ \A i \in 1..Len(issued) : issued[i].cred < r.cred
  /\ SigningIn(r) => r.cred <= resets
  /\ r.pc = "backup" => r.code \in r.codes
  /\ Redeems(r) => r.code \notin acct.codes /\ \A i \in 1..Len(issued) : issued[i].code # r.code
  /\ Spends(r) => /\ Spent(r.cred)
                  /\ \A i \in 1..Len(issued) : Recovers(i) => issued[i].cred # r.cred

(* What two requests in flight have not in common. *)
Apart(a, b) ==
  /\ ~(Holds(a) /\ Holds(b))
  /\ Spends(a) /\ Spends(b) => a.cred # b.cred
  /\ Redeems(a) /\ Redeems(b) => a.code # b.code
  /\ SigningIn(a) /\ b.op = "reset" => a.cred < b.cred

AllSound == \A p \in Requests : Sound(req[p])
AllApart == \A p, q \in Requests : p # q => Apart(req[p], req[q]) /\ Apart(req[q], req[p])

Inv == Typed /\ Settled /\ AllSound /\ AllApart /\ UsedOnce

-----------------------------------------------------------------------------
LEMMA Appended ==
  ASSUME NEW S, NEW s \in Seq(S), NEW e \in S
  PROVE  /\ Append(s, e) \in Seq(S)
         /\ Len(Append(s, e)) = Len(s) + 1
         /\ DOMAIN s = 1..Len(s)
         /\ DOMAIN Append(s, e) = 1..(Len(s) + 1)
         /\ \A i \in 1..Len(s) : Append(s, e)[i] = s[i] /\ s[i] \in S
         /\ Append(s, e)[Len(s) + 1] = e
  OBVIOUS

LEMMA Domain == ASSUME Typed PROVE DOMAIN issued = 1..Len(issued) /\ Len(issued) \in Nat
  BY DEF Typed

LEMMA Tokens ==
  ASSUME Typed, NEW i \in 1..Len(issued)
  PROVE  /\ issued[i] \in AnyToken
         /\ issued[i].parent \in Nat /\ issued[i].cred \in Nat
         /\ issued[i].temporaryAuth \in BOOLEAN /\ issued[i].code \in Codes \cup {NoCode}
<1>1. issued[i] \in AnyToken
  BY DEF Typed
<1> QED
  BY <1>1 DEF AnyToken

LEMMA NoCodeApart == NoCode \notin Codes
  BY SessionsAssumption

LEMMA IdleTyped == Idle \in AnyRequest
  BY DEF Idle, Task, AnyRequest, Steps, Ops

LEMMA TaskTyped ==
  ASSUME NEW step \in Steps, NEW o \in Ops, NEW t \in Nat, NEW c \in Nat
  PROVE  Task(step, o, t, c) \in AnyRequest
  BY DEF Task, AnyRequest

LEMMA SignInTyped ==
  ASSUME NEW step \in Steps, NEW temporary \in BOOLEAN, NEW c \in Nat,
         NEW code \in Codes \cup {NoCode}, NEW codes \in SUBSET Codes
  PROVE  SignIn(step, temporary, c, code, codes) \in AnyRequest
  BY DEF SignIn, AnyRequest, Ops

(* The start. *)
LEMMA InitInv == Init => Inv
<1> SUFFICES ASSUME Init PROVE Inv
  OBVIOUS
<1>1. Typed
  BY IdleTyped DEF Init, Typed, Row
<1>2. \A p \in Requests : req[p] = Idle
  BY DEF Init
<1>3. Settled
  BY DEF Init, Settled
<1>4. AllSound
  BY <1>2 DEF AllSound, Sound, Holds, SigningIn, Spends, Redeems, Idle, Task
<1>5. AllApart
  BY <1>2 DEF AllApart, Apart, Holds, SigningIn, Spends, Redeems, Idle, Task
<1>6. UsedOnce
  BY DEF Init, UsedOnce
<1> QED
  BY <1>1, <1>3, <1>4, <1>5, <1>6 DEF Inv

-----------------------------------------------------------------------------
(* A step that only changes what one request is doing, and perhaps the      *)
(* password.                                                                *)

Tables == <<acct, issued, rows, preauth, resets>>

LEMMA PasswordStep ==
  ASSUME Inv, NEW p \in Requests, NEW r \in AnyRequest, Sound(r),
         \A q \in Requests : q # p => Apart(r, req[q]) /\ Apart(req[q], r),
         req' = [req EXCEPT ![p] = r], UNCHANGED <<issued, rows, preauth, resets>>,
         acct' \in Row, acct'.status = acct.status, acct'.must = acct.must,
         acct'.temp = acct.temp, acct'.exp = acct.exp, acct'.codes = acct.codes
  PROVE  Inv'
<1>1. /\ issued' = issued /\ rows' = rows
      /\ preauth' = preauth /\ resets' = resets
  OBVIOUS
<1>2. req' \in [Requests -> AnyRequest] /\ req'[p] = r /\ \A q \in Requests : q # p => req'[q] = req[q]
  BY DEF Inv, Typed
<1>3. Typed'
  BY <1>1, <1>2 DEF Inv, Typed
<1>4. Settled'
  BY <1>1 DEF Inv, Settled, Recovers, Spent
<1>5. \A x : Sound(x) => Sound(x)'
  BY <1>1 DEF Sound, Recovers, Spent
<1>6. AllSound'
  BY <1>2, <1>5 DEF Inv, AllSound
<1>7. AllApart'
  BY <1>2 DEF Inv, AllApart
<1>8. UsedOnce'
  BY <1>1 DEF Inv, UsedOnce
<1> QED
  BY <1>3, <1>4, <1>6, <1>7, <1>8 DEF Inv

LEMMA MoveStep ==
  ASSUME Inv, NEW p \in Requests, NEW r \in AnyRequest, Sound(r),
         \A q \in Requests : q # p => Apart(r, req[q]) /\ Apart(req[q], r),
         req' = [req EXCEPT ![p] = r], UNCHANGED Tables
  PROVE  Inv'
<1>1. acct' = acct /\ acct \in Row /\ UNCHANGED <<issued, rows, preauth, resets>>
  BY DEF Tables, Inv, Typed
<1> QED
  BY <1>1, PasswordStep, Zenon

LEMMA EndStep ==
  ASSUME Inv, NEW p \in Requests, End(p), UNCHANGED Tables
  PROVE  Inv'
<1>1. Sound(Idle)
  BY DEF Sound, Holds, SigningIn, Spends, Redeems, Idle, Task
<1>2. \A q \in Requests : Apart(Idle, req[q]) /\ Apart(req[q], Idle)
  BY DEF Apart, Holds, SigningIn, Spends, Redeems, Idle, Task
<1> QED
  BY <1>1, <1>2, IdleTyped, MoveStep, Zenon DEF End

(* A request begins.  A sign-in begins with a temporary password older than *)
(* the one a pending reset is about to write.                               *)
Older(c) == c <= resets /\ \A q \in Requests : req[q].op = "reset" => c < req[q].cred

LEMMA OlderCreds ==
  ASSUME Inv
  PROVE  /\ Older(0) /\ Older(acct.temp)
         /\ \A t \in preauth : Older(t.cred)
         /\ \A i \in 1..Len(issued) : Older(issued[i].cred)
<1>1. acct.temp \in Nat /\ resets \in Nat /\ \A q \in Requests : req[q].cred \in Nat
  BY DEF Inv, Typed, Row, AnyRequest
<1>2. \A q \in Requests : req[q].op = "reset" =>
        /\ acct.temp < req[q].cred
        /\ \A t \in preauth : t.cred < req[q].cred
        /\ \A i \in 1..Len(issued) : issued[i].cred < req[q].cred
  BY DEF Inv, AllSound, Sound
<1> QED
  BY <1>1, <1>2 DEF Older, Inv, Settled

LEMMA BeginStep ==
  ASSUME Inv, NEW p \in Requests, NEW r \in AnyRequest, Begin(p, r), UNCHANGED Tables,
         Sound(r), ~Spends(r), ~Redeems(r), r.op # "reset",
         Holds(r) => UserLockFree, SigningIn(r) => Older(r.cred)
  PROVE  Inv'
<1>1. ASSUME NEW q \in Requests, q # p
      PROVE  Apart(r, req[q]) /\ Apart(req[q], r)
  <2>1. Holds(r) => ~Holds(req[q])
    BY DEF UserLockFree, Holds
  <2> QED
    BY <2>1 DEF Apart, Older
<1> QED
  BY <1>1, MoveStep, Zenon DEF Begin

(* A sign-in begins with what it has read of the account. *)
LEMMA SignInBegins ==
  ASSUME Inv, NEW p \in Requests, UNCHANGED Tables,
         NEW step \in {"backup", "consume", "issue"}, NEW temporary \in BOOLEAN, NEW c \in Nat,
         NEW code \in Codes \cup {NoCode}, NEW codes \in SUBSET Codes,
         Begin(p, SignIn(step, temporary, c, code, codes)),
         Older(c), temporary => step # "issue",
         IF step = "backup" THEN code \in codes ELSE code = NoCode
  PROVE  Inv'
<1> DEFINE r == SignIn(step, temporary, c, code, codes)
<1>1. r \in AnyRequest
  BY SignInTyped DEF Steps
<1>2. Sound(r) /\ ~Spends(r) /\ ~Redeems(r) /\ ~Holds(r) /\ r.op # "reset" /\ r.cred = c
  BY DEF Sound, Spends, Redeems, Holds, SigningIn, SignIn, Older
<1> HIDE DEF r
<1> QED
  BY <1>1, <1>2, BeginStep DEF r

(* Another request begins, not yet signing in or resetting. *)
LEMMA TaskBegins ==
  ASSUME Inv, NEW p \in Requests, UNCHANGED Tables,
         NEW step \in {"lock", "read", "scan"}, NEW o \in Ops \ {"reset"},
         NEW t \in Nat, Begin(p, Task(step, o, t, 0)),
         step = "lock" => t \in 1..Len(issued),
         step = "scan" => o = "logoutAll" \/ (o = "ban" /\ UserLockFree)
  PROVE  Inv'
<1> DEFINE r == Task(step, o, t, 0)
<1>1. r \in AnyRequest
  BY TaskTyped DEF Steps
<1>2. /\ Sound(r) /\ ~Spends(r) /\ ~Redeems(r) /\ ~SigningIn(r) /\ r.op # "reset"
      /\ Holds(r) => UserLockFree
  BY Zenon DEF Sound, Spends, Redeems, Holds, SigningIn, Task
<1> HIDE DEF r
<1> QED
  BY <1>1, <1>2, BeginStep DEF r

-----------------------------------------------------------------------------
(* Arrivals                                                                *)

LEMMA LoginUserStep ==
  ASSUME Inv, NEW p \in Requests, LoginUser(p)
  PROVE  Inv'
<1> DEFINE cred == IF acct.must THEN acct.temp ELSE 0
<1>1. cred \in Nat /\ acct.must \in BOOLEAN /\ Older(cred)
  BY OlderCreds DEF Inv, Typed, Row
<1>2. CASE ~totp
  <2>1. Begin(p, SignIn(IF acct.must THEN "consume" ELSE "issue", acct.must, cred, NoCode, {}))
        /\ UNCHANGED Tables
    BY <1>2 DEF LoginUser, Tables
  <2> QED
    BY <1>1, <2>1, SignInBegins
<1>3. CASE totp
  <2>1. /\ preauth' = preauth \cup {[temporaryAuth |-> acct.must, cred |-> cred]}
        /\ UNCHANGED <<acct, issued, rows, resets, req>>
    BY <1>3 DEF LoginUser
  <2>2. [temporaryAuth |-> acct.must, cred |-> cred] \in AnyPreAuth
    BY <1>1 DEF AnyPreAuth
  <2>3. \A t \in preauth' : t \in preauth \/ t.cred = cred
    BY <2>1
  <2>4. Typed'
    BY <2>1, <2>2 DEF Inv, Typed
  <2>5. Settled'
    BY <1>1, <2>1, <2>3 DEF Inv, Settled, Recovers, Spent, Older
  <2>6. ASSUME NEW q \in Requests
        PROVE  Sound(req[q])'
    BY <1>1, <2>1, <2>3 DEF Inv, AllSound, Sound, Recovers, Spent, Older
  <2>7. AllApart' /\ UsedOnce'
    BY <2>1 DEF Inv, AllApart, UsedOnce
  <2> QED
    BY <2>4, <2>5, <2>6, <2>7 DEF Inv, AllSound
<1> QED
  BY <1>2, <1>3

LEMMA CompleteTwoFactorLoginStep ==
  ASSUME Inv, NEW p \in Requests, NEW t \in preauth, NEW code \in Codes \cup {NoCode},
         CompleteTwoFactorLogin(p, t, code)
  PROVE  Inv'
<1>1. t.temporaryAuth \in BOOLEAN /\ t.cred \in Nat /\ acct.codes \in SUBSET Codes
  BY DEF Inv, Typed, AnyPreAuth, Row
<1>2. Older(t.cred) /\ UNCHANGED Tables
  BY OlderCreds DEF CompleteTwoFactorLogin, Tables
<1>3. PICK step \in {"backup", "consume", "issue"} :
        /\ step = (IF code # NoCode THEN "backup" ELSE IF t.temporaryAuth THEN "consume" ELSE "issue")
        /\ Begin(p, SignIn(step, t.temporaryAuth, t.cred, code, acct.codes))
  BY DEF CompleteTwoFactorLogin
<1>4. IF step = "backup" THEN code \in acct.codes ELSE code = NoCode
  BY <1>3 DEF CompleteTwoFactorLogin
<1>5. t.temporaryAuth => step # "issue"
  BY <1>3
<1> QED
  BY <1>1, <1>2, <1>3, <1>4, <1>5, SignInBegins

(* A step that changes columns of the users row on which sign-ins do not    *)
(* depend.                                                                  *)
LEMMA ColumnStep ==
  ASSUME Inv, acct' \in Row, UserLockFree, UNCHANGED <<issued, rows, preauth, resets, req>>,
         acct'.temp = acct.temp, acct'.exp = acct.exp, acct'.codes = acct.codes
  PROVE  Inv'
<1>1. Typed'
  BY DEF Inv, Typed
<1>2. Settled'
  BY DEF Inv, Settled, Recovers, Spent
<1>3. ASSUME NEW q \in Requests
      PROVE  Sound(req[q])'
  BY DEF Inv, AllSound, Sound, Recovers, Spent, UserLockFree, Holds, Spends, Redeems, SigningIn
<1>4. AllApart' /\ UsedOnce'
  BY DEF Inv, AllApart, UsedOnce
<1> QED
  BY <1>1, <1>2, <1>3, <1>4 DEF Inv, AllSound

LEMMA UpdateStatusStep ==
  ASSUME Inv, NEW p \in Requests, NEW s \in {"PENDING", "ACTIVE", "BANNED"}, UpdateStatus(p, s)
  PROVE  Inv'
<1>1. CASE s = "BANNED"
  BY <1>1, TaskBegins DEF UpdateStatus, Tables, Ops
<1>2. CASE s # "BANNED"
  <2>1. acct' = [acct EXCEPT !.status = s] /\ UNCHANGED <<issued, rows, preauth, resets, req>>
        /\ UserLockFree
    BY <1>2 DEF UpdateStatus
  <2>2. acct' \in Row /\ acct'.temp = acct.temp /\ acct'.exp = acct.exp /\ acct'.codes = acct.codes
    BY <2>1 DEF Inv, Typed, Row
  <2> QED
    BY <2>1, <2>2, ColumnStep
<1> QED
  BY <1>1, <1>2

LEMMA ResetPasswordStep ==
  ASSUME Inv, NEW p \in Requests, ResetPassword(p)
  PROVE  Inv'
<1>1. /\ UNCHANGED <<acct, issued, rows, preauth>> /\ resets' = resets + 1 /\ UserLockFree
      /\ resets \in Nat /\ req' = [req EXCEPT ![p] = Task("scan", "reset", 0, resets + 1)]
  BY DEF ResetPassword, Begin, Inv, Typed
<1>2. PICK r \in AnyRequest : r = Task("scan", "reset", 0, resets + 1)
  BY <1>1, TaskTyped DEF Steps, Ops
<1>3. req' \in [Requests -> AnyRequest] /\ req'[p] = r /\ \A q \in Requests : q # p => req'[q] = req[q]
  BY <1>1, <1>2 DEF Inv, Typed
<1>4. Typed'
  BY <1>1, <1>3 DEF Inv, Typed
<1>5. \A i \in 1..Len(issued) : issued[i].cred \in Nat
  BY Tokens DEF Inv
<1>6. (\A t \in preauth : t.cred \in Nat) /\ acct.temp \in Nat /\ \A q \in Requests : req[q].cred \in Nat
  BY DEF Inv, Typed, AnyPreAuth, Row, AnyRequest
<1>7. Settled'
  BY <1>1, <1>5, <1>6 DEF Inv, Settled, Recovers, Spent
<1>8. Sound(r)'
  BY <1>1, <1>2, <1>5, <1>6
     DEF Inv, Settled, Sound, Recovers, Spent, Holds, SigningIn, Redeems, Spends, Task
<1>9. ASSUME NEW q \in Requests, q # p
      PROVE  Sound(req[q])'
  BY <1>1, <1>3, <1>6, <1>9 DEF Inv, AllSound, Sound, Recovers, Spent
<1>10. ASSUME NEW q \in Requests, q # p
       PROVE  Apart(r, req[q]) /\ Apart(req[q], r)
  <2>1. ~Holds(req[q])
    BY <1>1 DEF UserLockFree, Holds
  <2>2. SigningIn(req[q]) => req[q].cred < resets + 1
    BY <1>1, <1>6 DEF Inv, AllSound, Sound
  <2> QED
    BY <1>2, <2>1, <2>2 DEF Apart, SigningIn, Redeems, Spends, Task
<1>11. AllSound'
  BY <1>3, <1>8, <1>9 DEF AllSound
<1>12. AllApart'
  BY <1>3, <1>10 DEF Inv, AllApart
<1>13. UsedOnce'
  BY <1>1 DEF Inv, UsedOnce
<1> QED
  BY <1>4, <1>7, <1>11, <1>12, <1>13 DEF Inv

LEMMA ArrivalStep ==
  ASSUME Inv, NEW p \in Requests, Arrival(p)
  PROVE  Inv'
<1>1. CASE IssueProviderSession(p)
  <2>1. Begin(p, SignIn("issue", FALSE, 0, NoCode, {})) /\ UNCHANGED Tables
    BY <1>1, Zenon DEF IssueProviderSession, Tables
  <2>2. {} \in SUBSET Codes /\ FALSE \in BOOLEAN /\ Older(0)
    BY OlderCreds
  <2> QED
    BY <2>1, <2>2, SignInBegins, Zenon
<1>2. CASE LogoutAll(p)
  BY <1>2, TaskBegins DEF LogoutAll, Tables, Ops
<1>3. ASSUME NEW t \in rows, RefreshTokens(p, t)
      PROVE  Inv'
  <2>1. t \in 1..Len(issued) /\ t \in Nat
    BY DEF Inv, Typed
  <2> QED
    BY <1>3, <2>1, TaskBegins DEF RefreshTokens, Tables, Ops
<1>4. ASSUME NEW t \in DOMAIN issued, UpdateUserPassword(p, t)
      PROVE  Inv'
  <2>1. t \in Nat
    BY DEF Inv, Typed
  <2>2. PICK o \in {"recover", "change"} : Begin(p, Task("read", o, t, 0))
    BY <1>4 DEF UpdateUserPassword
  <2> QED
    BY <1>4, <2>1, <2>2, TaskBegins DEF UpdateUserPassword, Tables, Ops
<1> QED
  BY <1>1, <1>2, <1>3, <1>4, LoginUserStep, ResetPasswordStep, CompleteTwoFactorLoginStep,
     UpdateStatusStep DEF Arrival

-----------------------------------------------------------------------------
(* Handlers                                                                *)

(* A request at its next step. *)
LEMMA AtStep ==
  ASSUME NEW r \in AnyRequest, NEW step \in Steps
  PROVE  \E n \in AnyRequest :
           /\ n = [r EXCEPT !.pc = step] /\ n.pc = step /\ n.op = r.op /\ n.tok = r.tok
           /\ n.temporaryAuth = r.temporaryAuth /\ n.cred = r.cred
           /\ n.code = r.code /\ n.codes = r.codes /\ n.seen = r.seen
<1> DEFINE m == [r EXCEPT !.pc = step]
<1>1. /\ m \in AnyRequest /\ m.pc = step /\ m.op = r.op /\ m.tok = r.tok
      /\ m.temporaryAuth = r.temporaryAuth /\ m.cred = r.cred
      /\ m.code = r.code /\ m.codes = r.codes /\ m.seen = r.seen
  BY DEF AnyRequest
<1>2. m = [r EXCEPT !.pc = step]
  OBVIOUS
<1> HIDE DEF m
<1> QED
  BY <1>1, <1>2, Zenon

(* Nobody else holds the row of a request that may take it. *)
LEMMA LockExcludes ==
  ASSUME UserLockFree
  PROVE  \A q \in Requests : ~Holds(req[q])
  BY DEF UserLockFree, Holds

LEMMA ReadUserForUpdateStep ==
  ASSUME Inv, NEW p \in Requests, ReadUserForUpdate(p)
  PROVE  Inv'
<1>1. UNCHANGED Tables /\ req[p].pc = "lock" /\ UserLockFree
  BY DEF ReadUserForUpdate, Tables
<1>2. CASE End(p)
  BY <1>1, <1>2, EndStep
<1>3. CASE ~End(p)
  <2>1. /\ Goto(p, "rotate") /\ acct.status = "ACTIVE"
        /\ acct.must = issued[req[p].tok].temporaryAuth
    BY <1>3 DEF ReadUserForUpdate, LoginAllowed
  <2>2. PICK r \in AnyRequest : /\ r = [req[p] EXCEPT !.pc = "rotate"]
                                /\ r.pc = "rotate" /\ r.op = req[p].op /\ r.tok = req[p].tok
    BY AtStep DEF Inv, Typed, Steps
  <2>3. Sound(req[p])
    BY DEF Inv, AllSound
  <2>4. Sound(r)
    BY <1>1, <2>1, <2>2, <2>3 DEF Sound, Spends, Redeems, SigningIn
  <2>5. \A q \in Requests : Apart(r, req[q]) /\ Apart(req[q], r)
    <3>1. r.op # "reset"
      BY <1>1, <2>2, <2>3 DEF Sound
    <3> QED
      BY <1>1, <2>2, <3>1, LockExcludes DEF Apart, Spends, Redeems, SigningIn
  <2> QED
    BY <1>1, <2>1, <2>2, <2>4, <2>5, MoveStep, Zenon DEF Goto
<1> QED
  BY <1>2, <1>3

LEMMA ReadForChangeStep ==
  ASSUME Inv, NEW p \in Requests, ReadForChange(p)
  PROVE  Inv'
<1>1. UNCHANGED Tables /\ req[p].pc = "read" /\ acct.temp \in Nat /\ req[p] \in AnyRequest
  BY DEF ReadForChange, Tables, Inv, Typed, Row
<1>2. CASE End(p)
  BY <1>1, <1>2, EndStep
<1>3. CASE ~End(p)
  <2>1. req' = [req EXCEPT ![p] = [req[p] EXCEPT !.pc = "update", !.cred = acct.temp]]
    BY <1>3 DEF ReadForChange
  <2> DEFINE r == [req[p] EXCEPT !.pc = "update", !.cred = acct.temp]
  <2>2. r \in AnyRequest /\ r.pc = "update" /\ r.op = req[p].op /\ req' = [req EXCEPT ![p] = r]
    BY <1>1, <2>1, Zenon DEF AnyRequest, Steps
  <2> HIDE DEF r
  <2>3. r.op # "reset"
    BY <1>1, <2>2 DEF Inv, AllSound, Sound
  <2>4. Sound(r) /\ \A q \in Requests : Apart(r, req[q]) /\ Apart(req[q], r)
    BY <2>2, <2>3 DEF Sound, Apart, Holds, Spends, Redeems, SigningIn
  <2> QED
    BY <1>1, <2>2, <2>4, MoveStep, Zenon
<1> QED
  BY <1>2, <1>3

LEMMA UpdatePasswordStep ==
  ASSUME Inv, NEW p \in Requests, UpdatePassword(p)
  PROVE  Inv'
<1>1. /\ UNCHANGED <<issued, rows, preauth, resets>> /\ req[p].pc = "update" /\ UserLockFree
      /\ acct' = IF req[p].op = "change" THEN [acct EXCEPT !.pw = 1 - @] ELSE acct
  BY DEF UpdatePassword
<1>2. /\ acct' \in Row /\ acct'.status = acct.status /\ acct'.must = acct.must
      /\ acct'.temp = acct.temp /\ acct'.exp = acct.exp /\ acct'.codes = acct.codes
  BY <1>1 DEF Inv, Typed, Row
<1>3. CASE End(p)
  <2>1. Sound(Idle)
    BY Zenon DEF Sound, Holds, SigningIn, Spends, Redeems, Idle, Task
  <2>2. \A q \in Requests : Apart(Idle, req[q]) /\ Apart(req[q], Idle)
    BY Zenon DEF Apart, Holds, SigningIn, Spends, Redeems, Idle, Task
  <2> QED
    BY <1>1, <1>2, <1>3, <2>1, <2>2, IdleTyped, PasswordStep, Zenon DEF End
<1>4. CASE ~End(p)
  <2>1. /\ Goto(p, "scan")
        /\ req[p].op = "change" \/ (acct.must /\ acct.exp = "null" /\ acct.temp = req[p].cred)
    BY <1>4 DEF UpdatePassword
  <2>2. PICK r \in AnyRequest : /\ r = [req[p] EXCEPT !.pc = "scan"]
                                /\ r.pc = "scan" /\ r.op = req[p].op /\ r.cred = req[p].cred
    BY AtStep DEF Inv, Typed, Steps
  <2>3. r.op # "reset"
    BY <1>1, <2>2 DEF Inv, AllSound, Sound
  <2>4. Sound(r)
    BY <2>1, <2>2, <2>3 DEF Sound, Spends, Redeems, SigningIn
  <2>5. \A q \in Requests : Apart(r, req[q]) /\ Apart(req[q], r)
    BY <1>1, <2>2, <2>3, LockExcludes DEF Apart, Spends, Redeems, SigningIn
  <2> QED
    BY <1>1, <1>2, <2>1, <2>2, <2>4, <2>5, PasswordStep, Zenon DEF Goto
<1> QED
  BY <1>3, <1>4

LEMMA ScanStep ==
  ASSUME Inv, NEW p \in Requests, Scan(p)
  PROVE  Inv'
<1> DEFINE spared == IF req[p].op = "change" THEN {req[p].tok} ELSE {}
<1>1. /\ UNCHANGED Tables /\ req[p].pc = "scan" /\ req[p] \in AnyRequest /\ rows \subseteq Nat
      /\ req' = [req EXCEPT ![p] = [req[p] EXCEPT !.pc = "apply", !.seen = rows \ spared]]
  BY DEF Scan, Tables, Inv, Typed
<1> DEFINE r == [req[p] EXCEPT !.pc = "apply", !.seen = rows \ spared]
<1>2. /\ r \in AnyRequest /\ r.pc = "apply" /\ r.op = req[p].op /\ r.cred = req[p].cred
      /\ r.seen = rows \ spared /\ req' = [req EXCEPT ![p] = r]
  BY <1>1, Zenon DEF AnyRequest, Steps
<1> HIDE DEF r
<1>3. Holds(r) => r.seen = rows
  BY <1>2 DEF Holds
<1>4. Sound(req[p])
  BY DEF Inv, AllSound
<1>5. Sound(r)
  BY <1>1, <1>2, <1>3, <1>4 DEF Sound, Spends, Redeems, SigningIn
<1>6. ASSUME NEW q \in Requests, q # p
      PROVE  Apart(r, req[q]) /\ Apart(req[q], r)
  <2>1. Apart(req[p], req[q]) /\ Apart(req[q], req[p])
    BY <1>6 DEF Inv, AllApart
  <2> QED
    BY <1>1, <1>2, <2>1 DEF Apart, Holds, Spends, Redeems, SigningIn
<1> QED
  BY <1>1, <1>2, <1>5, <1>6, MoveStep, Zenon

LEMMA ConsumeBackupCodeStep ==
  ASSUME Inv, NEW p \in Requests, ConsumeBackupCode(p)
  PROVE  Inv'
<1>1. /\ UNCHANGED <<issued, rows, preauth, resets>> /\ req[p].pc = "backup" /\ UserLockFree
      /\ Sound(req[p])
  BY DEF ConsumeBackupCode, Inv, AllSound
<1>2. CASE End(p) /\ UNCHANGED acct
  BY <1>1, <1>2, EndStep DEF Tables
<1>3. CASE ~(End(p) /\ UNCHANGED acct)
  <2>1. /\ acct.codes = req[p].codes
        /\ acct' = [acct EXCEPT !.codes = req[p].codes \ {req[p].code}]
        /\ Goto(p, IF req[p].temporaryAuth THEN "consume" ELSE "issue")
    BY <1>3 DEF ConsumeBackupCode
  <2>2. PICK step \in {"consume", "issue"} :
          Goto(p, step) /\ (req[p].temporaryAuth => step = "consume")
    BY <2>1
  <2>3. PICK r \in AnyRequest :
          /\ r = [req[p] EXCEPT !.pc = step] /\ r.pc = step /\ r.op = req[p].op
          /\ r.temporaryAuth = req[p].temporaryAuth /\ r.cred = req[p].cred /\ r.code = req[p].code
    <3>1. req[p] \in AnyRequest /\ step \in Steps
      BY DEF Inv, Typed, Steps
    <3> QED
      BY <3>1, AtStep
  <2>4. req' \in [Requests -> AnyRequest] /\ req'[p] = r /\ \A q \in Requests : q # p => req'[q] = req[q]
    BY <2>2, <2>3 DEF Inv, Typed, Goto
  <2>5. /\ acct' \in Row /\ acct'.codes = acct.codes \ {r.code} /\ r.code \in acct.codes
        /\ acct'.temp = acct.temp /\ acct'.exp = acct.exp /\ acct'.must = acct.must
        /\ acct'.status = acct.status
    <3>1. acct \in Row /\ req[p] \in AnyRequest
      BY DEF Inv, Typed
    <3>2. req[p].codes \ {req[p].code} \in SUBSET Codes
      BY <3>1 DEF AnyRequest
    <3> QED
      BY <1>1, <2>1, <2>3, <3>1, <3>2 DEF Row, Sound
  <2>6. Typed'
    BY <1>1, <2>4, <2>5 DEF Inv, Typed
  <2>7. Settled'
    BY <1>1, <2>5 DEF Inv, Settled, Recovers, Spent
  <2>8. Sound(r)'
    <3>1. ~Spends(r) /\ ~Holds(r) /\ r.op # "reset"
      BY <1>1, <2>2, <2>3 DEF Spends, Holds, Sound
    <3>2. \A i \in 1..Len(issued) : issued[i].code # r.code
      BY <2>5 DEF Inv, Settled
    <3>3. r.cred <= resets
      BY <1>1, <2>3 DEF Sound, SigningIn
    <3> QED
      BY <1>1, <2>3, <2>5, <3>1, <3>2, <3>3 DEF Sound, Spends, Holds
  <2>9. ASSUME NEW q \in Requests, q # p
        PROVE  Sound(req[q])'
    BY <1>1, <2>4, <2>5, <2>9 DEF Inv, AllSound, Sound, Recovers, Spent
  <2>10. ASSUME NEW q \in Requests, q # p
         PROVE  Apart(r, req[q]) /\ Apart(req[q], r)
    <3>1. Apart(req[p], req[q]) /\ Redeems(req[q]) => req[q].code \notin acct.codes
      BY DEF Inv, AllSound, Sound
    <3>2. Apart(req[p], req[q])
      BY <2>10 DEF Inv, AllApart
    <3>3. ~Spends(r) /\ ~Holds(r) /\ r.op # "reset" /\ SigningIn(req[p])
      BY <1>1, <2>2, <2>3 DEF Spends, Holds, Sound, SigningIn
    <3>4. Redeems(req[q]) => req[q].code # r.code
      BY <2>5, <3>1, <3>2
    <3> QED
      BY <2>3, <3>2, <3>3, <3>4 DEF Apart
  <2>11. AllSound'
    BY <2>4, <2>8, <2>9 DEF AllSound
  <2>12. AllApart'
    BY <2>4, <2>10 DEF Inv, AllApart
  <2>13. UsedOnce'
    BY <1>1 DEF Inv, UsedOnce
  <2> QED
    BY <2>6, <2>7, <2>11, <2>12, <2>13 DEF Inv
<1> QED
  BY <1>2, <1>3

LEMMA ConsumeTempPasswordStep ==
  ASSUME Inv, NEW p \in Requests, ConsumeTempPassword(p)
  PROVE  Inv'
<1>1. /\ UNCHANGED <<issued, rows, preauth, resets>> /\ req[p].pc = "consume" /\ UserLockFree
      /\ Sound(req[p])
  BY DEF ConsumeTempPassword, Inv, AllSound
<1>2. CASE End(p) /\ UNCHANGED acct
  BY <1>1, <1>2, EndStep DEF Tables
<1>3. CASE ~(End(p) /\ UNCHANGED acct)
  <2>1. /\ acct.temp = req[p].cred /\ acct.exp = "open"
        /\ acct' = [acct EXCEPT !.exp = "null"] /\ Goto(p, "issue")
    BY <1>3 DEF ConsumeTempPassword
  <2>2. PICK r \in AnyRequest :
          /\ r = [req[p] EXCEPT !.pc = "issue"] /\ r.pc = "issue" /\ r.op = req[p].op
          /\ r.temporaryAuth = req[p].temporaryAuth /\ r.cred = req[p].cred /\ r.code = req[p].code
    BY AtStep DEF Inv, Typed, Steps
  <2>3. req' \in [Requests -> AnyRequest] /\ req'[p] = r /\ \A q \in Requests : q # p => req'[q] = req[q]
    BY <2>1, <2>2 DEF Inv, Typed, Goto
  <2>4. /\ acct' \in Row /\ acct'.codes = acct.codes /\ acct'.exp = "null"
        /\ acct'.temp = acct.temp /\ acct'.must = acct.must /\ acct'.status = acct.status
    BY <2>1 DEF Inv, Typed, Row
  <2>5. Typed'
    BY <1>1, <2>3, <2>4 DEF Inv, Typed
  <2>6. Settled'
    BY <1>1, <2>4 DEF Inv, Settled, Recovers, Spent
  <2>7. \A i \in 1..Len(issued) : Recovers(i) => issued[i].cred # r.cred
    BY <2>1, <2>2 DEF Inv, Settled, Spent
  <2>8. ~Holds(r) /\ r.op # "reset" /\ SigningIn(req[p]) /\ (Redeems(r) <=> Redeems(req[p]))
    BY <1>1, <2>2 DEF Holds, Sound, SigningIn, Redeems
  <2>9. Sound(r)'
    BY <1>1, <2>2, <2>4, <2>7, <2>8 DEF Sound, Holds, Recovers, Spent
  <2>10. ASSUME NEW q \in Requests, q # p
         PROVE  Sound(req[q])'
    BY <1>1, <2>1, <2>3, <2>4, <2>10 DEF Inv, AllSound, Sound, Recovers, Spent
  <2>11. ASSUME NEW q \in Requests, q # p
         PROVE  Apart(r, req[q]) /\ Apart(req[q], r)
    <3>1. Spends(req[q]) => req[q].cred # r.cred
      BY <2>1, <2>2 DEF Inv, AllSound, Sound, Spent
    <3>2. Apart(req[p], req[q])
      BY <2>11 DEF Inv, AllApart
    <3> QED
      BY <2>2, <2>8, <3>1, <3>2 DEF Apart
  <2>12. AllSound'
    BY <2>3, <2>9, <2>10 DEF AllSound
  <2>13. AllApart'
    BY <2>3, <2>11 DEF Inv, AllApart
  <2>14. UsedOnce'
    BY <1>1 DEF Inv, UsedOnce
  <2> QED
    BY <2>5, <2>6, <2>12, <2>13, <2>14 DEF Inv
<1> QED
  BY <1>2, <1>3

LEMMA IssueSessionStep ==
  ASSUME Inv, NEW p \in Requests, IssueSession(p)
  PROVE  Inv'
<1> DEFINE r == req[p]
<1>1. PICK e : e = [parent |-> 0, temporaryAuth |-> r.temporaryAuth, cred |-> r.cred, code |-> r.code]
  BY Zenon
<1>2. r \in AnyRequest /\ r.pc = "issue" /\ Sound(r)
  BY DEF IssueSession, Inv, Typed, AllSound
<1>3. /\ e \in AnyToken /\ e.parent = 0 /\ e.temporaryAuth = r.temporaryAuth
      /\ e.cred = r.cred /\ e.code = r.code
  BY <1>1, <1>2 DEF AnyToken, AnyRequest
<1>4. /\ UNCHANGED <<acct, preauth, resets>> /\ End(p)
      /\ issued' = Append(issued, e) /\ rows' = rows \cup {Len(issued')}
      /\ \A q \in Requests : req[q].pc # "rotate"
  BY <1>1 DEF IssueSession
<1>5. issued \in Seq(AnyToken) /\ Len(issued) \in Nat /\ rows \subseteq 1..Len(issued)
  BY DEF Inv, Typed
<1>6. PICK n \in Nat :
        /\ n = Len(issued) + 1 /\ issued' \in Seq(AnyToken) /\ Len(issued') = n
        /\ DOMAIN issued' = 1..n /\ rows' = rows \cup {n} /\ issued'[n] = e
        /\ \A i \in 1..Len(issued) : i \in 1..n /\ issued'[i] = issued[i]
  BY <1>3, <1>4, <1>5, Appended
<1> HIDE DEF r
<1>7. /\ req' \in [Requests -> AnyRequest] /\ req'[p] = Idle
      /\ \A q \in Requests : q # p => req'[q] = req[q]
  BY <1>4, IdleTyped DEF End, Inv, Typed
<1>8. Typed'
  <2>1. rows' \subseteq 1..Len(issued')
    <3>1. n \in 1..n
      BY <1>5, <1>6
    <3>2. \A t \in rows' : t \in 1..n
      BY <1>5, <1>6, <3>1
    <3> QED
      BY <1>6, <3>2
  <2> QED
    BY <1>4, <1>6, <1>7, <2>1 DEF Inv, Typed
<1>9. \A i \in 1..Len(issued') : i \in 1..Len(issued) \/ i = n
  BY <1>5, <1>6
<1>10. e.code \notin acct.codes
  <2>1. r.code # NoCode => r.code \notin acct.codes
    BY <1>2 DEF Sound, Redeems
  <2>2. NoCode \notin acct.codes
    BY NoCodeApart DEF Inv, Typed, Row
  <2> QED
    BY <1>3, <2>1, <2>2
<1>11. e.cred <= resets /\ (e.temporaryAuth => Spent(e.cred))
  BY <1>2, <1>3 DEF Sound, SigningIn, Spends
<1>12. \A i \in 1..Len(issued) : Recovers(i)' <=> Recovers(i)
  BY <1>6 DEF Recovers
<1>13. Recovers(n)' <=> e.temporaryAuth
  BY <1>3, <1>5, <1>6 DEF Recovers
<1>14. Settled'
  <2>1. ASSUME NEW i \in 1..Len(issued)
        PROVE  /\ issued'[i].cred <= resets'
               /\ issued'[i].parent <= Len(issued') /\ issued'[i].parent \notin rows'
               /\ issued'[i].code \notin acct'.codes
               /\ (Recovers(i) => Spent(issued[i].cred))'
    <3>1. issued[i].parent \in Nat /\ issued[i].parent <= Len(issued)
      BY Tokens DEF Inv, Settled
    <3> QED
      BY <1>4, <1>5, <1>6, <1>12, <3>1 DEF Inv, Settled, Spent
  <2>2. /\ e.cred <= resets'
        /\ e.parent <= Len(issued') /\ e.parent \notin rows'
        /\ e.code \notin acct'.codes
        /\ Recovers(n)' => Spent(e.cred)'
    BY <1>3, <1>4, <1>5, <1>6, <1>10, <1>11, <1>13 DEF Spent
  <2>3. acct'.temp <= resets' /\ \A t \in preauth' : t.cred <= resets'
    BY <1>4 DEF Inv, Settled
  <2> QED
    BY <1>6, <1>9, <2>1, <2>2, <2>3 DEF Settled
<1>15. ASSUME NEW q \in Requests, q # p
       PROVE  Sound(req[q])'
  <2> DEFINE s == req[q]
  <2>1. Sound(s) /\ Apart(r, s) /\ Apart(s, r) /\ s \in AnyRequest
    BY <1>15 DEF Inv, AllSound, AllApart, Typed, r
  <2>2. s.pc = "lock" => s.tok \in 1..Len(issued')
    BY <1>5, <1>6, <2>1 DEF Sound
  <2>3. Holds(s) /\ s.pc = "apply" => \A t \in rows' : issued'[t].parent # 0 => t \in s.seen
    <3>1. \A t \in rows' : t \in rows \/ issued'[t].parent = 0
      BY <1>3, <1>4, <1>6
    <3> QED
      BY <1>5, <1>6, <2>1, <3>1 DEF Sound
  <2>4. s.op = "reset" => \A i \in 1..Len(issued') : issued'[i].cred < s.cred
    <3>1. s.op = "reset" => e.cred < s.cred
      BY <1>2, <1>3, <2>1 DEF Apart, SigningIn
    <3> QED
      BY <1>6, <1>9, <2>1, <3>1, Zenon DEF Sound
  <2>5. Redeems(s) => \A i \in 1..Len(issued') : issued'[i].code # s.code
    <3>1. Redeems(s) => e.code # s.code
      BY <1>2, <1>3, <2>1, Zenon DEF Apart, Redeems
    <3> QED
      BY <1>6, <1>9, <2>1, <3>1, Zenon DEF Sound
  <2>6. Spends(s) => \A i \in 1..Len(issued') : Recovers(i)' => issued'[i].cred # s.cred
    <3>1. Spends(s) /\ e.temporaryAuth => e.cred # s.cred
      BY <1>2, <1>3, <2>1, Zenon DEF Apart, Spends
    <3> QED
      BY <1>6, <1>9, <1>12, <1>13, <2>1, <3>1, Zenon DEF Sound
  <2>7. s.pc # "rotate" /\ req'[q] = s
    BY <1>4, <1>7, <1>15, Zenon
  <2>8. PICK x : x = s
    OBVIOUS
  <2>9. Sound(x)'
    BY <1>4, <2>1, <2>2, <2>3, <2>4, <2>5, <2>6, <2>7, <2>8, Zenon DEF Sound, Spent
  <2> QED
    BY <2>7, <2>8, <2>9
<1>16. AllSound'
  <2>1. Sound(Idle)'
    BY Zenon DEF Sound, Holds, SigningIn, Spends, Redeems, Idle, Task
  <2> QED
    BY <1>7, <1>15, <2>1 DEF AllSound
<1>17. AllApart'
  <2>1. \A q \in Requests : Apart(Idle, req[q]) /\ Apart(req[q], Idle)
    BY Zenon DEF Apart, Holds, SigningIn, Spends, Redeems, Idle, Task
  <2> QED
    BY <1>7, <2>1 DEF Inv, AllApart
<1>18. \A i \in 1..Len(issued) :
         /\ Recovers(i) /\ e.temporaryAuth => issued[i].cred # e.cred
         /\ e.code # NoCode => issued[i].code # e.code
  BY <1>2, <1>3 DEF Sound, Spends, Redeems
<1>19. UsedOnce'
  BY <1>3, <1>5, <1>6, <1>9, <1>18 DEF Inv, UsedOnce, Recovers
<1> QED
  BY <1>8, <1>14, <1>16, <1>17, <1>19 DEF Inv

LEMMA RotateStep ==
  ASSUME Inv, NEW p \in Requests, Rotate(p)
  PROVE  Inv'
<1>1. UNCHANGED <<acct, preauth, resets>> /\ End(p) /\ req[p].pc = "rotate"
  BY Zenon DEF Rotate
<1>2. CASE UNCHANGED <<issued, rows>>
  BY <1>1, <1>2, EndStep DEF Tables
<1>3. CASE ~UNCHANGED <<issued, rows>>
  <2>1. PICK t : t = req[p].tok
    OBVIOUS
  <2>2. /\ issued \in Seq(AnyToken) /\ Len(issued) \in Nat /\ rows \subseteq 1..Len(issued)
        /\ t \in 1..Len(issued)
    BY <1>1, <2>1 DEF Inv, Typed, AllSound, Sound
  <2>3. PICK e : e = [parent |-> t, temporaryAuth |-> issued[t].temporaryAuth,
                      cred |-> issued[t].cred, code |-> NoCode]
    BY Zenon
  <2>4. /\ e \in AnyToken /\ e.parent = t /\ e.cred = issued[t].cred /\ e.code = NoCode
        /\ e.parent # 0
    BY <2>2, <2>3, Tokens DEF AnyToken, Inv
  <2>5. /\ t \in rows /\ issued' = Append(issued, e)
        /\ rows' = (rows \ (expired \cup {t})) \cup {Len(issued')}
    BY <1>3, <2>1, <2>3 DEF Rotate
  <2>6. PICK n \in Nat :
          /\ n = Len(issued) + 1 /\ issued' \in Seq(AnyToken) /\ Len(issued') = n
          /\ DOMAIN issued' = 1..n /\ rows' \subseteq (rows \ {t}) \cup {n} /\ issued'[n] = e
          /\ \A i \in 1..Len(issued) : i \in 1..n /\ issued'[i] = issued[i]
    BY <2>2, <2>4, <2>5, Appended
  <2>7. /\ req' \in [Requests -> AnyRequest] /\ req'[p] = Idle
        /\ \A q \in Requests : q # p => req'[q] = req[q]
    BY <1>1, IdleTyped DEF End, Inv, Typed
  <2>8. Typed'
    <3>1. n \in 1..n
      BY <2>2, <2>6
    <3>2. \A x \in rows' : x \in 1..n
      BY <2>2, <2>6, <3>1
    <3> QED
      BY <1>1, <2>6, <2>7, <3>2 DEF Inv, Typed
  <2>9. \A i \in 1..Len(issued') : i \in 1..Len(issued) \/ i = n
    BY <2>2, <2>6
  <2>10. \A i \in 1..Len(issued) : Recovers(i)' <=> Recovers(i)
    BY <2>6 DEF Recovers
  <2>11. ~Recovers(n)'
    BY <2>4, <2>6 DEF Recovers
  <2>12. Settled'
    <3>1. ASSUME NEW i \in 1..Len(issued)
          PROVE  /\ issued'[i].cred <= resets'
                 /\ issued'[i].parent <= Len(issued') /\ issued'[i].parent \notin rows'
                 /\ issued'[i].code \notin acct'.codes
                 /\ (Recovers(i) => Spent(issued[i].cred))'
      <4>1. issued[i].parent \in Nat /\ issued[i].parent <= Len(issued)
        BY Tokens DEF Inv, Settled
      <4> QED
        BY <1>1, <2>2, <2>6, <2>10, <4>1 DEF Inv, Settled, Spent
    <3>2. e.cred <= resets' /\ e.parent <= Len(issued') /\ e.parent \notin rows'
      BY <1>1, <2>2, <2>4, <2>6 DEF Inv, Settled
    <3>3. e.code \notin acct'.codes
      BY <1>1, <2>4, NoCodeApart DEF Inv, Typed, Row
    <3>4. acct'.temp <= resets' /\ \A x \in preauth' : x.cred <= resets'
      BY <1>1 DEF Inv, Settled
    <3> QED
      BY <2>6, <2>9, <2>11, <3>1, <3>2, <3>3, <3>4 DEF Settled
  <2>13. ASSUME NEW q \in Requests, q # p
         PROVE  Sound(req[q])'
    <3>1. PICK s : s = req[q]
      OBVIOUS
    <3>2. Sound(s) /\ ~Holds(s)
      BY <1>1, <2>13, <3>1, Zenon DEF Inv, AllSound, AllApart, Apart, Holds
    <3>3. s.op # "reset" /\ s.pc # "rotate" /\ ~(s.op = "recover" /\ s.pc \in {"scan", "apply"})
      BY <3>2, Zenon DEF Sound, Holds
    <3>4. s.pc = "lock" => s.tok \in 1..Len(issued')
      BY <2>2, <2>6, <3>2 DEF Sound
    <3>5. Redeems(s) => \A i \in 1..Len(issued') : issued'[i].code # s.code
      <4>1. Redeems(s) => s.code # NoCode
        BY DEF Redeems
      <4> QED
        BY <2>4, <2>6, <2>9, <3>2, <4>1 DEF Sound
    <3>6. Spends(s) => \A i \in 1..Len(issued') : (Recovers(i) => issued[i].cred # s.cred)'
      BY <2>6, <2>9, <2>10, <2>11, <3>2, Zenon DEF Sound
    <3>7. Sound(s)'
      BY <1>1, <3>2, <3>3, <3>4, <3>5, <3>6, Zenon DEF Sound, Spent
    <3> QED
      BY <2>7, <2>13, <3>1, <3>7
  <2>14. AllSound'
    <3>1. Sound(Idle)'
      BY Zenon DEF Sound, Holds, SigningIn, Spends, Redeems, Idle, Task
    <3> QED
      BY <2>7, <2>13, <3>1 DEF AllSound
  <2>15. AllApart'
    <3>1. \A q \in Requests : Apart(Idle, req[q]) /\ Apart(req[q], Idle)
      BY Zenon DEF Apart, Holds, SigningIn, Spends, Redeems, Idle, Task
    <3> QED
      BY <2>7, <3>1 DEF Inv, AllApart
  <2>16. \A i \in 1..Len(issued) : issued[i].parent # t
    BY <2>5 DEF Inv, Settled
  <2>17. UsedOnce'
    BY <2>2, <2>4, <2>6, <2>9, <2>16 DEF Inv, UsedOnce
  <2> QED
    BY <2>8, <2>12, <2>14, <2>15, <2>17 DEF Inv
<1> QED
  BY <1>2, <1>3

(* What the commit of a DELETE's transaction does to the users row. *)
LEMMA WrittenRow ==
  ASSUME Inv, NEW p \in Requests, req[p].pc = "apply", acct' = Written(req[p])
  PROVE  /\ acct' \in Row /\ acct'.codes = acct.codes
         /\ ~Holds(req[p]) => acct' = acct
         /\ req[p].op = "ban" =>
              /\ acct'.must = acct.must /\ acct'.temp = acct.temp /\ acct'.exp = acct.exp
         /\ req[p].op = "reset" => acct'.must /\ acct'.temp = req[p].cred /\ acct'.status = acct.status
         /\ req[p].op = "recover" =>
              ~acct'.must /\ acct'.temp = 0 /\ acct'.exp = "null" /\ acct'.status = acct.status
<1>1. acct \in Row /\ req[p].cred \in Nat
  BY DEF Inv, Typed, AnyRequest
<1>2. CASE req[p].op = "ban"
  BY <1>1, <1>2 DEF Written, Row, Holds
<1>3. CASE req[p].op = "reset"
  BY <1>1, <1>3, Zenon DEF Written, Row, Holds
<1>4. CASE req[p].op = "recover"
  <2> DEFINE changed == [acct EXCEPT !.pw = 1 - acct.pw]
  <2>1. acct' = [changed EXCEPT !.temp = 0, !.exp = "null", !.must = FALSE]
    BY <1>4 DEF Written
  <2>2. changed \in Row /\ changed.codes = acct.codes /\ changed.status = acct.status
    <3>1. 1 - acct.pw \in {0, 1}
      BY <1>1 DEF Row
    <3> QED
      BY <1>1, <3>1 DEF Row
  <2> HIDE DEF changed
  <2>3. acct'.codes = acct.codes /\ acct'.status = acct.status
    BY <2>1, <2>2 DEF Row
  <2>4. acct'.temp = 0 /\ acct'.exp = "null"
    BY <2>1, <2>2 DEF Row
  <2>5. acct'.must = FALSE
    BY <2>1, <2>2 DEF Row
  <2>6. acct' \in Row
    <3>1. \A a \in Row : [a EXCEPT !.temp = 0] \in Row
      BY DEF Row
    <3>2. \A a \in Row : [a EXCEPT !.exp = "null"] \in Row
      BY DEF Row
    <3>3. \A a \in Row : [a EXCEPT !.must = FALSE] \in Row
      BY Zenon DEF Row
    <3>4. acct' = [[[changed EXCEPT !.temp = 0] EXCEPT !.exp = "null"] EXCEPT !.must = FALSE]
      BY <2>1
    <3> QED
      BY <2>2, <3>1, <3>2, <3>3, <3>4, Zenon
  <2> QED
    BY <1>4, <2>3, <2>4, <2>5, <2>6 DEF Holds
<1>5. CASE req[p].op \notin {"ban", "reset", "recover"}
  BY <1>1, <1>5, Zenon DEF Written, Row, Holds
<1> QED
  BY <1>2, <1>3, <1>4, <1>5

LEMMA ApplyStep ==
  ASSUME Inv, NEW p \in Requests, Apply(p)
  PROVE  Inv'
<1>1. /\ UNCHANGED <<issued, preauth, resets>> /\ req[p].pc = "apply" /\ rows' \subseteq rows
      /\ acct' = Written(req[p])
  BY DEF Apply
<1>2. Sound(req[p])
  BY DEF Inv, AllSound
<1>3. PICK n \in AnyRequest :
        /\ req' = [req EXCEPT ![p] = n]
        /\ n.temporaryAuth = FALSE /\ n.cred = 0 /\ n.code = NoCode
        /\ n.op \notin {"ban", "reset"} /\ n.pc \in {"idle", "issue"}
        /\ n.pc = "issue" => req[p].op = "recover"
  <2>1. Task("issue", "recover", 0, 0) \in AnyRequest
    BY TaskTyped DEF Steps, Ops
  <2>2. CASE req[p].op = "recover"
    BY <2>1, <2>2, Zenon DEF Apply, Task
  <2>3. CASE req[p].op # "recover"
    BY <2>3, IdleTyped, Zenon DEF Apply, End, Idle, Task
  <2> QED
    BY <2>2, <2>3, Zenon
<1>4. req' \in [Requests -> AnyRequest] /\ req'[p] = n /\ \A q \in Requests : q # p => req'[q] = req[q]
  BY <1>3 DEF Inv, Typed
<1>5. resets \in Nat /\ acct.temp \in Nat /\ \A q \in Requests : req[q].cred \in Nat
  BY DEF Inv, Typed, Row, AnyRequest
<1>6. /\ acct' \in Row /\ acct'.codes = acct.codes /\ acct'.temp <= resets
  BY <1>1, <1>2, <1>5, WrittenRow DEF Holds, Inv, Settled, Sound
<1>7. ASSUME NEW c, Spent(c), req[p].op = "reset" => c # req[p].cred
      PROVE  Spent(c)'
  <2>1. CASE ~Holds(req[p])
    BY <1>1, <1>7, <2>1, WrittenRow DEF Spent
  <2>2. CASE Holds(req[p])
    BY <1>1, <1>7, <2>2, WrittenRow DEF Spent, Holds
  <2> QED
    BY <2>1, <2>2
<1>8. Typed'
  BY <1>1, <1>4, <1>6 DEF Inv, Typed
<1>9. Settled'
  <2>1. ASSUME NEW i \in 1..Len(issued)
        PROVE  (Recovers(i) => Spent(issued[i].cred))'
    <3>1. PICK c : c = issued[i].cred
      OBVIOUS
    <3>2. req[p].op = "reset" => c # req[p].cred
      BY <1>2, <1>5, <3>1, Tokens DEF Inv, Sound
    <3>3. Recovers(i) => Spent(c)'
      BY <1>7, <3>1, <3>2, Zenon DEF Inv, Settled
    <3> QED
      BY <1>1, <3>1, <3>3, Zenon DEF Recovers
  <2> QED
    BY <1>1, <1>6, <2>1, Zenon DEF Inv, Settled
<1>10. ASSUME NEW q \in Requests, q # p
       PROVE  Sound(req[q])' /\ (req[p].op = "recover" => req[q].op # "reset")
  <2>1. PICK s : s = req[q]
    OBVIOUS
  <2>2. Sound(s) /\ Apart(s, req[p])
    BY <1>10, <2>1 DEF Inv, AllSound, AllApart
  <2>3. CASE ~Holds(req[p])
    <3>1. acct' = acct
      BY <1>1, <2>3, WrittenRow
    <3>2. req[p].op # "recover"
      BY <1>1, <2>3 DEF Holds
    <3>3. Sound(s)'
      BY <1>1, <2>2, <3>1, Zenon DEF Sound, Recovers, Spent
    <3> QED
      BY <1>4, <1>10, <2>1, <3>2, <3>3
  <2>4. CASE Holds(req[p])
    <3>1. ~Holds(s)
      BY <2>2, <2>4 DEF Apart
    <3>2. s.op # "reset" /\ s.pc # "rotate" /\ ~(s.op = "recover" /\ s.pc \in {"scan", "apply"})
      BY <2>2, <3>1, Zenon DEF Sound, Holds
    <3>3. Spends(s) => Spent(s.cred)'
      <4>1. Spends(s) => SigningIn(s)
        BY DEF Spends, SigningIn
      <4>2. Spends(s) /\ req[p].op = "reset" => s.cred # req[p].cred
        BY <1>5, <2>1, <2>2, <4>1 DEF Apart
      <4> QED
        BY <1>7, <2>2, <4>2 DEF Sound
    <3>4. Sound(s)'
      BY <1>1, <1>6, <2>2, <3>1, <3>2, <3>3, Zenon DEF Sound, Recovers
    <3> QED
      BY <1>4, <1>10, <2>1, <3>2, <3>4
  <2> QED
    BY <2>3, <2>4
<1>11. Sound(n)'
  <2>1. ~Holds(n) /\ ~Spends(n) /\ ~Redeems(n) /\ n.op # "reset" /\ n.cred <= resets'
    BY <1>1, <1>3, <1>5 DEF Holds, Spends, Redeems
  <2> QED
    BY <1>3, <2>1, Zenon DEF Sound
<1>12. ASSUME NEW q \in Requests, q # p
       PROVE  Apart(n, req[q]) /\ Apart(req[q], n)
  <2>1. ~Holds(n) /\ ~Spends(n) /\ ~Redeems(n) /\ n.op # "reset"
    BY <1>3 DEF Holds, Spends, Redeems
  <2>2. SigningIn(n) => req[q].op # "reset"
    BY <1>3, <1>10, <1>12 DEF SigningIn
  <2> QED
    BY <2>1, <2>2 DEF Apart
<1>13. AllSound'
  BY <1>4, <1>10, <1>11 DEF AllSound
<1>14. AllApart'
  BY <1>4, <1>12 DEF Inv, AllApart
<1>15. UsedOnce'
  BY <1>1 DEF Inv, UsedOnce
<1> QED
  BY <1>8, <1>9, <1>13, <1>14, <1>15 DEF Inv

-----------------------------------------------------------------------------
(* Everything else                                                         *)

LEMMA DeleteSessionStep ==
  ASSUME Inv, NEW t \in rows, DeleteSession(t)
  PROVE  Inv'
<1>1. rows' \subseteq rows /\ UNCHANGED <<acct, issued, preauth, resets, req>>
  BY DEF DeleteSession
<1>2. Typed' /\ Settled' /\ UsedOnce' /\ AllApart'
  BY <1>1, Zenon DEF Inv, Typed, Settled, UsedOnce, AllApart, Recovers, Spent
<1>3. ASSUME NEW q \in Requests
      PROVE  Sound(req[q])'
  BY <1>1, Zenon DEF Inv, AllSound, Sound, Recovers, Spent
<1> QED
  BY <1>2, <1>3 DEF Inv, AllSound

LEMMA TempPasswordExpiresStep ==
  ASSUME Inv, TempPasswordExpires
  PROVE  Inv'
<1>1. /\ UNCHANGED <<issued, rows, preauth, resets, req>> /\ acct.exp = "open" /\ acct' \in Row
      /\ acct'.status = acct.status /\ acct'.must = acct.must /\ acct'.temp = acct.temp
      /\ acct'.codes = acct.codes
  BY DEF TempPasswordExpires, Inv, Typed, Row
<1>2. Typed' /\ UsedOnce' /\ AllApart'
  BY <1>1 DEF Inv, Typed, UsedOnce, AllApart
<1>3. Settled'
  BY <1>1, Zenon DEF Inv, Settled, Recovers, Spent
<1>4. ASSUME NEW q \in Requests
      PROVE  Sound(req[q])'
  BY <1>1, Zenon DEF Inv, AllSound, Sound, Recovers, Spent
<1> QED
  BY <1>2, <1>3, <1>4 DEF Inv, AllSound

LEMMA StutterStep ==
  ASSUME Inv, UNCHANGED <<Tables, req>>
  PROVE  Inv'
<1>1. UNCHANGED <<acct, issued, rows, preauth, resets, req>>
  BY DEF Tables
<1>2. Typed' /\ Settled' /\ UsedOnce' /\ AllApart'
  BY <1>1 DEF Inv, Typed, Settled, UsedOnce, AllApart, Recovers, Spent
<1>3. ASSUME NEW q \in Requests
      PROVE  Sound(req[q])'
  BY <1>1 DEF Inv, AllSound, Sound, Recovers, Spent
<1> QED
  BY <1>2, <1>3 DEF Inv, AllSound

LEMMA CrashStep ==
  ASSUME Inv, Crash
  PROVE  Inv'
<1>1. /\ UNCHANGED <<acct, issued, rows, preauth, resets>>
      /\ req' \in [Requests -> AnyRequest] /\ \A q \in Requests : req'[q] = Idle
  BY IdleTyped, Zenon DEF Crash
<1>2. Typed' /\ Settled' /\ UsedOnce'
  BY <1>1 DEF Inv, Typed, Settled, UsedOnce, Recovers, Spent
<1>3. Sound(Idle)' /\ Apart(Idle, Idle)
  BY Zenon DEF Sound, Apart, Holds, SigningIn, Spends, Redeems, Idle, Task
<1> QED
  BY <1>1, <1>2, <1>3 DEF Inv, AllSound, AllApart

LEMMA NextInv ==
  ASSUME Inv, [Next]_vars
  PROVE  Inv'
<1>1. ASSUME NEW p \in Requests, DbFailure(p)
      PROVE  Inv'
  BY <1>1, EndStep DEF DbFailure, Tables
<1>2. ASSUME NEW p \in Requests, HandlerStep(p)
      PROVE  Inv'
  BY <1>2, ConsumeBackupCodeStep, ConsumeTempPasswordStep, IssueSessionStep,
     ReadUserForUpdateStep, RotateStep, ReadForChangeStep, UpdatePasswordStep, ScanStep,
     ApplyStep DEF HandlerStep
<1>3. ASSUME NEW t \in rows, SessionExpires(t)
      PROVE  Inv'
  BY <1>3, StutterStep DEF SessionExpires, Tables
<1>4. CASE UNCHANGED vars
  BY <1>4, StutterStep DEF vars, Tables
<1> QED
  BY <1>1, <1>2, <1>3, <1>4, ArrivalStep, DeleteSessionStep, TempPasswordExpiresStep, CrashStep
     DEF Next

LEMMA SpecInv == Spec => []Inv
  BY InitInv, NextInv, PTL DEF Spec

-----------------------------------------------------------------------------
(* What starts a session starts one only: however many requests present it, *)
(* a refresh token is rotated once, a temporary password and a backup code  *)
(* complete one sign-in (refreshTokens, consumeTempPassword and             *)
(* verifyAndConsumeBackupCode of auth.service.ts).                          *)
THEOREM CredentialsUsedOnce == Spec => []UsedOnce
<1>1. Inv => UsedOnce
  BY DEF Inv
<1> QED
  BY <1>1, SpecInv, PTL

(* A new refresh token comes from a sign-in or a rotation. *)
LEMMA NewTokens ==
  ASSUME [Next]_vars, issued' # issued
  PROVE  \E p \in Requests : IssueSession(p) \/ Rotate(p)
  BY Zenon DEF Next, vars, Arrival, HandlerStep, LoginUser, IssueProviderSession, LogoutAll,
         ResetPassword, CompleteTwoFactorLogin, RefreshTokens, UpdateUserPassword, UpdateStatus,
         ConsumeBackupCode, ConsumeTempPassword, ReadUserForUpdate, ReadForChange,
         UpdatePassword, Scan, Apply, DbFailure, DeleteSession, SessionExpires,
         TempPasswordExpires, Crash

(* A rotation inserts a token for an ACTIVE account only, and a temporary   *)
(* one exactly while the password change is forced: what refreshTokens has  *)
(* read FOR UPDATE is still so when it inserts, and the token's claim was   *)
(* compared with it.                                                        *)
THEOREM RotationsLawful == Spec => RotationLawful
<1> DEFINE A == \A i \in DOMAIN issued' \ DOMAIN issued :
                  issued'[i].parent # 0 =>
                    acct.status = "ACTIVE" /\ acct.must = issued'[i].temporaryAuth
<1>1. ASSUME Inv, [Next]_vars
      PROVE  [A]_vars
  <2>1. SUFFICES ASSUME NEW i \in DOMAIN issued' \ DOMAIN issued, issued'[i].parent # 0
                 PROVE  acct.status = "ACTIVE" /\ acct.must = issued'[i].temporaryAuth
    OBVIOUS
  <2>2. PICK p \in Requests : IssueSession(p) \/ Rotate(p)
    BY <1>1, <2>1, NewTokens
  <2>3. issued \in Seq(AnyToken) /\ DOMAIN issued = 1..Len(issued) /\ Len(issued) \in Nat
    BY <1>1 DEF Inv, Typed
  <2>4. req[p] \in AnyRequest /\ Sound(req[p])
    BY <1>1 DEF Inv, Typed, AllSound
  <2>5. CASE IssueSession(p)
    <3> DEFINE e == [parent |-> 0, temporaryAuth |-> req[p].temporaryAuth,
                     cred |-> req[p].cred, code |-> req[p].code]
    <3>1. e \in AnyToken /\ e.parent = 0 /\ issued' = Append(issued, e)
      BY <2>4, <2>5 DEF IssueSession, AnyToken, AnyRequest
    <3> HIDE DEF e
    <3>2. i = Len(issued) + 1 /\ issued'[i] = e
      BY <2>1, <2>3, <3>1, Appended
    <3> QED
      BY <2>1, <3>1, <3>2
  <2>6. CASE Rotate(p)
    <3> DEFINE t == req[p].tok
               e == [parent |-> t, temporaryAuth |-> issued[t].temporaryAuth,
                     cred |-> issued[t].cred, code |-> NoCode]
    <3>1. req[p].pc = "rotate" /\ issued' = Append(issued, e)
      BY <2>1, <2>6 DEF Rotate
    <3>2. /\ t \in 1..Len(issued) /\ acct.status = "ACTIVE"
          /\ acct.must = issued[t].temporaryAuth
      BY <2>4, <3>1, Zenon DEF Sound
    <3>3. e \in AnyToken /\ e.temporaryAuth = issued[t].temporaryAuth
      BY <1>1, <3>2, Tokens DEF AnyToken, Inv
    <3> HIDE DEF e
    <3>4. i = Len(issued) + 1 /\ issued'[i] = e
      BY <2>1, <2>3, <3>1, <3>3, Appended
    <3> QED
      BY <3>2, <3>3, <3>4
  <2> QED
    BY <2>2, <2>5, <2>6
<1> QED
  BY <1>1, SpecInv, PTL DEF Spec, RotationLawful

(* Only the commit of a DELETE's transaction bans the account, or begins,   *)
(* renews or ends its recovery.                                             *)
LEMMA OnlyApplyRevokes ==
  ASSUME Inv, [Next]_vars, \A p \in Requests : ~Apply(p)
  PROVE  /\ acct'.must = acct.must /\ acct'.temp = acct.temp
         /\ acct'.status = "BANNED" => acct.status = "BANNED"
<1>1. acct \in Row
  BY DEF Inv, Typed
<1>2. CASE acct' = acct
  BY <1>2
<1>3. CASE TempPasswordExpires
  BY <1>1, <1>3 DEF TempPasswordExpires, Row
<1>4. ASSUME NEW p \in Requests, NEW s \in {"PENDING", "ACTIVE", "BANNED"}, UpdateStatus(p, s)
      PROVE  /\ acct'.must = acct.must /\ acct'.temp = acct.temp
             /\ acct'.status = "BANNED" => acct.status = "BANNED"
  BY <1>1, <1>4 DEF UpdateStatus, Row
<1>5. ASSUME NEW p \in Requests, ConsumeBackupCode(p) \/ ConsumeTempPassword(p) \/ UpdatePassword(p)
      PROVE  acct'.must = acct.must /\ acct'.temp = acct.temp /\ acct'.status = acct.status
  BY <1>1, <1>5 DEF ConsumeBackupCode, ConsumeTempPassword, UpdatePassword, Row
<1>6. \/ acct' = acct \/ TempPasswordExpires
      \/ \E p \in Requests, s \in {"PENDING", "ACTIVE", "BANNED"} : UpdateStatus(p, s)
      \/ \E p \in Requests : ConsumeBackupCode(p) \/ ConsumeTempPassword(p) \/ UpdatePassword(p)
  BY Zenon DEF Next, vars, Arrival, HandlerStep, LoginUser, IssueProviderSession, LogoutAll,
         ResetPassword, CompleteTwoFactorLogin, RefreshTokens, UpdateUserPassword,
         ReadUserForUpdate, ReadForChange, IssueSession, Rotate,
         Scan, DbFailure, DeleteSession, SessionExpires, Crash
<1> QED
  BY <1>2, <1>3, <1>4, <1>5, <1>6

(* A ban, a reset and a completed recovery leave no rotated session: a      *)
(* rotation needs the users row that the revoking transaction holds, so     *)
(* whatever was rotated before is seen by its DELETE.                       *)
THEOREM RevocationsComplete == Spec => RevocationCatchesRotations
<1> DEFINE Revokes == \/ acct'.status = "BANNED" /\ acct.status # "BANNED"
                      \/ acct'.must # acct.must
                      \/ acct'.temp > acct.temp
           A == Revokes => \A t \in rows' : issued[t].parent = 0
<1>1. ASSUME Inv, [Next]_vars
      PROVE  [A]_vars
  <2>1. SUFFICES ASSUME Revokes, NEW t \in rows'
                 PROVE  issued[t].parent = 0
    OBVIOUS
  <2>2. acct.temp \in Nat
    BY <1>1 DEF Inv, Typed, Row
  <2>3. PICK p \in Requests : Apply(p)
    BY <1>1, <2>1, <2>2, OnlyApplyRevokes
  <2>4. /\ req[p].pc = "apply" /\ rows' = rows \ req[p].seen /\ acct' = Written(req[p])
    BY <2>3 DEF Apply
  <2>5. Holds(req[p])
    BY <1>1, <2>1, <2>2, <2>4, WrittenRow
  <2>6. \A x \in rows : issued[x].parent # 0 => x \in req[p].seen
    BY <1>1, <2>4, <2>5, Zenon DEF Inv, AllSound, Sound
  <2> QED
    BY <2>1, <2>4, <2>6
<1> QED
  BY <1>1, SpecInv, PTL DEF Spec, RevocationCatchesRotations

(* A forced recovery is ended by the newest temporary password, which a     *)
(* sign-in has consumed: the compare-and-swap of updatePassword and the     *)
(* lock it holds until the commit keep later resets out.                    *)
THEOREM RecoveryNeedsNewestReset == Spec => RecoveryByNewestReset
<1> DEFINE A == acct.must /\ ~acct'.must =>
                  /\ acct.exp = "null"
                  /\ \E p \in Requests : /\ req[p].op = "recover" /\ req[p].pc = "apply"
                                         /\ req[p].cred = acct.temp
<1>1. ASSUME Inv, [Next]_vars
      PROVE  [A]_vars
  <2>1. SUFFICES ASSUME acct.must, ~acct'.must
                 PROVE  /\ acct.exp = "null"
                        /\ \E p \in Requests : /\ req[p].op = "recover" /\ req[p].pc = "apply"
                                               /\ req[p].cred = acct.temp
    OBVIOUS
  <2>2. PICK p \in Requests : Apply(p)
    BY <1>1, <2>1, OnlyApplyRevokes, Zenon
  <2>3. req[p].pc = "apply" /\ acct' = Written(req[p])
    BY <2>2 DEF Apply
  <2>4. req[p].op = "recover"
    BY <1>1, <2>1, <2>3, WrittenRow, Zenon DEF Holds
  <2>5. acct.exp = "null" /\ acct.temp = req[p].cred
    BY <1>1, <2>3, <2>4, Zenon DEF Inv, AllSound, Sound
  <2> QED
    BY <2>3, <2>4, <2>5
<1> QED
  BY <1>1, SpecInv, PTL DEF Spec, RecoveryByNewestReset
-----------------------------------------------------------------------------
(* The bounds of the types                                                 *)

(* The requests that may still issue a token. *)
Issuers == {"login", "rotate", "change", "recover"}
Issuing == {q \in Requests : req[q].op \in Issuers}

(* The recovery columns agree. *)
Consistent == (acct.must <=> acct.temp # 0) /\ (~acct.must => acct.exp = "null")

(* What a request has read is within what has been issued. *)
Within(r) ==
  /\ r.tok <= Len(issued) /\ r.cred <= resets /\ r.seen \subseteq 1..Len(issued)
  /\ r.pc \in {"backup", "consume", "issue", "lock", "rotate"} => r.op \in Issuers

(* TypeOK with what keeps it: the room that a request has been given for    *)
(* the token that it may issue is still there.                              *)
Bounded ==
  /\ totp \in BOOLEAN /\ resets <= MaxResets
  /\ Consistent /\ expired \subseteq rows
  /\ \A q \in Requests : Within(req[q])
  /\ Len(issued) + Cardinality(Issuing) <= MaxTokens

(* A step of request p, which becomes r, that keeps the bounds. *)
Bounds(p, r) ==
  /\ req' = [req EXCEPT ![p] = r]
  /\ totp' = totp /\ resets <= resets' /\ resets' <= MaxResets
  /\ Consistent' /\ expired' \subseteq rows'
  /\ Within(r)'
  /\ \/ issued' = issued /\ (r.op \in Issuers => Room \/ req[p].op \in Issuers)
     \/ Len(issued') = Len(issued) + 1 /\ req[p].op \in Issuers /\ r.op \notin Issuers

LEMMA IssuingFinite ==
  /\ IsFiniteSet(Issuing) /\ Cardinality(Issuing) \in Nat
  /\ Cardinality(Issuing) <= Cardinality({q \in Requests : req[q].op # "none"})
  /\ Cardinality({q \in Requests : req[q].op # "none"}) \in Nat
<1> DEFINE busy == {q \in Requests : req[q].op # "none"}
<1>1. busy \in SUBSET Requests /\ Issuing \in SUBSET busy
  BY DEF Issuing, Issuers
<1> HIDE DEF busy
<1>2. IsFiniteSet(busy) /\ Cardinality(busy) \in Nat
  BY <1>1, SessionsAssumption, FS_Subset, FS_CardinalityType
<1>3. IsFiniteSet(Issuing) /\ Cardinality(Issuing) <= Cardinality(busy) /\ Cardinality(Issuing) \in Nat
  BY <1>1, <1>2, FS_Subset, FS_CardinalityType
<1> QED
  BY <1>2, <1>3 DEF busy

(* The room of the requests in flight is kept. *)
LEMMA RoomKept ==
  ASSUME Inv, Inv', Bounded, NEW p \in Requests, NEW r, Bounds(p, r)
  PROVE  Len(issued') + Cardinality(Issuing') <= MaxTokens
<1>1. Len(issued) \in Nat /\ MaxTokens \in Nat /\ Len(issued) + Cardinality(Issuing) <= MaxTokens
  BY SessionsAssumption, Domain DEF Inv, Bounded
<1>2. req'[p] = r /\ \A q \in Requests : q # p => req'[q] = req[q]
  BY DEF Inv, Typed, Bounds
<1>3. CASE r.op \in Issuers => req[p].op \in Issuers
  <2>1. Issuing' \in SUBSET Issuing
    BY <1>2, <1>3 DEF Issuing
  <2>2. Cardinality(Issuing') <= Cardinality(Issuing) /\ Cardinality(Issuing') \in Nat
    BY <2>1, IssuingFinite, FS_Subset, FS_CardinalityType
  <2>3. CASE issued' = issued
    BY <1>1, <2>2, <2>3, IssuingFinite
  <2>4. CASE Len(issued') = Len(issued) + 1 /\ req[p].op \in Issuers /\ r.op \notin Issuers
    <3>1. Issuing' = Issuing \ {p} /\ p \in Issuing
      BY <1>2, <2>4 DEF Issuing
    <3>2. Cardinality(Issuing') = Cardinality(Issuing) - 1
      BY <3>1, IssuingFinite, FS_RemoveElement
    <3> QED
      BY <1>1, <2>4, <3>2, IssuingFinite
  <2> QED
    BY <2>3, <2>4 DEF Bounds
<1>4. CASE r.op \in Issuers /\ req[p].op \notin Issuers
  <2>1. issued' = issued /\ Room
    BY <1>4 DEF Bounds
  <2>2. Issuing' = Issuing \cup {p} /\ p \notin Issuing
    BY <1>2, <1>4 DEF Issuing
  <2>3. Cardinality(Issuing') = Cardinality(Issuing) + 1
    BY <2>2, IssuingFinite, FS_AddElement
  <2> QED
    BY <1>1, <2>1, <2>3, IssuingFinite DEF Room
<1> QED
  BY <1>3, <1>4

LEMMA BoundsKept ==
  ASSUME Inv, Inv', Bounded, NEW p \in Requests, NEW r, Bounds(p, r)
  PROVE  Bounded'
<1>1. req'[p] = r /\ \A q \in Requests : q # p => req'[q] = req[q]
  BY DEF Inv, Typed, Bounds
<1>2. Len(issued) \in Nat /\ Len(issued') \in Nat /\ resets \in Nat /\ resets' \in Nat
  BY DEF Inv, Typed
<1>3. Len(issued) <= Len(issued') /\ resets <= resets'
  BY <1>2 DEF Bounds
<1>4. ASSUME NEW q \in Requests, q # p
      PROVE  Within(req[q])'
  <2>1. Within(req[q]) /\ req[q].tok \in Nat /\ req[q].cred \in Nat /\ req'[q] = req[q]
    BY <1>1, <1>4 DEF Bounded, Inv, Typed, AnyRequest
  <2> QED
    BY <1>2, <1>3, <2>1 DEF Within
<1>5. \A q \in Requests : Within(req[q])'
  BY <1>1, <1>4 DEF Bounds, Within
<1> QED
  BY <1>5, RoomKept, Zenon DEF Bounded, Bounds

(* A request ends, goes on to its next step, or begins. *)
LEMMA EndBounds ==
  ASSUME Inv, Bounded, NEW p \in Requests, End(p), issued' = issued, totp' = totp,
         resets' = resets, Consistent', expired' \subseteq rows'
  PROVE  \E r : Bounds(p, r)
<1>1. Within(Idle)' /\ Idle.op \notin Issuers
  BY Domain DEF Inv, Typed, Within, Idle, Task, Issuers
<1>2. resets <= resets' /\ resets' <= MaxResets
  BY DEF Inv, Typed, Bounded
<1>3. Bounds(p, Idle)
  BY <1>1, <1>2, Zenon DEF Bounds, End
<1> QED
  BY <1>3

LEMMA MoveBounds ==
  ASSUME Inv, Bounded, NEW p \in Requests, NEW step \in Steps, Goto(p, step),
         step \in {"backup", "consume", "issue", "lock", "rotate"} => req[p].op \in Issuers,
         issued' = issued, totp' = totp, resets' = resets, Consistent', expired' \subseteq rows'
  PROVE  \E r : Bounds(p, r)
<1>1. req[p] \in AnyRequest /\ Within(req[p])
  BY DEF Inv, Typed, Bounded
<1>2. PICK r \in AnyRequest :
        /\ r = [req[p] EXCEPT !.pc = step] /\ r.pc = step /\ r.op = req[p].op
        /\ r.tok = req[p].tok /\ r.cred = req[p].cred /\ r.seen = req[p].seen
  BY <1>1, AtStep
<1>3. Within(r)'
  BY <1>1, <1>2 DEF Within
<1>4. resets <= resets' /\ resets' <= MaxResets
  BY DEF Inv, Typed, Bounded
<1>5. req' = [req EXCEPT ![p] = r]
  BY <1>2 DEF Goto
<1>6. Bounds(p, r)
  BY <1>2, <1>3, <1>4, <1>5, Zenon DEF Bounds
<1> QED
  BY <1>6

LEMMA BeginBounds ==
  ASSUME Inv, Bounded, NEW p \in Requests, NEW r, Begin(p, r), r.op \in Issuers => Room,
         Within(r), issued' = issued, totp' = totp, resets' = resets, acct' = acct, rows' = rows,
         expired' = expired
  PROVE  \E k : Bounds(p, k)
<1>1. Within(r)' /\ Consistent' /\ expired' \subseteq rows'
  BY DEF Within, Bounded, Consistent
<1>2. resets <= resets' /\ resets' <= MaxResets
  BY DEF Inv, Typed, Bounded
<1>3. Bounds(p, r)
  BY <1>1, <1>2, Zenon DEF Bounds, Begin
<1> QED
  BY <1>3

LEMMA TaskWithin ==
  ASSUME Inv, NEW t \in Nat, t <= Len(issued), NEW step, NEW o,
         step \in {"backup", "consume", "issue", "lock", "rotate"} => o \in Issuers
  PROVE  Within(Task(step, o, t, 0)) /\ Task(step, o, t, 0).op = o
  BY DEF Within, Task, Inv, Typed

LEMMA SignInWithin ==
  ASSUME Inv, NEW step, NEW temporary, NEW c \in Nat, c <= resets, NEW code, NEW codes
  PROVE  Within(SignIn(step, temporary, c, code, codes))
  BY DEF Within, SignIn, Inv, Typed, Issuers

LEMMA ArrivalBounds ==
  ASSUME Inv, Bounded, NEW p \in Requests, Arrival(p)
  PROVE  \E r : Bounds(p, r)
<1>1. /\ acct \in Row /\ acct.temp \in Nat /\ acct.temp <= resets /\ resets \in Nat
      /\ req \in [Requests -> AnyRequest] /\ Len(issued) \in Nat /\ 0 <= Len(issued)
      /\ Within(req[p]) /\ Consistent /\ expired \subseteq rows /\ rows \subseteq 1..Len(issued)
      /\ resets <= resets /\ resets <= MaxResets
  BY Domain DEF Inv, Typed, Settled, Row, Bounded
<1>2. ASSUME LoginUser(p)
      PROVE  \E r : Bounds(p, r)
  <2>1. /\ acct' = acct /\ totp' = totp /\ issued' = issued /\ rows' = rows /\ expired' = expired
        /\ resets' = resets /\ Room
    BY <1>2 DEF LoginUser
  <2>2. CASE req' = req
    <3>1. req' = [req EXCEPT ![p] = req[p]]
      BY <1>1, <2>2
    <3>2. Within(req[p])' /\ Consistent'
      BY <1>1, <2>1, <2>2 DEF Within, Consistent
    <3>3. Bounds(p, req[p])
      BY <1>1, <2>1, <3>1, <3>2, Zenon DEF Bounds
    <3> QED
      BY <3>3
  <2>3. CASE req' # req
    <3>1. PICK c \in {0, acct.temp}, step \in Steps :
            Begin(p, SignIn(step, acct.must, c, NoCode, {}))
      BY <1>2, <2>3, Zenon DEF LoginUser, Steps
    <3>2. c \in Nat /\ c <= resets
      BY <1>1
    <3> QED
      BY <2>1, <3>1, <3>2, SignInWithin, BeginBounds, Zenon
  <2> QED
    BY <2>2, <2>3
<1>3. ASSUME IssueProviderSession(p)
      PROVE  \E r : Bounds(p, r)
  <2>1. 0 \in Nat /\ 0 <= resets
    BY <1>1
  <2>2. Within(SignIn("issue", FALSE, 0, NoCode, {}))
    BY <2>1, SignInWithin, Zenon
  <2> QED
    BY <1>3, <2>2, BeginBounds, Zenon DEF IssueProviderSession
<1>4. ASSUME LogoutAll(p)
      PROVE  \E r : Bounds(p, r)
  BY <1>1, <1>4, TaskWithin, BeginBounds DEF LogoutAll, Issuers
<1>5. ASSUME ResetPassword(p)
      PROVE  \E r : Bounds(p, r)
  <2> DEFINE r == Task("scan", "reset", 0, resets')
  <2>1. /\ acct' = acct /\ totp' = totp /\ issued' = issued /\ rows' = rows /\ expired' = expired
        /\ resets' = resets + 1 /\ resets < MaxResets /\ Begin(p, r)
    BY <1>5 DEF ResetPassword
  <2>2. /\ r.tok = 0 /\ r.cred = resets' /\ r.seen = {} /\ r.pc = "scan" /\ r.op = "reset"
    BY DEF Task
  <2> HIDE DEF r
  <2>3. PICK k : k = r
    OBVIOUS
  <2>4. Within(k)' /\ Consistent' /\ expired' \subseteq rows' /\ k.op \notin Issuers
    <3>1. Consistent' /\ expired' \subseteq rows'
      BY <1>1, <2>1, Zenon DEF Consistent
    <3>2. /\ k.tok = 0 /\ k.cred = resets' /\ k.seen = {} /\ k.pc = "scan" /\ k.op = "reset"
          /\ Len(issued) \in Nat /\ Len(issued)' = Len(issued) /\ resets' \in Nat
      BY <1>1, <2>1, <2>2, <2>3
    <3>3. k.op \notin Issuers
      BY <3>2 DEF Issuers
    <3>4. Within(k)'
      BY <3>2 DEF Within
    <3> QED
      BY <3>1, <3>3, <3>4, Zenon
  <2>5. resets <= resets' /\ resets' <= MaxResets
    BY <1>1, <2>1, SessionsAssumption
  <2>6. Bounds(p, k)
    BY <2>1, <2>3, <2>4, <2>5, Zenon DEF Bounds, Begin
  <2> QED
    BY <2>6
<1>6. ASSUME NEW t \in preauth, NEW code \in Codes \cup {NoCode}, CompleteTwoFactorLogin(p, t, code)
      PROVE  \E r : Bounds(p, r)
  <2>1. t.cred \in Nat /\ t.cred <= resets
    BY DEF Inv, Typed, Settled, AnyPreAuth
  <2>2. PICK step \in Steps : Begin(p, SignIn(step, t.temporaryAuth, t.cred, code, acct.codes))
    BY <1>6, Zenon DEF CompleteTwoFactorLogin, Steps
  <2> QED
    BY <1>6, <2>1, <2>2, SignInWithin, BeginBounds, Zenon DEF CompleteTwoFactorLogin
<1>7. ASSUME NEW t \in rows, RefreshTokens(p, t)
      PROVE  \E r : Bounds(p, r)
  <2>1. t \in Nat /\ t <= Len(issued)
    BY <1>1
  <2> QED
    BY <1>7, <2>1, TaskWithin, BeginBounds DEF RefreshTokens, Issuers
<1>8. ASSUME NEW t \in DOMAIN issued, UpdateUserPassword(p, t)
      PROVE  \E r : Bounds(p, r)
  <2>1. t \in Nat /\ t <= Len(issued)
    BY Domain DEF Inv
  <2>2. PICK o \in {"recover", "change"} : Begin(p, Task("read", o, t, 0))
    BY <1>8 DEF UpdateUserPassword
  <2> QED
    BY <1>8, <2>1, <2>2, TaskWithin, BeginBounds, Zenon DEF UpdateUserPassword
<1>9. ASSUME NEW s \in {"PENDING", "ACTIVE", "BANNED"}, UpdateStatus(p, s)
      PROVE  \E r : Bounds(p, r)
  <2>1. /\ totp' = totp /\ issued' = issued /\ rows' = rows /\ expired' = expired
        /\ resets' = resets
    BY <1>9 DEF UpdateStatus
  <2>2. CASE Begin(p, Task("scan", "ban", 0, 0)) /\ acct' = acct
    BY <1>1, <2>1, <2>2, TaskWithin, BeginBounds DEF Issuers
  <2>3. CASE acct' = [acct EXCEPT !.status = s] /\ req' = req
    <3>1. req' = [req EXCEPT ![p] = req[p]]
      BY <1>1, <2>3
    <3>2. Within(req[p])' /\ Consistent'
      BY <1>1, <2>1, <2>3 DEF Within, Consistent, Row
    <3>3. Bounds(p, req[p])
      BY <1>1, <2>1, <3>1, <3>2, Zenon DEF Bounds
    <3> QED
      BY <3>3
  <2> QED
    BY <1>9, <2>2, <2>3 DEF UpdateStatus
<1> QED
  BY <1>2, <1>3, <1>4, <1>5, <1>6, <1>7, <1>8, <1>9, Zenon DEF Arrival

(* What the commit of a DELETE's transaction leaves in the recovery columns. *)
LEMMA WrittenConsistent ==
  ASSUME Inv, Bounded, NEW p \in Requests, req[p].pc = "apply", acct' = Written(req[p])
  PROVE  Consistent'
<1>1. acct \in Row /\ req[p] \in AnyRequest /\ Sound(req[p]) /\ Consistent
  BY DEF Inv, Typed, AllSound, Bounded
<1>2. CASE req[p].op = "reset"
  <2>1. req[p].cred # 0
    BY <1>1, <1>2 DEF Sound, Row, AnyRequest
  <2> QED
    BY <1>2, <2>1, WrittenRow DEF Consistent
<1>3. CASE req[p].op # "reset"
  BY <1>1, <1>3, WrittenRow, Zenon DEF Consistent, Holds
<1> QED
  BY <1>2, <1>3

LEMMA HandlerBounds ==
  ASSUME Inv, Bounded, NEW p \in Requests, HandlerStep(p) \/ DbFailure(p)
  PROVE  \E r : Bounds(p, r)
<1>1. /\ acct \in Row /\ acct.temp \in Nat /\ acct.temp <= resets /\ resets \in Nat
      /\ req \in [Requests -> AnyRequest] /\ req[p] \in AnyRequest /\ Len(issued) \in Nat
      /\ Within(req[p]) /\ Consistent /\ expired \subseteq rows /\ rows \subseteq 1..Len(issued)
      /\ resets <= resets /\ resets <= MaxResets
  BY Domain DEF Inv, Typed, Settled, Row, Bounded
<1>2. acct' = acct /\ rows' = rows /\ expired' = expired => Consistent' /\ expired' \subseteq rows'
  BY <1>1 DEF Consistent
<1>3. ASSUME DbFailure(p)
      PROVE  \E r : Bounds(p, r)
  BY <1>2, <1>3, EndBounds DEF DbFailure
<1>4. ASSUME ConsumeBackupCode(p)
      PROVE  \E r : Bounds(p, r)
  <2>1. /\ totp' = totp /\ issued' = issued /\ rows' = rows /\ expired' = expired
        /\ resets' = resets /\ req[p].op \in Issuers
    BY <1>1, <1>4 DEF ConsumeBackupCode, Within
  <2>2. Consistent'
    BY <1>1, <1>4 DEF ConsumeBackupCode, Consistent, Row
  <2>3. End(p) \/ \E step \in Steps : Goto(p, step)
    BY <1>4, Zenon DEF ConsumeBackupCode, Steps
  <2> QED
    BY <1>1, <2>1, <2>2, <2>3, EndBounds, MoveBounds
<1>5. ASSUME ConsumeTempPassword(p)
      PROVE  \E r : Bounds(p, r)
  <2>1. /\ totp' = totp /\ issued' = issued /\ rows' = rows /\ expired' = expired
        /\ resets' = resets /\ req[p].op \in Issuers
    BY <1>1, <1>5 DEF ConsumeTempPassword, Within
  <2>2. Consistent'
    BY <1>1, <1>5 DEF ConsumeTempPassword, Consistent, Row
  <2>3. End(p) \/ \E step \in Steps : Goto(p, step)
    BY <1>5, Zenon DEF ConsumeTempPassword, Steps
  <2> QED
    BY <1>1, <2>1, <2>2, <2>3, EndBounds, MoveBounds
<1>6. ASSUME ReadUserForUpdate(p)
      PROVE  \E r : Bounds(p, r)
  <2>1. /\ totp' = totp /\ issued' = issued /\ rows' = rows /\ expired' = expired /\ acct' = acct
        /\ resets' = resets /\ req[p].op \in Issuers
    BY <1>1, <1>6 DEF ReadUserForUpdate, Within
  <2>2. End(p) \/ Goto(p, "rotate")
    BY <1>6 DEF ReadUserForUpdate
  <2> QED
    BY <1>2, <2>1, <2>2, EndBounds, MoveBounds DEF Steps
<1>7. ASSUME UpdatePassword(p)
      PROVE  \E r : Bounds(p, r)
  <2>1. /\ totp' = totp /\ issued' = issued /\ rows' = rows /\ expired' = expired
        /\ resets' = resets
    BY <1>7 DEF UpdatePassword
  <2>2. Consistent'
    <3>1. acct'.must = acct.must /\ acct'.temp = acct.temp /\ acct'.exp = acct.exp
      BY <1>1, <1>7 DEF UpdatePassword, Row
    <3> QED
      BY <1>1, <3>1 DEF Consistent
  <2>3. End(p) \/ Goto(p, "scan")
    BY <1>7 DEF UpdatePassword
  <2> QED
    BY <1>1, <2>1, <2>2, <2>3, EndBounds, MoveBounds, Zenon DEF Steps
<1>8. ASSUME ReadForChange(p)
      PROVE  \E r : Bounds(p, r)
  <2>1. /\ totp' = totp /\ issued' = issued /\ rows' = rows /\ expired' = expired /\ acct' = acct
        /\ resets' = resets
    BY <1>8 DEF ReadForChange
  <2>2. CASE End(p)
    BY <1>2, <2>1, <2>2, EndBounds
  <2>3. CASE ~End(p)
    <3>1. PICK r : /\ r = [req[p] EXCEPT !.pc = "update", !.cred = acct.temp]
                   /\ req' = [req EXCEPT ![p] = r]
      BY <1>8, <2>3 DEF ReadForChange
    <3>2. /\ r.pc = "update" /\ r.cred = acct.temp /\ r.op = req[p].op /\ r.tok = req[p].tok
          /\ r.seen = req[p].seen
      BY <1>1, <3>1 DEF AnyRequest
    <3>3. Within(r)'
      BY <1>1, <2>1, <3>2 DEF Within
    <3>4. Bounds(p, r)
      BY <1>1, <1>2, <2>1, <3>1, <3>2, <3>3, Zenon DEF Bounds
    <3> QED
      BY <3>4
  <2> QED
    BY <2>2, <2>3
<1>9. ASSUME Scan(p)
      PROVE  \E r : Bounds(p, r)
  <2>1. /\ totp' = totp /\ issued' = issued /\ rows' = rows /\ expired' = expired /\ acct' = acct
        /\ resets' = resets
    BY <1>9 DEF Scan
  <2> DEFINE gone == rows \ (IF req[p].op = "change" THEN {req[p].tok} ELSE {})
  <2>2. PICK r : /\ r = [req[p] EXCEPT !.pc = "apply", !.seen = gone]
                 /\ req' = [req EXCEPT ![p] = r]
    BY <1>9, Zenon DEF Scan
  <2>3. /\ r.pc = "apply" /\ r.cred = req[p].cred /\ r.op = req[p].op /\ r.tok = req[p].tok
        /\ r.seen \subseteq rows
    BY <1>1, <2>2 DEF AnyRequest
  <2>4. Within(r)'
    BY <1>1, <2>1, <2>3, Zenon DEF Within
  <2>5. Bounds(p, r)
    BY <1>1, <1>2, <2>1, <2>2, <2>3, <2>4, Zenon DEF Bounds
  <2> QED
    BY <2>5
<1>10. ASSUME Apply(p)
       PROVE  \E r : Bounds(p, r)
  <2>1. /\ totp' = totp /\ issued' = issued /\ resets' = resets /\ acct' = Written(req[p])
        /\ expired' \subseteq rows'
    BY <1>1, <1>10, Zenon DEF Apply
  <2>2. Consistent'
    BY <1>10, <2>1, WrittenConsistent, Zenon DEF Apply
  <2>3. CASE req[p].op # "recover"
    BY <1>10, <2>1, <2>2, <2>3, EndBounds, Zenon DEF Apply
  <2>4. CASE req[p].op = "recover"
    <3>1. PICK r : r = Task("issue", "recover", 0, 0) /\ req' = [req EXCEPT ![p] = r]
      BY <1>10, <2>4, Zenon DEF Apply
    <3>2. Within(r)'
      BY <1>1, <2>1, <3>1 DEF Within, Task, Issuers
    <3>3. req[p].op \in Issuers
      BY <2>4 DEF Issuers
    <3>4. Bounds(p, r)
      BY <1>1, <2>1, <2>2, <3>1, <3>2, <3>3, Zenon DEF Bounds
    <3> QED
      BY <3>4
  <2> QED
    BY <2>3, <2>4
<1>11. ASSUME IssueSession(p) \/ (Rotate(p) /\ issued' # issued)
       PROVE  \E r : Bounds(p, r)
  <2>1. PICK e : issued' = Append(issued, e) /\ req' = [req EXCEPT ![p] = Idle]
    BY <1>11, Zenon DEF IssueSession, Rotate, End
  <2>2. Len(issued') = Len(issued) + 1
    BY <2>1 DEF Inv, Typed
  <2>3. /\ totp' = totp /\ resets' = resets /\ acct' = acct /\ req[p].op \in Issuers
    BY <1>1, <1>11, Zenon DEF IssueSession, Rotate, Within
  <2>4. expired' \subseteq rows'
    BY <1>1, <1>11, Zenon DEF IssueSession, Rotate
  <2>5. Consistent'
    BY <1>1, <2>3 DEF Consistent
  <2>6. Within(Idle)' /\ Idle.op \notin Issuers
    BY <1>1, <2>2, <2>3 DEF Within, Idle, Task, Issuers
  <2>7. Bounds(p, Idle)
    BY <1>1, <2>1, <2>2, <2>3, <2>4, <2>5, <2>6, Zenon DEF Bounds
  <2> QED
    BY <2>7
<1>12. ASSUME Rotate(p), issued' = issued
       PROVE  \E r : Bounds(p, r)
  <2>1. totp' = totp /\ resets' = resets /\ acct' = acct /\ End(p)
    BY <1>12, Zenon DEF Rotate
  <2>2. expired' \subseteq rows'
    BY <1>1, <1>12, Zenon DEF Rotate
  <2>3. Consistent'
    BY <1>1, <2>1 DEF Consistent
  <2> QED
    BY <1>12, <2>1, <2>2, <2>3, EndBounds
<1> QED
  BY <1>3, <1>4, <1>5, <1>6, <1>7, <1>8, <1>9, <1>10, <1>11, <1>12, Zenon DEF HandlerStep

(* A row is deleted or expires, the temporary password expires, or nothing  *)
(* happens.                                                                 *)
LEMMA TableBounds ==
  ASSUME Bounded, UNCHANGED <<totp, issued, resets, req>>, Consistent', expired' \subseteq rows'
  PROVE  Bounded'
<1>1. totp' = totp /\ issued' = issued /\ resets' = resets /\ req' = req
  OBVIOUS
<1>2. Issuing' = Issuing
  BY <1>1 DEF Issuing
<1> QED
  BY <1>1, <1>2 DEF Bounded, Within

LEMMA CrashBounds ==
  ASSUME Inv, Bounded, Crash
  PROVE  Bounded'
<1>1. /\ totp' = totp /\ issued' = issued /\ resets' = resets /\ acct' = acct
      /\ rows' = rows /\ expired' = expired /\ \A q \in Requests : req'[q] = Idle
  BY DEF Crash
<1>2. Within(Idle)' /\ Idle.op \notin Issuers
  BY <1>1, Domain DEF Inv, Typed, Within, Idle, Task, Issuers
<1>3. Issuing' = {}
  BY <1>1, <1>2 DEF Issuing
<1>4. Len(issued') + Cardinality(Issuing') <= MaxTokens
  BY <1>1, <1>3, FS_EmptySet, IssuingFinite, SessionsAssumption, Domain DEF Inv, Bounded
<1>5. \A q \in Requests : Within(req[q])'
  BY <1>1, <1>2 DEF Within
<1> QED
  BY <1>1, <1>4, <1>5, Zenon DEF Bounded, Consistent

LEMMA InitBounds == Init => Bounded
<1> SUFFICES ASSUME Init PROVE Bounded
  OBVIOUS
<1>1. \A q \in Requests : req[q] = Idle
  BY DEF Init
<1>2. issued = <<>> /\ Len(issued) = 0 /\ resets = 0
  BY DEF Init
<1>3. Idle.op \notin Issuers /\ Within(Idle)
  BY <1>2 DEF Within, Idle, Task, Issuers
<1>4. Issuing = {}
  BY <1>1, <1>3 DEF Issuing
<1>5. Len(issued) + Cardinality(Issuing) <= MaxTokens
  BY <1>2, <1>4, FS_EmptySet, SessionsAssumption
<1>6. Consistent /\ totp \in BOOLEAN /\ expired \subseteq rows
  BY Zenon DEF Init, Consistent
<1>7. resets <= MaxResets
  BY <1>2, SessionsAssumption
<1> QED
  BY <1>1, <1>3, <1>5, <1>6, <1>7 DEF Bounded

LEMMA NextBounds ==
  ASSUME Inv, Inv', Bounded, [Next]_vars
  PROVE  Bounded'
<1>1. acct \in Row /\ Consistent /\ expired \subseteq rows
  BY DEF Inv, Typed, Bounded
<1>2. ASSUME NEW t \in rows, DeleteSession(t) \/ SessionExpires(t)
      PROVE  Bounded'
  <2>1. UNCHANGED <<totp, issued, resets, req>> /\ acct' = acct /\ expired' \subseteq rows'
    BY <1>1, <1>2, Zenon DEF DeleteSession, SessionExpires
  <2> QED
    BY <1>1, <2>1, TableBounds DEF Consistent
<1>3. CASE TempPasswordExpires
  <2>1. UNCHANGED <<totp, issued, resets, req>> /\ Consistent' /\ expired' \subseteq rows'
    BY <1>1, <1>3 DEF TempPasswordExpires, Consistent, Row
  <2> QED
    BY <2>1, TableBounds
<1>4. CASE UNCHANGED vars
  <2>1. UNCHANGED <<totp, issued, resets, req>> /\ Consistent' /\ expired' \subseteq rows'
    BY <1>1, <1>4 DEF vars, Consistent
  <2> QED
    BY <2>1, TableBounds
<1> QED
  BY <1>2, <1>3, <1>4, ArrivalBounds, HandlerBounds, BoundsKept, CrashBounds, Zenon DEF Next

(* The account, its tokens, the rows and the requests in flight stay within *)
(* their types and the bounds, only a row is ever expired, and the recovery *)
(* columns that resetPassword, consumeTempPassword and updatePassword write *)
(* agree: there is a temporary hash exactly while the change is forced, and *)
(* an expiry only then.                                                     *)
THEOREM TypeCorrect == Spec => []TypeOK
<1>1. Inv /\ Bounded => TypeOK
  <2> SUFFICES ASSUME Inv, Bounded PROVE TypeOK
    OBVIOUS
  <2>1. /\ Len(issued) \in Nat /\ Len(issued) <= MaxTokens /\ DOMAIN issued = 1..Len(issued)
        /\ resets \in Nat /\ resets <= MaxResets /\ MaxResets \in Nat /\ MaxTokens \in Nat
    BY Domain, IssuingFinite, SessionsAssumption DEF Inv, Typed, Bounded
  <2>2. acct \in Account
    BY <2>1 DEF Inv, Typed, Settled, Row, Account
  <2>3. issued \in Seq(Token)
    <3>1. \A i \in 1..Len(issued) : issued[i] \in Token
      <4> SUFFICES ASSUME NEW i \in 1..Len(issued) PROVE issued[i] \in Token
        OBVIOUS
      <4>1. issued[i] \in AnyToken
        BY Tokens DEF Inv
      <4>2. issued[i].cred <= resets /\ issued[i].parent <= Len(issued)
        BY DEF Inv, Settled
      <4> QED
        BY <2>1, <4>1, <4>2 DEF AnyToken, Token
    <3> QED
      BY <2>1, <3>1 DEF Inv, Typed
  <2>4. preauth \subseteq PreAuth
    BY <2>1 DEF Inv, Typed, Settled, AnyPreAuth, PreAuth
  <2>5. ASSUME NEW q \in Requests PROVE req[q] \in Request
    <3>1. req[q] \in AnyRequest /\ Within(req[q])
      BY DEF Inv, Typed, Bounded
    <3>2. req[q].tok \in 0..MaxTokens /\ req[q].cred \in 0..MaxResets
      BY <2>1, <3>1 DEF AnyRequest, Within
    <3>3. req[q].seen \in SUBSET (1..MaxTokens)
      BY <2>1, <3>1 DEF AnyRequest, Within
    <3> QED
      BY <3>1, <3>2, <3>3 DEF AnyRequest, Request
  <2>6. req \in [Requests -> Request]
    BY <2>5 DEF Inv, Typed
  <2>7. rows \subseteq DOMAIN issued /\ expired \subseteq rows /\ totp \in BOOLEAN /\ Consistent
    BY <2>1 DEF Inv, Typed, Bounded
  <2>8. resets \in 0..MaxResets
    BY <2>1
  <2> QED
    BY <2>1, <2>2, <2>3, <2>4, <2>6, <2>7, <2>8, Zenon DEF TypeOK, Consistent
<1> QED
  BY <1>1, SpecInv, InitBounds, NextBounds, PTL DEF Spec
=============================================================================
