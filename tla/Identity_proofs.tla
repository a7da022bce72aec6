--------------------------- MODULE Identity_proofs ---------------------------
(***************************************************************************)
(* Proofs about Identity, for any emails, usernames, identities,            *)
(* challenges, credentials and requests.                                    *)
(***************************************************************************)
EXTENDS Identity, TLAPS

(* The unique columns of the users table. *)
Table(us) ==
  /\ us \subseteq User
  /\ \A u, v \in us :
       u # v => u.email # v.email /\ u.name # v.name /\ (u.sub = v.sub => u.sub = NoSub)

Bearer(us, sub) == \E u \in us : u.sub = sub
Bears(us, email, sub) == \E u \in us : u.email = email /\ u.sub = sub

(* What a request knows of the users table us at each of its steps. *)
Sound(r, us) ==
  /\ r \in Request
  /\ r.pc # "idle" => r.cred \in Credentials
  /\ r.pc \in {"verify", "consume"} => r.nonce \in Challenges
  /\ r.attempt < MaxAttempts
  /\ r.ans \in {"authenticated", "created", "linked"} =>
       r.cred \in Credentials /\ Bears(us, r.user, r.cred.sub)
  /\ r.op = "login" /\ r.known =>
       /\ r.pc \in {"verify", "consume", "bySub", "done"} /\ Bearer(us, r.cred.sub)
       /\ r.ans \in {"none", "invalid", "authenticated", "error"}

(* A challenge that is still in the table has not been accepted. *)
ChallengesSound ==
  /\ challenge \in [Challenges -> ChallengeState]
  /\ redeemed \in [Challenges -> Nat]
  /\ \A c \in Challenges : redeemed[c] <= 1 /\ (challenge[c] # "deleted" => redeemed[c] = 0)

Inv ==
  /\ Table(users) /\ ChallengesSound
  /\ req \in [Requests -> Request] /\ \A p \in Requests : Sound(req[p], users)

(* No step takes an identity from an account. *)
Kept == \A u \in users : u.sub # NoSub => Bears(users', u.email, u.sub)

LEMMA InvImplies == Inv => TypeOK /\ ChallengeOnce /\ SignsInToOwnAccount /\ LinkedSignsIn
<1> SUFFICES ASSUME Inv PROVE TypeOK /\ ChallengeOnce /\ SignsInToOwnAccount /\ LinkedSignsIn
  OBVIOUS
<1>1. TypeOK /\ ChallengeOnce
  BY DEF Inv, Table, ChallengesSound, TypeOK, ChallengeOnce
<1>2. SignsInToOwnAccount
  BY DEF Inv, Sound, Bears, SignsInToOwnAccount
<1>3. LinkedSignsIn
  BY DEF Inv, Sound, LinkedSignsIn
<1>4. QED
  BY <1>1, <1>2, <1>3

LEMMA IdleSound == \A us : Sound(Idle, us)
BY IdentityAssumption DEF Sound, Idle, Request, Steps, Answers

LEMMA InitInv == Init => Inv
<1> SUFFICES ASSUME Init PROVE Inv
  OBVIOUS
<1>1. Table(users) /\ ChallengesSound
  BY DEF Init, Table, ChallengesSound, ChallengeState
<1>2. Idle \in Request
  BY IdleSound DEF Sound
<1>3. QED
  BY <1>1, <1>2, IdleSound DEF Init, Inv

(* What a request knows stays true while the identities stay. *)
LEMMA SoundKept ==
  ASSUME NEW r, Table(users), Kept, Sound(r, users)
  PROVE  Sound(r, users')
<1>1. \A email, sub : sub # NoSub /\ Bears(users, email, sub) => Bears(users', email, sub)
  BY DEF Kept, Bears
<1>2. \A sub : sub # NoSub /\ Bearer(users, sub) => Bearer(users', sub)
  BY DEF Kept, Bears, Bearer
<1>3. r.cred \in Credentials => r.cred.sub # NoSub
  BY IdentityAssumption DEF Credential
<1>4. QED
  BY <1>1, <1>2, <1>3 DEF Sound

(* A step of one request, whose new state is sound in the new table. *)
LEMMA StepInv ==
  ASSUME Inv, NEW p \in Requests, NEW r, Sound(r, users'), req' = [req EXCEPT ![p] = r],
         Table(users'), Kept, ChallengesSound'
  PROVE  Inv'
<1>1. r \in Request /\ req' \in [Requests -> Request]
  BY DEF Inv, Sound
<1>2. ASSUME NEW q \in Requests PROVE Sound(req'[q], users')
  <2>1. CASE q = p
    BY <2>1 DEF Inv
  <2>2. CASE q # p
    BY <2>2, SoundKept DEF Inv
  <2>3. QED
    BY <2>1, <2>2
<1>3. QED
  BY <1>1, <1>2 DEF Inv

(* A step that only moves a request on. *)
LEMMA MoveInv ==
  ASSUME Inv, NEW p \in Requests, NEW r, Sound(r, users), req' = [req EXCEPT ![p] = r],
         UNCHANGED <<users, challenge, redeemed>>
  PROVE  Inv'
<1>1. Table(users') /\ Kept /\ ChallengesSound' /\ Sound(r, users')
  BY DEF Inv, Table, Kept, Bears, ChallengesSound
<1>2. QED
  BY <1>1, StepInv, Zenon

(* A row that clashes with none may be added. *)
LEMMA InsertTable ==
  ASSUME Table(users), NEW new \in User, Clashes(new) = {}, users' = users \cup {new}
  PROVE  Table(users') /\ Kept
<1>1. \A u \in users : u.email # new.email /\ u.name # new.name /\ (u.sub = new.sub => u.sub = NoSub)
  BY DEF Clashes, ByEmail, ByName, BySub
<1>2. Table(users')
  BY <1>1 DEF Table
<1>3. Kept
  BY DEF Kept, Bears
<1>4. QED
  BY <1>2, <1>3

(* So may a row that replaces one with the same email, if it keeps its      *)
(* identity.                                                                *)
LEMMA UpdateTable ==
  ASSUME Table(users), NEW u \in users, NEW v \in User, v.email = u.email,
         u.sub # NoSub => v.sub = u.sub, Clashes(v) \subseteq {u},
         users' = (users \ {u}) \cup {v}
  PROVE  Table(users') /\ Kept
<1>1. \A w \in users \ {u} : w.email # v.email /\ w.name # v.name /\ (w.sub = v.sub => w.sub = NoSub)
  BY DEF Clashes, ByEmail, ByName, BySub
<1>2. Table(users')
  BY <1>1 DEF Table
<1>3. Kept
  BY DEF Kept, Bears
<1>4. QED
  BY <1>2, <1>3

-----------------------------------------------------------------------------
(* An answer without success; a login with an identity that was linked gets *)
(* no other one than these two.                                             *)
LEMMA AnswerSound ==
  ASSUME NEW us, NEW r, Sound(r, us), r.pc # "idle", NEW ans \in Answers \ {"authenticated", "created", "linked"},
         ~(r.op = "login" /\ r.known) \/ ans \in {"invalid", "error"}
  PROVE  Sound([r EXCEPT !.pc = "done", !.ans = ans, !.nonce = NoChallenge], us)
<1>1. r \in Request
  BY DEF Sound
<1> DEFINE q == [r EXCEPT !.pc = "done", !.ans = ans, !.nonce = NoChallenge]
<1>2. q \in Request /\ q.pc = "done" /\ q.ans = ans /\ q.user = r.user /\ q.cred = r.cred
      /\ q.op = r.op /\ q.known = r.known /\ q.attempt = r.attempt
  BY <1>1, ZenonT(60) DEF Request, Steps, Answers
<1> HIDE DEF q
<1>3. Sound(q, us)
  BY <1>2 DEF Sound
<1>4. QED
  BY <1>3 DEF q

(* A success, with an account that bears the identity. *)
LEMMA SuccessSound ==
  ASSUME NEW us, NEW r, Sound(r, us), r.pc # "idle", NEW email \in Emails,
         NEW ans \in {"authenticated", "created", "linked"}, Bears(us, email, r.cred.sub),
         ~(r.op = "login" /\ r.known) \/ ans = "authenticated"
  PROVE  Sound([r EXCEPT !.pc = "done", !.ans = ans, !.user = email], us)
<1>1. r \in Request
  BY DEF Sound
<1> DEFINE q == [r EXCEPT !.pc = "done", !.ans = ans, !.user = email]
<1>2. q \in Request /\ q.pc = "done" /\ q.ans = ans /\ q.user = email /\ q.cred = r.cred
      /\ q.op = r.op /\ q.known = r.known /\ q.attempt = r.attempt
  BY <1>1, ZenonT(60) DEF Request, Steps, Answers
<1> HIDE DEF q
<1>3. Sound(q, us)
  BY <1>2 DEF Sound
<1>4. QED
  BY <1>3 DEF q

(* Another step, except for a login whose identity was linked. *)
LEMMA GotoSound ==
  ASSUME NEW us, NEW r, Sound(r, us), r.pc # "idle",
         NEW step \in {"consume", "byEmail", "insert", "againBySub", "againByEmail", "reread"},
         step = "consume" => r.pc = "verify", ~(r.op = "login" /\ r.known) \/ step = "consume"
  PROVE  Sound([r EXCEPT !.pc = step], us)
BY DEF Sound, Request, Steps, Answers

LEMMA VerifyCredentialInv ==
  ASSUME Inv, NEW p \in Requests, NEW ok \in BOOLEAN, VerifyCredential(p, ok)
  PROVE  Inv'
<1>1. Sound(req[p], users) /\ req[p].pc = "verify" /\ UNCHANGED <<users, challenge, redeemed>>
  BY DEF Inv, VerifyCredential
<1>2. CASE Goto(p, "consume")
  BY <1>1, <1>2, GotoSound, MoveInv, Zenon DEF Goto
<1>3. CASE Answer(p, "invalid")
  BY <1>1, <1>3, AnswerSound, MoveInv, Zenon DEF Answer, Answers
<1>4. QED
  BY <1>2, <1>3 DEF VerifyCredential

LEMMA VerifyAndConsumeInv ==
  ASSUME Inv, NEW p \in Requests, VerifyAndConsume(p)
  PROVE  Inv'
<1> DEFINE c == req[p].nonce
           r == [req[p] EXCEPT !.pc = IF req[p].op = "login" THEN "bySub" ELSE "link",
                               !.nonce = NoChallenge]
<1>1. Sound(req[p], users) /\ req[p].pc = "consume" /\ c \in Challenges /\ users' = users
  BY DEF Inv, Sound, VerifyAndConsume
<1>2. Table(users') /\ Kept
  BY <1>1 DEF Inv, Kept, Bears
<1>3. CASE challenge[c] = "fresh"
  <2>1. Sound(r, users')
    BY <1>1, Zenon DEF Sound, Request, Steps, Answers
  <2>2. ChallengesSound'
    <3>1. challenge' = [challenge EXCEPT ![c] = "deleted"] /\ redeemed' = [redeemed EXCEPT ![c] = @ + 1]
      BY <1>3 DEF VerifyAndConsume
    <3>2. redeemed[c] = 0
      BY <1>1, <1>3 DEF Inv, ChallengesSound
    <3>3. QED
      BY <1>1, <3>1, <3>2 DEF Inv, ChallengesSound, ChallengeState
  <2>3. req' = [req EXCEPT ![p] = r]
    BY <1>3 DEF VerifyAndConsume, Accept
  <2>4. QED
    BY <1>2, <2>1, <2>2, <2>3, StepInv, Zenon
<1>4. CASE challenge[c] # "fresh"
  BY <1>1, <1>4, AnswerSound, MoveInv, Zenon DEF VerifyAndConsume, Answer, Answers
<1>5. QED
  BY <1>3, <1>4

LEMMA SelectBySubInv ==
  ASSUME Inv, NEW p \in Requests, SelectBySub(p)
  PROVE  Inv'
<1>1. Sound(req[p], users) /\ req[p].pc \in {"bySub", "againBySub"}
      /\ UNCHANGED <<users, challenge, redeemed>>
  BY DEF Inv, SelectBySub
<1>2. ASSUME NEW u \in BySub(req[p].cred.sub), SignIn(p, "authenticated", u.email) PROVE Inv'
  <2>1. u.email \in Emails /\ Bears(users, u.email, req[p].cred.sub)
    BY DEF Inv, Table, BySub, Bears, User
  <2>2. QED
    BY <1>1, <1>2, <2>1, SuccessSound, MoveInv, Zenon DEF SignIn
<1>3. CASE BySub(req[p].cred.sub) = {}
           /\ Goto(p, IF req[p].pc = "bySub" THEN "byEmail" ELSE "againByEmail")
  <2>1. ~(req[p].op = "login" /\ req[p].known)
    BY <1>1, <1>3 DEF Sound, Bearer, BySub
  <2>2. QED
    BY <1>1, <1>3, <2>1, GotoSound, MoveInv, Zenon DEF Goto
<1>4. QED
  BY <1>2, <1>3 DEF SelectBySub

LEMMA SelectByEmailInv ==
  ASSUME Inv, NEW p \in Requests, SelectByEmail(p)
  PROVE  Inv'
<1> DEFINE r == req[p]
           next == [r EXCEPT !.pc = "insert", !.attempt = @ + 1]
<1>1. Sound(r, users) /\ r.pc \in {"byEmail", "againByEmail"} /\ ~(r.op = "login" /\ r.known)
      /\ UNCHANGED <<users, challenge, redeemed>>
  BY DEF Inv, Sound, SelectByEmail
<1>2. CASE \E ans \in {"confirm", "unavailable"} : Answer(p, ans)
  BY <1>1, <1>2, AnswerSound, MoveInv, ZenonT(60) DEF Answer, Answers
<1>3. CASE Goto(p, "insert")
  BY <1>1, <1>3, GotoSound, MoveInv, Zenon DEF Goto
<1>4. CASE next.attempt # MaxAttempts /\ req' = [req EXCEPT ![p] = next]
  <2>1. Sound(next, users)
    <3>1. r \in Request /\ r.attempt \in Nat /\ r.attempt < MaxAttempts /\ MaxAttempts \in Nat
      BY <1>1, IdentityAssumption DEF Sound, Request
    <3>2. next.attempt = r.attempt + 1 /\ next.pc = "insert" /\ next.cred = r.cred
          /\ next.ans = r.ans /\ next.user = r.user /\ next.op = r.op /\ next.known = r.known
      BY <3>1 DEF Request
    <3>3. next.attempt \in 0..MaxAttempts /\ next.attempt < MaxAttempts
      BY <1>4, <3>1, <3>2
    <3>4. next \in Request
      BY <3>1, <3>2, <3>3, Zenon DEF Request, Steps
    <3> HIDE DEF next
    <3>5. QED
      BY <1>1, <3>2, <3>3, <3>4 DEF Sound
  <2>2. QED
    BY <1>1, <1>4, <2>1, MoveInv, Zenon
<1>5. QED
  BY <1>2, <1>3, <1>4 DEF SelectByEmail

LEMMA InsertUserInv ==
  ASSUME Inv, NEW p \in Requests, NEW name \in Names, InsertUser(p, name)
  PROVE  Inv'
<1> DEFINE r == req[p]
           new == [email |-> r.cred.email, name |-> name, sub |-> r.cred.sub]
<1>1. Sound(r, users) /\ r.pc = "insert" /\ ~(r.op = "login" /\ r.known)
      /\ UNCHANGED <<challenge, redeemed>>
  BY DEF Inv, Sound, InsertUser
<1>2. r.cred \in Credential
  BY <1>1, IdentityAssumption DEF Sound
<1>3. CASE Clashes(new) = {} /\ users' = users \cup {new} /\ SignIn(p, "created", r.cred.email)
  <2>1. new \in User /\ r.cred.email \in Emails
    BY <1>2 DEF Credential, User
  <2>2. Table(users') /\ Kept
    BY <1>3, <2>1, InsertTable DEF Inv
  <2>3. Sound(r, users')
    BY <1>1, <2>2, SoundKept DEF Inv
  <2>4. Bears(users', r.cred.email, r.cred.sub)
    BY <1>3 DEF Bears
  <2>5. ChallengesSound'
    BY <1>1 DEF Inv, ChallengesSound
  <2>6. Sound([r EXCEPT !.pc = "done", !.ans = "created", !.user = r.cred.email], users')
    BY <1>1, <2>1, <2>3, <2>4, SuccessSound, Zenon
  <2>7. QED
    BY <1>3, <2>2, <2>5, <2>6, StepInv, Zenon DEF SignIn
<1>4. CASE Goto(p, "againBySub") /\ UNCHANGED users
  BY <1>1, <1>4, GotoSound, MoveInv, Zenon DEF Goto
<1>5. QED
  BY <1>3, <1>4 DEF InsertUser

LEMMA LinkInv ==
  ASSUME Inv, NEW p \in Requests, LinkGoogleIdentity(p)
  PROVE  Inv'
<1> DEFINE r == req[p]
<1>1. Sound(r, users) /\ r.pc = "link" /\ ~(r.op = "login" /\ r.known)
      /\ UNCHANGED <<challenge, redeemed>> /\ r.cred \in Credential /\ r \in Request
  BY IdentityAssumption DEF Inv, Sound, LinkGoogleIdentity
<1>2. PICK u \in ByEmail(r.user) :
        LET v == [u EXCEPT !.sub = r.cred.sub] IN
        \/ u.sub # NoSub /\ Goto(p, "reread") /\ UNCHANGED users
        \/ /\ u.sub = NoSub /\ Clashes(v) \subseteq {u}
           /\ users' = (users \ {u}) \cup {v}
           /\ Answer(p, "linked")
        \/ u.sub = NoSub /\ ~(Clashes(v) \subseteq {u}) /\ Answer(p, "conflict") /\ UNCHANGED users
  BY Zenon DEF LinkGoogleIdentity
<1> DEFINE v == [u EXCEPT !.sub = r.cred.sub]
<1>3. CASE Goto(p, "reread") /\ UNCHANGED users
  BY <1>1, <1>3, GotoSound, MoveInv, Zenon DEF Goto
<1>4. CASE Answer(p, "conflict") /\ UNCHANGED users
  BY <1>1, <1>4, AnswerSound, MoveInv, Zenon DEF Answer, Answers
<1>5. CASE /\ u.sub = NoSub /\ Clashes(v) \subseteq {u}
           /\ users' = (users \ {u}) \cup {v}
           /\ Answer(p, "linked")
  <2>1. u \in users /\ u \in User /\ u.email = r.user
    BY DEF Inv, Table, ByEmail
  <2>2. v \in User /\ v.email = u.email /\ v.sub = r.cred.sub
    BY <1>1, <2>1 DEF User, Credential
  <2>3. Table(users') /\ Kept
    BY <1>5, <2>1, <2>2, UpdateTable, Zenon DEF Inv
  <2>4. Sound(r, users')
    BY <1>1, <2>3, SoundKept DEF Inv
  <2>5. r.user \in Emails /\ Bears(users', r.user, r.cred.sub)
    BY <1>5, <2>1, <2>2 DEF Bears, User
  <2>6. ChallengesSound'
    BY <1>1 DEF Inv, ChallengesSound
  <2> DEFINE q == [r EXCEPT !.pc = "done", !.ans = "linked", !.nonce = NoChallenge]
  <2>7. q \in Request /\ q.pc = "done" /\ q.ans = "linked" /\ q.user = r.user /\ q.cred = r.cred
        /\ q.op = r.op /\ q.known = r.known /\ q.attempt = r.attempt
    BY <1>1, Zenon DEF Request, Steps, Answers
  <2>8. req' = [req EXCEPT ![p] = q]
    BY <1>5 DEF Answer
  <2> HIDE DEF q
  <2>9. Sound(q, users')
    BY <1>1, <2>4, <2>5, <2>7 DEF Sound
  <2>10. QED
    BY <2>3, <2>6, <2>8, <2>9, StepInv, Zenon
<1>6. QED
  BY <1>2, <1>3, <1>4, <1>5

LEMMA RereadInv ==
  ASSUME Inv, NEW p \in Requests, RereadLinked(p)
  PROVE  Inv'
<1> DEFINE r == req[p]
<1>1. Sound(r, users) /\ r.pc = "reread" /\ ~(r.op = "login" /\ r.known)
      /\ UNCHANGED <<users, challenge, redeemed>> /\ r \in Request /\ r.cred \in Credentials
  BY DEF Inv, Sound, RereadLinked
<1>2. PICK u \in ByEmail(r.user) : Answer(p, IF u.sub = r.cred.sub THEN "linked" ELSE "conflict")
  BY DEF RereadLinked
<1>3. CASE u.sub = r.cred.sub
  <2> DEFINE q == [r EXCEPT !.pc = "done", !.ans = "linked", !.nonce = NoChallenge]
  <2>1. Bears(users, r.user, r.cred.sub)
    BY <1>3 DEF Bears, ByEmail
  <2>2. q \in Request /\ q.pc = "done" /\ q.ans = "linked" /\ q.user = r.user /\ q.cred = r.cred
        /\ q.op = r.op /\ q.known = r.known /\ q.attempt = r.attempt
    BY <1>1, Zenon DEF Request, Steps, Answers
  <2>3. req' = [req EXCEPT ![p] = q]
    BY <1>2, <1>3 DEF Answer
  <2> HIDE DEF q
  <2>4. Sound(q, users)
    BY <1>1, <2>1, <2>2 DEF Sound
  <2>5. QED
    BY <1>1, <2>3, <2>4, MoveInv, Zenon
<1>4. CASE u.sub # r.cred.sub
  BY <1>1, <1>2, <1>4, AnswerSound, MoveInv, Zenon DEF Answer, Answers
<1>5. QED
  BY <1>3, <1>4

LEMMA BeginInv ==
  ASSUME Inv, NEW p \in Requests, NEW op \in {"login", "link"}, NEW cred \in Credentials,
         NEW c \in Challenges, NEW email \in Emails \cup {NoEmail}, Begin(p, op, cred, c, email)
  PROVE  Inv'
<1> DEFINE known == op = "login" /\ BySub(cred.sub) # {}
           q == [Idle EXCEPT !.pc = "verify", !.op = op, !.cred = cred, !.nonce = c,
                             !.user = email, !.known = known]
<1>1. req' = [req EXCEPT ![p] = q] /\ UNCHANGED <<users, challenge, redeemed>>
  BY DEF Begin
<1>2. known \in BOOLEAN /\ (known => Bearer(users, cred.sub))
  BY DEF Bearer, BySub
<1> HIDE DEF known
<1>3. q \in Request /\ q.pc = "verify" /\ q.ans = "none" /\ q.cred = cred /\ q.nonce = c
      /\ q.known = known /\ q.attempt = 0
  <2>1. 0 \in 0..MaxAttempts
    BY IdentityAssumption
  <2>2. \A k \in BOOLEAN :
          LET r == [Idle EXCEPT !.pc = "verify", !.op = op, !.cred = cred, !.nonce = c,
                                !.user = email, !.known = k]
          IN  r \in Request /\ r.pc = "verify" /\ r.ans = "none" /\ r.cred = cred /\ r.nonce = c
              /\ r.known = k /\ r.attempt = 0
    BY <2>1, Zenon DEF Idle, Request, Steps, Answers
  <2>3. QED
    BY <1>2, <2>2, Zenon
<1> HIDE DEF q
<1>4. Sound(q, users)
  BY <1>2, <1>3, IdentityAssumption DEF Sound
<1>5. QED
  BY <1>1, <1>4, MoveInv, Zenon

LEMMA HandlerInv ==
  ASSUME Inv, NEW p \in Requests, HandlerStep(p)
  PROVE  Inv'
<1>1. CASE DbFailure(p)
  <2>1. Sound(req[p], users) /\ req[p].pc # "idle"
    BY <1>1 DEF Inv, DbFailure
  <2>2. QED
    BY <1>1, <2>1, AnswerSound, MoveInv, Zenon DEF DbFailure, Answer, Answers
<1>2. CASE Return(p)
  BY <1>2, IdleSound, MoveInv, Zenon DEF Return
<1>3. QED
  BY <1>1, <1>2, VerifyCredentialInv, VerifyAndConsumeInv, SelectBySubInv, SelectByEmailInv,
     InsertUserInv, LinkInv, RereadInv DEF HandlerStep

LEMMA ArrivalInv ==
  ASSUME Inv, NEW p \in Requests, Arrival(p)
  PROVE  Inv'
<1>1. \A u \in users : u.email \in Emails
  BY DEF Inv, Table, User
<1>2. QED
  BY <1>1, BeginInv DEF Arrival, Login, LinkAuthenticatedUser

(* Steps that touch no request. *)
LEMMA TableInv ==
  ASSUME Inv, Table(users'), Kept, ChallengesSound', req' = req
  PROVE  Inv'
BY SoundKept DEF Inv

LEMMA EnvironmentInv ==
  ASSUME Inv, Environment
  PROVE  Inv'
<1>1. ASSUME NEW c \in Challenges, CreateChallenge(c) \/ ChallengeExpires(c) PROVE Inv'
  <2>1. Table(users') /\ Kept /\ req' = req
    BY <1>1 DEF Inv, Kept, Bears, CreateChallenge, ChallengeExpires
  <2>2. ChallengesSound'
    BY <1>1 DEF Inv, ChallengesSound, ChallengeState, CreateChallenge, ChallengeExpires
  <2>3. QED
    BY <2>1, <2>2, TableInv
<1>2. ASSUME NEW email \in Emails, NEW name \in Names, CreateUser(email, name) PROVE Inv'
  <2> DEFINE new == [email |-> email, name |-> name, sub |-> NoSub]
  <2>1. new \in User
    BY DEF User
  <2>2. Table(users') /\ Kept
    BY <1>2, <2>1, InsertTable DEF Inv, CreateUser
  <2>3. ChallengesSound' /\ req' = req
    BY <1>2 DEF Inv, ChallengesSound, CreateUser
  <2>4. QED
    BY <2>2, <2>3, TableInv
<1>3. ASSUME NEW u \in users, NEW name \in Names, UpdateProfile(u, name) PROVE Inv'
  <2> DEFINE v == [u EXCEPT !.name = name]
  <2>1. v \in User /\ v.email = u.email /\ v.sub = u.sub /\ v.name = name
    BY DEF Inv, Table, User
  <2>2. Clashes(v) \subseteq {u}
    BY <1>3, <2>1 DEF Inv, Table, UpdateProfile, Clashes, ByEmail, ByName, BySub
  <2>3. Table(users') /\ Kept
    BY <1>3, <2>1, <2>2, UpdateTable, Zenon DEF Inv, UpdateProfile
  <2>4. ChallengesSound' /\ req' = req
    BY <1>3 DEF Inv, ChallengesSound, UpdateProfile
  <2>5. QED
    BY <2>3, <2>4, TableInv
<1>4. QED
  BY <1>1, <1>2, <1>3 DEF Environment

LEMMA NextInv == Inv /\ [Next]_vars => Inv'
<1> SUFFICES ASSUME Inv, [Next]_vars PROVE Inv'
  OBVIOUS
<1>1. CASE UNCHANGED vars
  BY <1>1 DEF vars, Inv, Table, ChallengesSound
<1>2. CASE Next
  BY <1>2, HandlerInv, ArrivalInv, EnvironmentInv DEF Next
<1>3. QED
  BY <1>1, <1>2

LEMMA InvHolds == Spec => []Inv
BY InitInv, NextInv, PTL DEF Spec

LEMMA UnchangedKept == UNCHANGED users => Kept
BY DEF Kept, Bears

LEMMA NextKept == Inv /\ [Next]_vars => Kept
<1> SUFFICES ASSUME Inv, [Next]_vars PROVE Kept
  OBVIOUS
<1>1. ASSUME NEW p \in Requests, Arrival(p) PROVE Kept
  BY <1>1, UnchangedKept, Zenon DEF Arrival, Login, LinkAuthenticatedUser, Begin
<1>2. ASSUME NEW p \in Requests, LinkGoogleIdentity(p) PROVE Kept
  BY <1>2 DEF Inv, Table, User, LinkGoogleIdentity, Kept, Bears
<1>3. ASSUME NEW p \in Requests, NEW name \in Names, InsertUser(p, name) PROVE Kept
  BY <1>3 DEF InsertUser, Kept, Bears
<1>4. ASSUME NEW p \in Requests, HandlerStep(p) PROVE Kept
  <2>1. CASE SelectBySub(p) \/ SelectByEmail(p) \/ RereadLinked(p) \/ DbFailure(p) \/ Return(p)
    <3>1. UNCHANGED users
      BY <2>1 DEF SelectBySub, SelectByEmail, RereadLinked, DbFailure, Return
    <3>2. QED
      BY <3>1, UnchangedKept
  <2>2. CASE VerifyAndConsume(p) \/ \E ok \in BOOLEAN : VerifyCredential(p, ok)
    <3>1. UNCHANGED users
      BY <2>2 DEF VerifyAndConsume, VerifyCredential
    <3>2. QED
      BY <3>1, UnchangedKept
  <2>3. CASE LinkGoogleIdentity(p)
    BY <1>2, <2>3
  <2>4. CASE \E name \in Names : InsertUser(p, name)
    BY <1>3, <2>4
  <2>5. QED
    BY <1>4, <2>1, <2>2, <2>3, <2>4 DEF HandlerStep
<1>5. CASE Environment
  <2>1. ASSUME NEW u \in users, NEW name \in Names, UpdateProfile(u, name) PROVE Kept
    <3> DEFINE v == [u EXCEPT !.name = name]
    <3>1. v.email = u.email /\ v.sub = u.sub
      BY DEF Inv, Table, User
    <3>2. users' = (users \ {u}) \cup {v}
      BY <2>1 DEF UpdateProfile
    <3> HIDE DEF v
    <3>3. QED
      BY <3>1, <3>2 DEF Kept, Bears
  <2>2. ASSUME NEW email \in Emails, NEW name \in Names, CreateUser(email, name) PROVE Kept
    BY <2>2 DEF CreateUser, Kept, Bears
  <2>3. QED
    BY <1>5, <2>1, <2>2, UnchangedKept DEF Environment, CreateChallenge, ChallengeExpires
<1>6. CASE UNCHANGED vars
  BY <1>6, UnchangedKept DEF vars
<1>7. QED
  BY <1>1, <1>4, <1>5, <1>6 DEF Next

-----------------------------------------------------------------------------
(* The tables keep their types and the users table its three unique columns, *)
(* however registrations, links and sign-ins race.                          *)
THEOREM TypeCorrect == Spec => []TypeOK
<1>1. Inv => TypeOK
  BY InvImplies
<1>2. QED
  BY <1>1, InvHolds, PTL

(* For any number of requests: a challenge is accepted at most once, and    *)
(* not after it has expired.                                                *)
THEOREM ChallengesOnce == Spec => []ChallengeOnce
BY InvHolds, InvImplies, PTL

(* For any accounts, identities and requests: Google signs a user in only   *)
(* to the account that bears the identity, and a link that is reported is   *)
(* there.                                                                   *)
THEOREM OwnAccountOnly == Spec => []SignsInToOwnAccount
BY InvHolds, InvImplies, PTL

(* For any accounts, identities and requests: an identity that is linked    *)
(* when its user signs in leads to no other answer than a session, unless   *)
(* the credential is invalid or the database fails.                         *)
THEOREM LinkedIdentitySignsIn == Spec => []LinkedSignsIn
BY InvHolds, InvImplies, PTL

(* For any accounts and requests: no step takes an account's identity away  *)
(* or replaces it.                                                          *)
THEOREM LinksStay == Spec => LinkIsPermanent
<1>1. Inv /\ [Next]_vars => (\A u \in users : u.sub # NoSub =>
                              \E v \in users' : v.email = u.email /\ v.sub = u.sub)
  BY NextKept DEF Kept, Bears
<1>2. QED
  BY <1>1, InvHolds, PTL DEF Spec, LinkIsPermanent
=============================================================================
