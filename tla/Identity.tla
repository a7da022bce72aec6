------------------------------ MODULE Identity ------------------------------
(***************************************************************************)
(* Signing in with Google and linking a Google account:                     *)
(* OAuthChallengeService (oauth-challenge.service.ts), GoogleOAuthService   *)
(* (google-oauth.service.ts) and IdentityService (identity.service.ts),     *)
(* beside the registrations and renamings of local accounts                 *)
(* (users.service.ts).                                                      *)
(*                                                                         *)
(* Every statement commits by itself, and any two requests interleave       *)
(* between their statements.  Accounts are never deleted, and their email   *)
(* never changes: it is unique, and stands for the account's id.            *)
(***************************************************************************)
EXTENDS Naturals

CONSTANTS
  Emails,       \* the emails an account can have
  Names,        \* usernames
  Subs,         \* Google's `sub` claims
  Credentials,  \* the ID tokens Google signs, apart from their nonce
  Challenges,   \* the challenges that can ever be drawn
  Requests,     \* slots for HTTP requests in flight at the same time
  MaxAttempts,  \* how many usernames resolveProviderIdentity tries
  Perils,       \* subset of {"db"}: a statement fails
  NoEmail, NoSub, NoChallenge, NoCredential

(* `name` is what usernameForClaims makes of the claims. *)
Credential == [sub : Subs, email : Emails, name : Names]

ASSUME IdentityAssumption ==
  /\ Credentials \subseteq Credential
  /\ MaxAttempts \in Nat \ {0}
  /\ Perils \subseteq {"db"}
  /\ NoEmail \notin Emails /\ NoSub \notin Subs
  /\ NoChallenge \notin Challenges /\ NoCredential \notin Credentials

VARIABLES
  users,      \* the users table: a set of Users
  challenge,  \* the oauth_challenges table: [Challenges -> ChallengeState]
  req,        \* the requests in flight: [Requests -> Request]
  redeemed    \* history: how often each challenge has been accepted

vars == <<users, challenge, req, redeemed>>

User == [email : Emails, name : Names, sub : Subs \cup {NoSub}]
ChallengeState == {"unissued", "fresh", "expired", "deleted"}
Steps == {"idle", "verify", "consume", "bySub", "byEmail", "insert", "againBySub",
          "againByEmail", "link", "reread", "done"}
Answers == {"none", "invalid", "authenticated", "created", "confirm", "unavailable",
            "linked", "conflict", "error"}

(* `user` is the account that links, or the one that is signed in; `known`  *)
(* is history: the identity was linked when the request came.               *)
Request == [pc : Steps, op : {"none", "login", "link"},
            cred : Credentials \cup {NoCredential}, nonce : Challenges \cup {NoChallenge},
            user : Emails \cup {NoEmail}, attempt : 0..MaxAttempts, ans : Answers,
            known : BOOLEAN]
Idle == [pc |-> "idle", op |-> "none", cred |-> NoCredential, nonce |-> NoChallenge,
         user |-> NoEmail, attempt |-> 0, ans |-> "none", known |-> FALSE]

BySub(sub) == {u \in users : u.sub = sub}
ByEmail(email) == {u \in users : u.email = email}
ByName(name) == {u \in users : u.name = name}

(* Mutant: username is not unique. *)
ClashesButForNames(u) ==
  ByEmail(u.email) \cup (IF u.sub = NoSub THEN {} ELSE BySub(u.sub))

(* The rows that a unique constraint sets against the row u. *)
Clashes(u) ==
  ByEmail(u.email) \cup ByName(u.name) \cup (IF u.sub = NoSub THEN {} ELSE BySub(u.sub))

(* The variables have their types, and the users table its unique columns. *)
TypeOK ==
  /\ users \subseteq User
  /\ \A u, v \in users :
       u # v => u.email # v.email /\ u.name # v.name /\ (u.sub = v.sub => u.sub = NoSub)
  /\ challenge \in [Challenges -> ChallengeState]
  /\ req \in [Requests -> Request]
  /\ redeemed \in [Challenges -> Nat]

Init ==
  /\ users = {}
  /\ challenge = [c \in Challenges |-> "unissued"]
  /\ req = [p \in Requests |-> Idle]
  /\ redeemed = [c \in Challenges |-> 0]

Goto(p, step) == req' = [req EXCEPT ![p] = [@ EXCEPT !.pc = step]]
Answer(p, ans) ==
  req' = [req EXCEPT ![p] = [@ EXCEPT !.pc = "done", !.ans = ans, !.nonce = NoChallenge]]
SignIn(p, ans, email) ==
  req' = [req EXCEPT ![p] = [@ EXCEPT !.pc = "done", !.ans = ans, !.user = email]]

-----------------------------------------------------------------------------
(* Challenges                                                              *)

CreateChallenge(c) ==
  /\ challenge[c] = "unissued"
  /\ challenge' = [challenge EXCEPT ![c] = "fresh"]
  /\ UNCHANGED <<users, req, redeemed>>

(* OAUTH_CHALLENGE_TTL_MS have passed; the row stays. *)
ChallengeExpires(c) ==
  /\ challenge[c] = "fresh"
  /\ challenge' = [challenge EXCEPT ![c] = "expired"]
  /\ UNCHANGED <<users, req, redeemed>>

(* Mutant: the email is looked for first. *)
AcceptByEmail(p) ==
  req' = [req EXCEPT ![p] = [@ EXCEPT !.pc = IF req[p].op = "login" THEN "byEmail" ELSE "link",
                                      !.nonce = NoChallenge]]

(* The handler goes on with the claims; the nonce has served its purpose. *)
Accept(p) ==
  req' = [req EXCEPT ![p] = [@ EXCEPT !.pc = IF req[p].op = "login" THEN "bySub" ELSE "link",
                                      !.nonce = NoChallenge]]

(* Mutant: a SELECT decides, and the row is left to expire. *)
VerifyAndFind(p) ==
  LET c == req[p].nonce IN
  /\ req[p].pc = "consume"
  /\ IF challenge[c] = "fresh"
       THEN /\ redeemed' = [redeemed EXCEPT ![c] = @ + 1]
            /\ Accept(p)
       ELSE Answer(p, "invalid") /\ UNCHANGED redeemed
  /\ UNCHANGED <<users, challenge>>

(* verifyAndConsume: DELETE ... WHERE expiresAt > now RETURNING. *)
VerifyAndConsume(p) ==
  LET c == req[p].nonce IN
  /\ req[p].pc = "consume"
  /\ IF challenge[c] = "fresh"
       THEN /\ challenge' = [challenge EXCEPT ![c] = "deleted"]
            /\ redeemed' = [redeemed EXCEPT ![c] = @ + 1]
            /\ Accept(p)
       ELSE Answer(p, "invalid") /\ UNCHANGED <<challenge, redeemed>>
  /\ UNCHANGED users

-----------------------------------------------------------------------------
(* Signing in: GoogleOAuthService.login                                    *)

(* A credential carries a challenge the panel has issued as its nonce; one  *)
(* and the same credential may be presented again and again.                *)
Begin(p, op, cred, c, email) ==
  /\ req[p].pc = "idle"
  /\ challenge[c] # "unissued"
  /\ req' = [req EXCEPT ![p] = [Idle EXCEPT !.pc = "verify", !.op = op, !.cred = cred,
               !.nonce = c, !.user = email,
               !.known = op = "login" /\ BySub(cred.sub) # {}]]
  /\ UNCHANGED <<users, challenge, redeemed>>

Login(p, cred, c) == Begin(p, "login", cred, c, NoEmail)

(* linkAuthenticatedUser, for the account of the session. *)
LinkAuthenticatedUser(p, cred, c) == \E u \in users : Begin(p, "link", cred, c, u.email)

(* verifyCredential and hasRequiredClaims: Google's keys cannot be fetched, *)
(* the token is too old, or all is well.                                    *)
VerifyCredential(p, ok) ==
  /\ req[p].pc = "verify"
  /\ IF ok THEN Goto(p, "consume") ELSE Answer(p, "invalid")
  /\ UNCHANGED <<users, challenge, redeemed>>

(* resolveProviderIdentity's SELECT by googleId, before the first and after *)
(* each failed INSERT.                                                      *)
SelectBySub(p) ==
  LET r == req[p]
      found == BySub(r.cred.sub)
  IN  /\ r.pc \in {"bySub", "againBySub"}
      /\ \/ \E u \in found : SignIn(p, "authenticated", u.email)
         \/ found = {} /\ Goto(p, IF r.pc = "bySub" THEN "byEmail" ELSE "againByEmail")
      /\ UNCHANGED <<users, challenge, redeemed>>

(* Mutant: an account with the same email is the user's account. *)
SelectByEmailTrusting(p) ==
  LET r == req[p]
      found == ByEmail(r.cred.email)
  IN  /\ r.pc \in {"byEmail", "againByEmail"}
      /\ \/ \E u \in found : SignIn(p, "authenticated", u.email)
         \/ found = {} /\ r.pc = "byEmail" /\ Goto(p, "insert")
         \/ found = {} /\ r.pc = "againByEmail" /\ Answer(p, "unavailable")
      /\ UNCHANGED <<users, challenge, redeemed>>

(* resolveProviderIdentity's SELECT by email; after a failed INSERT it is   *)
(* the last hope before the next username.                                  *)
SelectByEmail(p) ==
  LET r == req[p]
      found == ByEmail(r.cred.email)
      next == [r EXCEPT !.pc = "insert", !.attempt = @ + 1]
  IN  /\ r.pc \in {"byEmail", "againByEmail"}
      /\ \/ found # {} /\ Answer(p, "confirm")
         \/ found = {} /\ r.pc = "byEmail" /\ Goto(p, "insert")
         \/ /\ found = {} /\ r.pc = "againByEmail"
            /\ IF next.attempt = MaxAttempts THEN Answer(p, "unavailable")
               ELSE req' = [req EXCEPT ![p] = next]
      /\ UNCHANGED <<users, challenge, redeemed>>

(* resolveProviderIdentity's INSERT, first with the username of the claims, *)
(* then with one that ends in random digits.                                *)
InsertUser(p, name) ==
  LET r == req[p]
      new == [email |-> r.cred.email, name |-> name, sub |-> r.cred.sub]
  IN  /\ r.pc = "insert"
      /\ r.attempt = 0 => name = r.cred.name
      /\ IF Clashes(new) = {}
           THEN users' = users \cup {new} /\ SignIn(p, "created", r.cred.email)
           ELSE Goto(p, "againBySub") /\ UNCHANGED users
      /\ UNCHANGED <<challenge, redeemed>>

-----------------------------------------------------------------------------
(* Linking: IdentityService.linkGoogleIdentity                             *)

(* Mutant: the UPDATE does not ask for an account without an identity. *)
LinkGoogleIdentityAnew(p) ==
  LET r == req[p] IN
  /\ r.pc = "link"
  /\ \E u \in ByEmail(r.user) :
       LET v == [u EXCEPT !.sub = r.cred.sub] IN
       IF Clashes(v) \subseteq {u}
         THEN users' = (users \ {u}) \cup {v} /\ Answer(p, "linked")
         ELSE Answer(p, "conflict") /\ UNCHANGED users
  /\ UNCHANGED <<challenge, redeemed>>

(* UPDATE users SET googleId WHERE id AND googleId IS NULL; a unique        *)
(* violation is a conflict, no row a reason to look what is linked.         *)
LinkGoogleIdentity(p) ==
  LET r == req[p] IN
  /\ r.pc = "link"
  /\ \E u \in ByEmail(r.user) :
       LET v == [u EXCEPT !.sub = r.cred.sub] IN
       \/ u.sub # NoSub /\ Goto(p, "reread") /\ UNCHANGED users
       \/ /\ u.sub = NoSub /\ Clashes(v) \subseteq {u}
          /\ users' = (users \ {u}) \cup {v}
          /\ Answer(p, "linked")
       \/ u.sub = NoSub /\ ~(Clashes(v) \subseteq {u}) /\ Answer(p, "conflict") /\ UNCHANGED users
  /\ UNCHANGED <<challenge, redeemed>>

RereadLinked(p) ==
  /\ req[p].pc = "reread"
  /\ \E u \in ByEmail(req[p].user) :
       Answer(p, IF u.sub = req[p].cred.sub THEN "linked" ELSE "conflict")
  /\ UNCHANGED <<users, challenge, redeemed>>

-----------------------------------------------------------------------------
DbFailure(p) ==
  /\ "db" \in Perils
  /\ req[p].pc \notin {"idle", "verify", "done"}
  /\ Answer(p, "error")
  /\ UNCHANGED <<users, challenge, redeemed>>

Return(p) ==
  /\ req[p].pc = "done"
  /\ req' = [req EXCEPT ![p] = Idle]
  /\ UNCHANGED <<users, challenge, redeemed>>

(* createUser for a local registration, and updateProfile. *)
CreateUser(email, name) ==
  LET new == [email |-> email, name |-> name, sub |-> NoSub] IN
  /\ Clashes(new) = {}
  /\ users' = users \cup {new}
  /\ UNCHANGED <<challenge, req, redeemed>>

UpdateProfile(u, name) ==
  /\ u \in users /\ ByName(name) = {}
  /\ users' = (users \ {u}) \cup {[u EXCEPT !.name = name]}
  /\ UNCHANGED <<challenge, req, redeemed>>

HandlerStep(p) ==
  \/ \E ok \in BOOLEAN : VerifyCredential(p, ok)
  \/ VerifyAndConsume(p)
  \/ SelectBySub(p) \/ SelectByEmail(p) \/ \E name \in Names : InsertUser(p, name)
  \/ LinkGoogleIdentity(p) \/ RereadLinked(p)
  \/ DbFailure(p) \/ Return(p)

Arrival(p) ==
  \E cred \in Credentials, c \in Challenges : Login(p, cred, c) \/ LinkAuthenticatedUser(p, cred, c)

Environment ==
  \/ \E c \in Challenges : CreateChallenge(c) \/ ChallengeExpires(c)
  \/ \E email \in Emails, name \in Names : CreateUser(email, name)
  \/ \E u \in users, name \in Names : UpdateProfile(u, name)

Next ==
  \/ \E p \in Requests : Arrival(p) \/ HandlerStep(p)
  \/ Environment

Spec == Init /\ [][Next]_vars

-----------------------------------------------------------------------------
(* A challenge is good for one request: however many requests present it at *)
(* the same time, verifyAndConsume accepts one of them, and none once it    *)
(* has expired.                                                             *)
ChallengeOnce ==
  \A c \in Challenges : redeemed[c] <= 1 /\ (challenge[c] \in {"fresh", "expired"} => redeemed[c] = 0)

(* Google signs a user in to the account that bears the identity, never to  *)
(* one that only has the same email, through every race of registrations,   *)
(* links and other first sign-ins; and linkGoogleIdentity answers success   *)
(* only if the account of the session bears the identity.                   *)
SignsInToOwnAccount ==
  \A p \in Requests : LET r == req[p] IN
    r.ans \in {"authenticated", "created", "linked"} =>
      \E u \in users : u.email = r.user /\ u.sub = r.cred.sub

(* An identity that is linked when its user signs in leads to its account:  *)
(* no other request can make resolveProviderIdentity ask for a confirmation, *)
(* create a second account or run out of usernames.  Whether the account,   *)
(* once found, may have a session is then up to issueProviderSession.       *)
LinkedSignsIn ==
  \A p \in Requests : LET r == req[p] IN
    r.op = "login" /\ r.known => r.ans \in {"none", "invalid", "authenticated", "error"}

(* An account keeps its Google identity, whatever is linked at the same     *)
(* time.                                                                    *)
LinkIsPermanent ==
  [][\A u \in users : u.sub # NoSub =>
       \E v \in users' : v.email = u.email /\ v.sub = u.sub]_vars
=============================================================================
