------------------------------- MODULE SignIn -------------------------------
(***************************************************************************)
(* The limits on wrong passwords and wrong two-factor codes, and the        *)
(* enrolment of an account in two-factor authentication: LoginAbuseService  *)
(* (login-abuse.service.ts), loginUser, completeTwoFactorLogin, setup2FA,   *)
(* confirm2FA and disable2FA of AuthService (auth.service.ts) and           *)
(* removeTwoFactor of AdminService (admin.service.ts), for one account.     *)
(*                                                                         *)
(* The limits live in the memory of one process, and time counts in whole   *)
(* units: an entry keeps the age of its failures, no further than where     *)
(* they stop to count.  Requests interleave at every `await`: after each    *)
(* query and during each bcrypt comparison.  Secrets and backup codes that  *)
(* nothing refers to any more are drawn again.                              *)
(***************************************************************************)
EXTENDS Naturals, Sequences, FiniteSets

CONSTANTS
  Sources,        \* the addresses sign-ins come from
  Secrets,        \* TOTP secrets
  Batches,        \* the lists of backup codes confirm2FA draws
  CodesPerBatch,  \* how many codes a list has
  Requests,       \* slots for HTTP requests in flight at the same time
  PairLimit, FailureWindow, PairEntries,  \* PAIR_FAILURE_LIMIT, FAILURE_WINDOW_MS, MAX_PAIR_ENTRIES
  CodeLimit, AttemptWindow, Lockout,      \* TWO_FACTOR_FAILURE_LIMIT, _ATTEMPT_WINDOW_MS, _LOCKOUT_MS
  NoSecret, NoBatch, NoSource

ASSUME SignInAssumption ==
  /\ {PairLimit, FailureWindow, PairEntries, CodeLimit, AttemptWindow, Lockout, CodesPerBatch}
       \subseteq Nat \ {0}
  /\ IsFiniteSet(Requests)
  /\ NoSecret \notin Secrets /\ NoBatch \notin Batches /\ NoSource \notin Sources

VARIABLES
  pairs,    \* LoginAbuseService.pairFailures, in the order of insertion
  failure,  \* the account's entry of twoFactorFailures
  totp,     \* totpEnabled, totpSecret and totpBackupCodes of its row
  proved,   \* history: whose secret's code and which list the last confirm2FA stored
  req       \* [Requests -> Request]

vars == <<pairs, failure, totp, proved, req>>

(* The most failures an entry can count, see TriesBounded. *)
Most(limit) == limit - 1 + Cardinality(Requests)

PairEntry == [source : Sources, failures : 1..Most(PairLimit),
              first : 0..FailureWindow, last : 0..FailureWindow]

(* `lock` is what is left of the lockout; without lockedUntil, `locked` is  *)
(* FALSE.                                                                   *)
CodeEntry == [failures : 0..Most(CodeLimit), first : 0..AttemptWindow,
              locked : BOOLEAN, lock : 0..Lockout]
NoFailure == [failures |-> 0, first |-> 0, locked |-> FALSE, lock |-> 0]

Codes == [batch : Batches \cup {NoBatch}, left : 0..CodesPerBatch]
NoCodes == [batch |-> NoBatch, left |-> 0]
Totp == [enabled : BOOLEAN, secret : Secrets \cup {NoSecret}, codes : Codes]
TotpOff == [enabled |-> FALSE, secret |-> NoSecret, codes |-> NoCodes]

(* `codes` and `secret` are copies of the row the request has read, `match` *)
(* whether the code it was sent is one of those backup codes.               *)
Request == [pc : {"idle", "compare", "codes", "accepted", "write"},
            op : {"none", "login", "verify", "setup", "confirm", "disable", "remove"},
            source : Sources \cup {NoSource}, codes : Codes, match : BOOLEAN,
            secret : Secrets \cup {NoSecret}]
Idle == [pc |-> "idle", op |-> "none", source |-> NoSource, codes |-> NoCodes,
         match |-> FALSE, secret |-> NoSecret]

(* The variables have their types, and the map of failures no more entries  *)
(* than MAX_PAIR_ENTRIES, one for each pair.                                *)
TypeOK ==
  /\ pairs \in Seq(PairEntry) /\ Len(pairs) <= PairEntries
  /\ \A i, j \in DOMAIN pairs : pairs[i].source = pairs[j].source => i = j
  /\ failure \in CodeEntry
  /\ totp \in Totp
  /\ proved \in [secret : Secrets \cup {NoSecret}, batch : Batches \cup {NoBatch}]
  /\ req \in [Requests -> Request]

Init ==
  /\ pairs = <<>> /\ failure = NoFailure
  /\ totp = TotpOff /\ proved = [secret |-> NoSecret, batch |-> NoBatch]
  /\ req = [p \in Requests |-> Idle]

Begin(p, r) == req[p].pc = "idle" /\ req' = [req EXCEPT ![p] = r]
Goto(p, step) == req' = [req EXCEPT ![p] = [@ EXCEPT !.pc = step]]
End(p) == req' = [req EXCEPT ![p] = Idle]

-----------------------------------------------------------------------------
(* LoginAbuseService, and loginUser as far as it uses it                   *)

(* prune: kept[i] is what remains of the first i entries. *)
Prune ==
  LET kept[i \in 0..Len(pairs)] ==
        IF i = 0 THEN <<>>
        ELSE IF pairs[i].last < FailureWindow THEN Append(kept[i - 1], pairs[i])
        ELSE kept[i - 1]
  IN  kept[Len(pairs)]

Blocked(entries, s) == \E i \in DOMAIN entries : entries[i].source = s /\ entries[i].failures >= PairLimit

(* Mutant: nothing is evicted. *)
BumpUnbounded(entries, s) ==
  LET new == [source |-> s, failures |-> 1, first |-> 0, last |-> 0]
      next(e) == IF e.first < FailureWindow
                   THEN [e EXCEPT !.failures = @ + 1, !.last = 0] ELSE new
  IN  IF \E i \in DOMAIN entries : entries[i].source = s
        THEN [i \in DOMAIN entries |->
                IF entries[i].source = s THEN next(entries[i]) ELSE entries[i]]
        ELSE Append(entries, new)

(* bump: an entry keeps its place in the map, a new one that makes the map  *)
(* too large evicts the one inserted first.                                 *)
Bump(entries, s) ==
  LET new == [source |-> s, failures |-> 1, first |-> 0, last |-> 0]
      next(e) == IF e.first < FailureWindow
                   THEN [e EXCEPT !.failures = @ + 1, !.last = 0] ELSE new
      full == Len(entries) = PairEntries
  IN  IF \E i \in DOMAIN entries : entries[i].source = s
        THEN [i \in DOMAIN entries |->
                IF entries[i].source = s THEN next(entries[i]) ELSE entries[i]]
        ELSE Append(IF full THEN Tail(entries) ELSE entries, new)

(* Mutant: the failures of a pair are recorded, and no one looks at them. *)
AssertAllowedAlways(p, s) ==
  /\ pairs' = Prune
  /\ Begin(p, [Idle EXCEPT !.pc = "compare", !.op = "login", !.source = s])
  /\ UNCHANGED <<failure, totp, proved>>

(* assertAllowed, before loginUser's first await. *)
AssertAllowed(p, s) ==
  /\ pairs' = Prune
  /\ IF Blocked(Prune, s) THEN Begin(p, Idle)
     ELSE Begin(p, [Idle EXCEPT !.pc = "compare", !.op = "login", !.source = s])
  /\ UNCHANGED <<failure, totp, proved>>

(* recordFailure, when the password is wrong or the identifier unknown. *)
RecordFailure(p) ==
  /\ req[p].pc = "compare"
  /\ pairs' = Bump(Prune, req[p].source)
  /\ End(p)
  /\ UNCHANGED <<failure, totp, proved>>

(* recordSuccess forgets the account's failures from every source. *)
RecordSuccess(p) ==
  /\ req[p].pc = "compare"
  /\ pairs' = <<>>
  /\ End(p)
  /\ UNCHANGED <<failure, totp, proved>>

-----------------------------------------------------------------------------
(* Two-factor codes                                                        *)

Locked(f) == f.locked /\ f.lock > 0

(* Mutant: only the failure that reaches the limit locks. *)
RecordTwoFactorFailureOnce(f) ==
  LET active == IF f.first < AttemptWindow THEN f ELSE NoFailure
      locks == active.failures + 1 = CodeLimit
  IN  [failures |-> active.failures + 1, first |-> active.first,
       locked |-> locks, lock |-> IF locks THEN Lockout ELSE 0]

(* recordTwoFactorFailure: of a window that is over nothing is kept, its    *)
(* lock included.                                                           *)
RecordTwoFactorFailure(f) ==
  LET active == IF f.first < AttemptWindow THEN f ELSE NoFailure
      locks == active.failures + 1 >= CodeLimit
  IN  [failures |-> active.failures + 1, first |-> active.first,
       locked |-> locks, lock |-> IF locks THEN Lockout ELSE 0]

(* Mutant: a lockout is no reason to turn a code down. *)
AssertTwoFactorNotLockedEver(f) == TRUE

(* assertTwoFactorNotLocked, apart from the deletion of an old lock. *)
AssertTwoFactorNotLocked(f) == ~Locked(f)

(* completeTwoFactorLogin: the row is read, the lock and the TOTP code are  *)
(* looked at; a code that fails is compared with the backup codes.          *)
CompleteTwoFactorLogin(p, valid, match) ==
  /\ totp.enabled /\ totp.secret # NoSecret /\ AssertTwoFactorNotLocked(failure)
  /\ IF valid THEN Begin(p, Idle) /\ failure' = NoFailure
     ELSE /\ Begin(p, [Idle EXCEPT !.pc = "codes", !.op = "verify", !.codes = totp.codes,
                                   !.match = match /\ totp.codes.left > 0])
          /\ failure' = IF failure.locked THEN NoFailure ELSE failure
  /\ UNCHANGED <<pairs, totp, proved>>

(* Mutant: the UPDATE asks for the account only. *)
ConsumeBlindly(p) ==
  /\ req[p].pc = "codes" /\ req[p].match
  /\ totp' = [totp EXCEPT !.codes = [req[p].codes EXCEPT !.left = @ - 1]]
  /\ Goto(p, "accepted")
  /\ UNCHANGED <<pairs, failure, proved>>

(* verifyAndConsumeBackupCode finds the code and takes it out of the list,  *)
(* if that is still the list it has read.                                   *)
Consume(p) ==
  /\ req[p].pc = "codes" /\ req[p].match /\ totp.codes = req[p].codes
  /\ totp' = [totp EXCEPT !.codes.left = @ - 1]
  /\ Goto(p, "accepted")
  /\ UNCHANGED <<pairs, failure, proved>>

(* The code is none of the backup codes, or the list has changed. *)
CodeRejected(p) ==
  /\ req[p].pc = "codes" /\ ~(req[p].match /\ totp.codes = req[p].codes)
  /\ failure' = IF req[p].op = "verify" THEN RecordTwoFactorFailure(failure) ELSE failure
  /\ End(p)
  /\ UNCHANGED <<pairs, totp, proved>>

(* completeTwoFactorLogin goes on with a backup code that was accepted. *)
CodeAccepted(p) ==
  /\ req[p].pc = "accepted" /\ req[p].op = "verify"
  /\ failure' = NoFailure
  /\ End(p)
  /\ UNCHANGED <<pairs, totp, proved>>

-----------------------------------------------------------------------------
(* Enrolment                                                               *)

Fresh(all, used) == all \ used
SecretsInUse == {totp.secret, proved.secret} \cup {req[p].secret : p \in Requests}
BatchesInUse == {totp.codes.batch, proved.batch} \cup {req[p].codes.batch : p \in Requests}

(* setup2FA reads the row and, later, stores a secret. *)
Setup2FA(p) ==
  /\ ~totp.enabled
  /\ Begin(p, [Idle EXCEPT !.pc = "write", !.op = "setup"])
  /\ UNCHANGED <<pairs, failure, totp, proved>>

StoreSecret(p) ==
  /\ req[p].pc = "write" /\ req[p].op = "setup"
  /\ \E k \in Fresh(Secrets, SecretsInUse) : totp' = [totp EXCEPT !.secret = k]
  /\ End(p)
  /\ UNCHANGED <<pairs, failure, proved>>

(* confirm2FA reads the row, finds the code valid for the secret in it and, *)
(* when the backup codes are hashed, stores them.                           *)
Confirm2FA(p) ==
  /\ ~totp.enabled /\ totp.secret # NoSecret
  /\ Begin(p, [Idle EXCEPT !.pc = "write", !.op = "confirm", !.secret = totp.secret])
  /\ UNCHANGED <<pairs, failure, totp, proved>>

Enable(p) ==
  /\ req[p].pc = "write" /\ req[p].op = "confirm"
  /\ \E b \in Fresh(Batches, BatchesInUse) :
       /\ totp' = [totp EXCEPT !.enabled = TRUE,
                               !.codes = [batch |-> b, left |-> CodesPerBatch]]
       /\ proved' = [secret |-> req[p].secret, batch |-> b]
  /\ End(p)
  /\ UNCHANGED <<pairs, failure>>

(* disable2FA reads the row and looks at the code, as above. *)
Disable2FA(p, valid, match) ==
  /\ totp.enabled /\ totp.secret # NoSecret
  /\ Begin(p, [Idle EXCEPT !.pc = IF valid THEN "accepted" ELSE "codes", !.op = "disable",
                           !.codes = totp.codes,
                           !.match = ~valid /\ match /\ totp.codes.left > 0])
  /\ UNCHANGED <<pairs, failure, totp, proved>>

(* removeTwoFactor reads the row. *)
RemoveTwoFactor(p) ==
  /\ totp.enabled
  /\ Begin(p, [Idle EXCEPT !.pc = "accepted", !.op = "remove"])
  /\ UNCHANGED <<pairs, failure, totp, proved>>

(* The UPDATE of disable2FA and removeTwoFactor. *)
Disable(p) ==
  /\ req[p].pc = "accepted" /\ req[p].op \in {"disable", "remove"}
  /\ totp' = TotpOff
  /\ End(p)
  /\ UNCHANGED <<pairs, failure, proved>>

-----------------------------------------------------------------------------
(* A statement fails, or the account may not sign in: nothing is recorded. *)
Fail(p) ==
  /\ req[p].pc # "idle"
  /\ End(p)
  /\ UNCHANGED <<pairs, failure, totp, proved>>

Older(age, limit) == IF age < limit THEN age + 1 ELSE age
AgedPair(e) == [e EXCEPT !.first = Older(@, FailureWindow), !.last = Older(@, FailureWindow)]
AgedFailure(f) ==
  [f EXCEPT !.first = IF f.failures = 0 THEN 0 ELSE Older(@, AttemptWindow),
            !.lock = IF @ > 0 THEN @ - 1 ELSE 0]

(* Time passes. *)
Tick ==
  /\ pairs' = [i \in DOMAIN pairs |-> AgedPair(pairs[i])]
  /\ failure' = AgedFailure(failure)
  /\ UNCHANGED <<totp, proved, req>>

(* The process is started again, and remembers no failure. *)
Restart ==
  /\ pairs' = <<>> /\ failure' = NoFailure
  /\ req' = [p \in Requests |-> Idle]
  /\ UNCHANGED <<totp, proved>>

Arrival(p) ==
  \/ \E s \in Sources : AssertAllowed(p, s)
  \/ \E valid, match \in BOOLEAN : CompleteTwoFactorLogin(p, valid, match) \/ Disable2FA(p, valid, match)
  \/ Setup2FA(p) \/ Confirm2FA(p) \/ RemoveTwoFactor(p)

HandlerStep(p) ==
  \/ RecordFailure(p) \/ RecordSuccess(p)
  \/ Consume(p) \/ CodeRejected(p) \/ CodeAccepted(p)
  \/ StoreSecret(p) \/ Enable(p) \/ Disable(p)
  \/ Fail(p)

Next ==
  \/ \E p \in Requests : Arrival(p) \/ HandlerStep(p)
  \/ Tick \/ Restart

Spec == Init /\ [][Next]_vars

-----------------------------------------------------------------------------
(* Properties.                                                             *)

Comparing(op, s) == {p \in Requests : req[p].op = op /\ req[p].source = s /\ req[p].pc \in {"compare", "codes"}}
FailuresOf(s) == {pairs[i].failures : i \in {j \in DOMAIN pairs : pairs[j].source = s}}

(* A limit is exceeded by no more than the requests that are in flight:     *)
(* assertAllowed and assertTwoFactorNotLocked look at a count that the      *)
(* failures of the requests under way have not reached yet, but what is     *)
(* counted and what is under way together stay below the limit plus the     *)
(* requests the process serves at a time.                                   *)
TriesBounded ==
  /\ \A s \in Sources, n \in 0..Most(PairLimit) :
       n \in FailuresOf(s) => n + Cardinality(Comparing("login", s)) <= Most(PairLimit)
  /\ failure.failures + Cardinality(Comparing("verify", NoSource)) <= Most(CodeLimit)

(* What may end a lock: the process starts again, or a request that had     *)
(* passed the check before the lock answers.                                *)
Restarted == failure' = NoFailure /\ pairs' = <<>> /\ \A p \in Requests : req'[p] = Idle
Answering(op, step) == {p \in Requests : req[p].op = op /\ req[p].pc = step /\ req'[p] = Idle}

(* A lock outlives the requests that were under way when it was set: a      *)
(* restart and a success aside, no failure recorded within the attempt      *)
(* window of a lockout lifts or shortens it, and none within the failure    *)
(* window of a blocked pair lifts its block; other failures touch the entry *)
(* only to evict it, as the first of a map that is full of open windows.    *)
(* Once the window is over a late failure does lift the lock, which lasts   *)
(* longer than the window: that is what the code does, not what SPEC.md     *)
(* says ("5 failures per 10 min -> 15 min 429").                            *)
LocksHold ==
  [][/\ Locked(failure) =>
          \/ failure' \in {failure, AgedFailure(failure)}
          \/ Restarted \/ Answering("verify", "accepted") # {}
          \/ /\ Answering("verify", "codes") # {}
             /\ failure.first < AttemptWindow => failure'.locked /\ failure'.lock = Lockout
     /\ \A i \in DOMAIN pairs :
          LET e == pairs[i] IN
          e.failures >= PairLimit /\ e.last < FailureWindow =>
            \/ \E j \in DOMAIN pairs' : pairs'[j] \in {e, AgedPair(e)}
            \/ Restarted
            \/ \E p \in Answering("login", "compare") :
                 \/ pairs' = <<>>
                 \/ /\ req[p].source = e.source
                    /\ e.first < FailureWindow =>
                         \E j \in DOMAIN pairs' :
                           pairs'[j] = [e EXCEPT !.failures = @ + 1, !.last = 0]
                 \/ /\ req[p].source \notin {Prune[j].source : j \in DOMAIN Prune}
                    /\ Len(Prune) = PairEntries /\ Prune[1] = e]_vars

(* The backup codes belong to the enrolment: an account has some exactly    *)
(* while two-factor authentication is on, they are of the list the last     *)
(* confirm2FA returned, and none that was used comes back, whatever         *)
(* verifications of an earlier list end after the account was disabled and  *)
(* enrolled again.                                                          *)
BackupCodesCurrent ==
  [][/\ totp'.enabled <=> totp'.codes.batch # NoBatch
     /\ totp'.enabled => totp'.codes.batch = proved'.batch
     /\ totp'.codes.batch = totp.codes.batch => totp'.codes.left <= totp.codes.left]_vars

(* What the table of endpoints in SPEC.md says of confirm2FA, that it       *)
(* verifies the first code and enables two-factor authentication: the       *)
(* secret of an account that has it on is the one a code was verified for.  *)
EnrolmentProved == totp.enabled => totp.secret = proved.secret
=============================================================================
