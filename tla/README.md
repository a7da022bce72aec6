# MinePanel backend: TLA+ models and proofs

MinePanel's backend is one Node process (NestJS) in front of PostgreSQL and a
Docker daemon. What is hard to test in it is what happens *between* awaits: HTTP
handlers, socket callbacks and timers interleave at every database statement and
daemon call, the daemon may answer late or never, and the process may die at any
point. These models keep exactly that control and abstract the data.

## Parts of the system

| Part | Source | Here |
| --- | --- | --- |
| Server lifecycle, boot reconciliation | `servers/servers.service.ts` | `ServerLifecycle` |
| Docker adapter, RCON | `docker/docker.service.ts` | the daemon section of `ServerLifecycle` |
| Access requests, visibility, route guards | `servers/server-access.service.ts`, `auth/guards/` | `ServerAccess`, `AccessContract` |
| First-admin setup | `setup/setup.service.ts` | `Accounts` |
| Roles, statuses, MOD grants | `admin/admin.service.ts` | `Accounts` |
| Registration | `auth/auth.service.ts`, `users/users.service.ts` | `Accounts` |
| Sign-in, two-factor completion, rotation, revocation | `auth/auth.service.ts` | `Sessions` |
| Password change, reset, ban | `users/users.service.ts`, `admin/admin.service.ts` | `Sessions` |
| Login limits, two-factor lockout and enrolment | `auth/login-abuse.service.ts`, `auth/auth.service.ts` | `SignIn` |
| Google sign-in, challenges, linked identities | `auth/identity.service.ts`, `auth/oauth-challenge.service.ts`, `auth/google-*.ts` | `Identity` |
| Realtime metrics, pending-socket reservations | `gateway/` | `Gateway` |

The parts meet in the database, and each is checked against more behaviour of the
others than they really have. `Accounts` keeps the role and status columns of
`users` and looks at sessions only as "the user has some"; `Sessions` keeps the
status, password and recovery columns of one user and treats a status change as an
input; `SignIn` keeps the two-factor columns of one user and the in-memory
counters; `Identity` keeps the email, username and googleId columns. `ServerAccess`
sees a server as unused, CREATING, live or deleted, and lets it go from one to the
next at any time, as it lets roles and grants change. `Gateway` sees accounts as a
set `eligible` that changes at any time.

## Modules

### ServerLifecycle

`row` is the `servers` table (status, and `linked`: the containerId is set),
`ctr` what the daemon really has, `req` the requests in flight with their program
counters, `late` the daemon calls whose callers have given up, and `boot`, `seen`,
`snap` the progress and the locals of `onModuleInit`.

One action is one await of a handler. `CreateServer` ... `DeleteServer` load the
row and test its status; `Preflight` is the host and disk check; `Admit` takes
advisory lock 7332 and decides; `InsertRow` and `ClaimStart` commit under it;
`ClaimStopping` is the compare-and-swap that begins a stop, restart or delete;
`WarnPlayers` is one RCON command of a graceful stop (the announcements, then the
save) with its outcome, decided by `ExecuteRconCommand`; `CreateContainer`, `StartContainer`, `StopContainer`,
`RemoveContainer`, `LookupCreated`, `InspectRemoved` are daemon calls;
`AttachContainer`, `AdoptContainer`, `DiscardRow`, `EraseRow`, `Settle`, `Unwind`
the writes that follow. `Unwind` is the outer catch block of `restartServer`.
`BootRead` to `BootDone` are the reconciliation. A request that fails its first
test changes nothing and is left out. `Statuses` is what the daemon may answer;
`HandleDockerError`, `ChangeAnswer` and `LookAnswer` are what `DockerService` makes of
it. Who may see a server is tested in `ServerAccess`, not here.

Assumptions:
- a container is named and labelled after its server and created at most once, so
  it is identified with the server;
- a call answered with an error had no effect; an unanswered one (the 60 s
  timeout, or no connection) had its effect, has it later, or never;
- a failed statement had no effect (a commit whose answer is lost is not modelled);
- the `updatedAt` comparison of the reconciliation is left out: the whole row is
  compared, and one process runs at a time;
- the allocatable memory is constant while a process runs.

`Perils`, `Rejects` and `Outages` choose the faults of a run. `OrderlySpec` is
`Spec` without the steps in which `Unwind` moves a row its request no longer holds
(`OrderlyUnwind` in its place), the finding below; `ClaimHeld` and `OneOwner` are
false of `Spec` because of it, and the theorem without restart shows there is no
other cause.

### ServerAccess and AccessContract

`AccessContract` says what the access endpoints promise: a call of request, approve
or revoke takes effect at one moment between its arrival and its answer, at most
once, and the answer tells what it found there; a refused call changes nothing.

`ServerAccess` is the code. No handler opens a transaction, so every statement is a
step: `LoadServer` and `LoadTargetUser` with the tests that follow them,
`TryInsertPending`, `FindOwnAccess`, `ReloadServer` (`upsertPendingWithRetry`),
`TryApprovePending`, `FindForApproval`, `TryInsertApproved`, `RereadAccess`
(`approveWithRetry`), `DeleteAccess`. A start, stop or restart passes
`OperateServer` (RolesGuard), `PermissionsGuard` and `LoadVisibleServer`. Servers
are created, finished and deleted, roles changed and grants made and withdrawn
between any two of them; deleting a server deletes its access rows and grants.
`saw` is history: which facts have held since a request arrived.

`Contract` instantiates `AccessContract` with `call <- Calls`, which forgets where
in its retry loop a request is; `AtomicContract` is the contract's specification.

### Accounts

`user`, `grants`, `sessions`, `setupDone` are tables, `token` the generated
bootstrap token of this process. Transactions are split where they read something
they use later; writes appear at the commit. Lock 7330 (`SetupLockFree`) orders
bootstraps, lock 7331 (`AdminLockFree`) role, status and grant changes;
`RevokeModPermission` takes none. The guards in front of `AdminService` are
represented by "an active ADMIN exists" when the request arrives; what happens to
that actor afterwards is not tested again, as in the code.

### Sessions

The refresh sessions of one account (all statements are restricted to one user
id). A DELETE over sessions is two steps, `Scan` and `Apply`: under READ COMMITTED
a row inserted in between survives. `UserLockFree` is the row lock on `users`
taken by FOR UPDATE and by UPDATE in a transaction; a session insert only waits
for FOR UPDATE, because of its foreign key. `issued` records where each token came
from; `parent`, `cred` and `code` are history the code does not have.

Left out: attempts with wrong credentials and two-factor enrolment, which `SignIn`
has (`totp` is fixed here, both values are tried); the branch of `updatePassword`
without a current session, which its controller never takes.

### SignIn

What is kept in memory about failed attempts, and the two-factor columns of one
account. `pairs` is the map of failures per pair of account and source in insertion
order, with ages in place of timestamps; `failure` is the entry of
`twoFactorFailures`; `totp` is the secret, the flag and the backup codes, told apart
by the `confirm2FA` that made them (`batch`) and by how many are left. A request is
checked (`AssertAllowed`, `AssertTwoFactorNotLocked`), compares a password or a code
for some time, and then records its failure or success: the check and the record
are separate steps. `setup2FA`, `confirm2FA`, `disable2FA` and `removeTwoFactor`
read the account in one step and write it in another. `Tick` lets time pass, up to
the point where nothing distinguishes ages any more; `Restart` empties the maps.

The failures per account, which only choose a delay of at most 100 ms, are left out.

### Identity

`users` is the set of accounts with email, username and googleId; `challenge` the
`oauth_challenges` table. A sign-in or a link verifies its credential, consumes the
challenge of its nonce (`VerifyAndConsume`) and goes on to `SelectBySub`,
`SelectByEmail` and `InsertUser`, with at most three usernames, or to
`LinkGoogleIdentity` and `RereadLinked`. The unique keys are `Clashes`.
Registrations and renamings run beside them. Emails never change in this code and
stand for the account's id.

### Gateway

`conn` describes an Engine.IO connection: its transport (`raw`), its reservation and
the reservation's timer (`window`), the namespace socket with its status, the timer of
its own (`deadline`), its listener, and the verification of its token, which goes on
when the socket is gone. Both timers run from `HandleConnection` on, `claim` stops
neither, and either may fire first: `ReservationExpires` only tells the transport to
close, `DeadlinePasses` also cleans up the socket. A transport told to close is
"closing" until `TransportCloses`. `poll` and `tick` are the polling state and the tick
in flight; `eligible` is the database's view of the accounts; `admitted` and `barred`
are history. A callback is one step. `pollGeneration` is represented by `stale` ("it
has moved on since this tick began"); zero timers that are armed at the same time are
one. `Shutdown` is `onModuleDestroy` of the reservation service (the first provider of
`gateway.module.ts`) and of the gateway.

The cookie header, the auth payload and the host's figures are small records from
which `ParseAccessCookie`, `ParseAuthPayload` and `CollectSnapshot` compute their
outcome. What is written to the sockets is output and left out: whether a packet is
volatile, and the fresh snapshot that an administrator is sent on admission. One
verification in `Revalidate` is a step, its read and its verdict together: a verdict
that is acted on later closes the socket later, but before the broadcast all the same.

## Runs

| Run | Shows | Instance |
| --- | --- | --- |
| `lifecycle_safety` | claims are kept and have one owner; STOPPED and RUNNING are truthful; reconciliation settles every row; a container loses its row in three known ways only; admission never over-commits the host | `OrderlySpec`; 2 servers of different size, 3 requests, all operations, every refusal and outage, crashes, failed statements, late effects |
| `lifecycle_progress` | requests end, claims settle | 1 server, 2 requests, every refusal and outage, late effects, external changes |
| `accounts` | active ADMIN, one founder, grants follow roles, setup possible | 2 users, 2 requests, 1 grant |
| `sessions` | single-use credentials, lawful rotation, complete revocation, recovery with the newest reset | 2 requests, 3 tokens, 2 resets, 1 backup code |
| `signin` | tries bounded, lockouts hold, backup codes belong to the enrolment | 3 sources, 3 secrets, 3 lists of two codes, 2 requests |
| `identity` | challenges used once, sign-in to the own account, links permanent | 2 emails, names, identities, challenges and requests |
| `access` | `ServerAccess` implements `AccessContract`; operations only by the entitled; calls end | 1 server, 1 user, 2 requests, 1 retry, 1 grant |
| `gateway` | counting, polling, cap, revalidation before broadcast; pending connections resolve, a poll begins at once | 2 connections, cap 1 |
| `lifecycle_unwind`, `lifecycle_orphan`, `sessions_forced`, `signin_enrolment` | violated, see Findings | |

Bounds. Every lifecycle race on claims is between requests on one row; memory needs
two servers of different sizes, which compete: either fits alone, and the pair fits
only with the larger allocation. Three requests let a third act between two that
conflict. In `accounts` two users suffice for two administrators acting on each
other; the properties also hold, in a one-off run, with three users and three
requests. `MaxTokens` = 3 allows a sign-in, and two rotations or a competing
sign-in; two resets are needed for "the newest".

In `signin` the limits of the code are scaled down so that they are reached: a
source is refused after `PairLimit` = 2 failures (5 in the code), the map holds
`PairEntries` = 2 of 3 sources, so that it evicts, `CodeLimit` = 2 failures lock an
account (5 in the code), and `Lockout` = 3 exceeds `AttemptWindow` = 2 as 15
minutes exceed 10. `FailureWindow` = 1, with ages in units of it, tells a window that
is open from one that is over; the theorems are for any windows and limits. Three
secrets and lists allow an enrolment, its replacement and one in flight, and two codes
a list from which one is used. In `identity` the three usernames
tried are the code's own bound; the credentials are chosen so that two identities
meet on one email and one username, and one of them has changed its email. In
`access` the one retry is the code's (`MAX_RACE_RETRIES`); the theorem is for any
number of retries, servers, users and requests. The cap of 1 with 2 connections makes
the cap bite in `gateway`, and two sockets are enough for one to stay while the
other goes.

Symmetry is used only in runs without liveness and without refinement.

Faults left out of a run, and why. `lifecycle_safety` leaves out `external` (what an
operator does behind the panel's back is seen at the next boot) and `straggler` (a
call of a dead process that outlives the next reconciliation), both of which make a
settled status stale and neither of which the code claims to notice. It takes
`OrderlySpec` because of the unwinding finding. The ways in which a container loses
its row are exceptions stated in `LosesTrackKnowingly`: two of them are a create
carried out after its caller gave up, which no document rules out, the third is the
orphan finding.

Fairness. `lifecycle_progress`: every await of a handler ends (daemon calls have a
timeout, the sleeps of the RCON phase are bounded, statements return), hence weak
fairness of a request's next step; PostgreSQL queues the waiters of an advisory
lock, hence strong fairness of `Admit`; an abandoned daemon call is carried out or
dropped. `ClaimsSettle` leaves out CREATING, since a create whose compensation
finds the daemon unavailable leaves the row to the next boot. Failed statements and
crashes also leave a claim to the next boot and are not in this run. As nothing
reboots, a server in ERROR or CREATING has no operation left, so the run may stop
and deadlock is not checked there (nor in `lifecycle_unwind` and
`lifecycle_orphan`). `access`: the database answers or fails every statement and
Node resumes every handler, hence weak fairness of each request's next step and
nothing of clients; that calls end is then due to the bounded retries. `gateway`:
armed timers fire, a transport told to close has closed some day (Engine.IO has a
timeout for it), and the steps of a tick return, hence weak fairness of each. Nothing
is assumed of clients, of the verification of a token at admission, or of the interval:
`PollStartsAtOnce` must not be due to it.

## Findings

1. `lifecycle_unwind`. When the start phase of a restart fails, its own catch block
   settles the row to STOPPED and throws into the outer catch block
   (`servers.service.ts:512`), which moves STOPPING to STOPPED. In between, another
   request can start the server and a further one claim STOPPING: the outer block
   then settles that foreign claim, and the row reads STOPPED while the container
   runs. The comment there says the row is settled truthfully.
2. `lifecycle_orphan`. When a remove is refused and the container is found present
   and stopped, the row is deleted (`servers.service.ts:601`) and the container
   stays. `docs/servers.md` deletes the row only for a confirmed absence. A unit
   test expects the code's behaviour.
3. `sessions_forced`. An ordinary password change tests `mustChangePassword` before
   hashing and updates without a condition (`users.service.ts:156`); a reset in
   between is followed by an ordinary change that completes during forced recovery.
4. `signin_enrolment`. `confirm2FA` verifies the code against the secret it has
   read, hashes the backup codes and then sets `totpEnabled` without a condition on
   that secret (`auth.service.ts:576`). A `setup2FA` that read the account before
   stores its secret in between: the account is enrolled with a secret no code was
   verified against. `SPEC.md` says the endpoint verifies the first code and
   enables two-factor authentication.

Three further places where the documents say more than the code does have no run of
their own; the properties state what the code does and name the difference:

- `SPEC.md:404` says of the two-factor lockout "5 failures per 10 min → 15 min 429". A
  verification that had passed the check before the lock, and whose failure is recorded
  after the ten minutes, starts a new entry (`auth.service.ts:715`) and so lifts the
  lock before its fifteen are over. `LocksHold` has this as an exception.
- `SPEC.md:333` says of approve "direct APPROVED insert (PRIVATE/REQUEST)". The code
  answers 404 for a REQUEST server without a row (`server-access.service.ts:198`), as
  `docs/access-control.md:80` and its unit test say; `AccessContract` follows these.
- `docs/realtime.md:58` speaks of a "guaranteed first packet" after authentication. It
  is sent by the immediate tick, or from the cache. An administrator gets none before
  the next interval if the immediate tick's `collectSnapshot` fails, if they join a poll
  that runs without a fresh snapshot, or if the interval fires between the end of an old
  tick and its zero timer, in which case the packet is a volatile one. As emission is
  left out, `PollStartsAtOnce` says only that a tick of the new poll begins.

## Proofs

The theorems hold for every value of the constants that satisfies the assumptions
named; nothing else is assumed. They cover every safety property of the passing runs.

`ServerLifecycle_proofs` (`LifecycleAssumption`, and `ServersFinite` for the sums of
memory; any requests, operations and faults):

- `TypeCorrect`: `Spec => []TypeOK`. A request at a daemon or database step must be
  known to name a server, so the inductive invariant adds `Located`.
- `ClaimsAreExclusive`: `OrderlySpec => [](ClaimHeld /\ OneOwner)`. `ClaimHeld`
  is not inductive: it needs to know which status each step holds (`AllShaped`),
  that no request is in flight while the process boots (`Quiet`), that a row
  exists only for an allotted id (`Known`), that a create that has not inserted
  its row is alone with its id (`Fresh`), and that a row a delete has erased stays
  erased until its second DELETE (`Erased`). Given these, a request that changes a
  row either holds its claim, so that by `OneOwner` nobody else does, or wins a
  compare-and-swap from a status under which nobody holds it.
- `ClaimsAreExclusiveWithoutRestart`: the same of `Spec` if restart is not used.
- `TrackLostKnowingly`: `OrderlySpec => LosesTrackKnowingly` if `straggler` is not
  among the faults. `TrackInv` says that an abandoned create concerns only rows that
  are CREATING, in ERROR or gone, that a deletable row without a containerId has no
  container (`RowsTracking`), and that a delete about to erase its row as confirmed
  absent is right (`ReliesGone`).
- `CreatesFitHost`: `Spec => CreateFitsHost`. What is summed when a create is
  admitted must still bound the table when its row is inserted: `FitInv` says that
  the advisory lock has one holder (`LockOne`), that no settling step makes a row
  CREATING or STARTING (`Settling`), and that while an admitted create holds the lock
  its server fits beside all that exist (`CreateAdmitted`). That a sum of memory
  grows with its set (`TotalAdd`, `TotalMonotone`) is an induction over finite sets.
  The library's induction theorems are beyond the installed provers, so finiteness is
  assumed as `ServersFinite` (every family of sets of servers has a minimal
  member), and the lemmas look at a smallest counterexample.

`ServerTruth_proofs`, on top of these:

- `StatusesTruthful`: `OrderlySpec => []StatusTruthful` if `external` and
  `straggler` are not among the faults. `TruthInv` adds to the claims what a request
  relies on at each step (the container is up, is down, is reached by no other call:
  `Informed`), that an abandoned daemon call concerns only rows that vouch for
  nothing (`LateDisowned`), and that what reconciliation has found stays true until
  it is written (`BootInformed`). A step touches one container; whoever relies on
  that container holds its row, and by `OneOwner` that is the request itself.
- `ReconciliationSettles`: `Spec => BootSettles`, with no proviso.
- `StartsFitHost`: `OrderlySpec => StartFitsHost`, with the proviso of
  `StatusesTruthful`. Admission sums rows, the memory is used by containers; so
  `HostInv` adds to `TruthInv` and `FitInv` that a container that runs, or that an
  abandoned call may yet start, has a row (`LiveListed`), that none runs during the
  steps of a create before its start and of a delete (`StillDown`), and that while
  an admitted start holds the lock its server fits beside all that run or may
  (`StartAdmitted`).

`Accounts_proofs` (`AccountsAssumption`; any finite set of users, any grants and
requests): `AccountsTypeCorrect`, `LastAdminGuard`, `GrantsAligned`,
`SetupStaysPossible`, `SetupCreatesOneAdmin`. The invariant `Inv` adds that what a
transaction under lock 7331 has read is still true of its target (`AllSound`), that
at most one request is past each lock (`Exclusive`), and that no account is an ADMIN
before setup (`AdminsFollowSetup`). The last-admin guard rests on a cardinality
argument: more than one active ADMIN was counted, and one target is removed.

`Sessions_proofs` (`SessionsAssumption`; any finite set of requests, any codes, faults
and bounds):
`CredentialsUsedOnce`, `RotationsLawful`, `RevocationsComplete`,
`RecoveryNeedsNewestReset`, `TypeCorrect`. `Inv` says that the users row is held by
one transaction (`Apart`), that what its holder has read is still true and that a
DELETE past its scan has seen every rotated token (`Sound`), and that what has started
a session, or is about to, cannot be presented again (`Settled`, `Sound`, `Apart`).
The argument for `RecoveryNeedsNewestReset` is the order of the statements: a
credential is consumed by a conditional UPDATE before the session is inserted, and a
reset only ever installs a newer one. `TypeCorrect` also says that the recovery
columns agree; for the bound on tokens `Bounded` counts, with the tokens issued, the
requests that may still issue one.

`SignIn_proofs` (`SignInAssumption`; any sources, any finite set of requests, any
limits, windows and map sizes): `TypeCorrect`, `TriesAreBounded`,
`BackupCodesStayCurrent`, `LocksAreHeld`. The last looks at what each step does to an
entry that locks: a failure either finds the window open, and `BlockLifted` and
`BumpKeeps` say that the entry stays and its count grows, or it is one of the exceptions. `SignInInv` has a group for each store: the
pair map is a sequence without a source twice and within its cap (`PairsInv`), the
code failures that reach the limit are locked (`CodesInv`), an enrolled account has
the codes of the batch it was shown (`TotpInv`), and a request is at a step of its
operation (`ReqInv`). The count of an entry and the requests in flight that passed
the test together stay below the limit plus the number of requests, which bounds the
wrong guesses. `Prune` is a recursive function over the map; that it invents no entry
and keeps each whose time is not up follows from a smallest counterexample again.

`Identity_proofs` (`IdentityAssumption`): `TypeCorrect`, `ChallengesOnce`,
`OwnAccountOnly`, `LinkedIdentitySignsIn`, `LinksStay`, from the unique keys of `users`
and what each step of a sign-in knows of the account it has found.

`Gateway_proofs` (`GatewayAssumption`; any finite set of connections, any cap):
`AdminsCounted`, `PollRunsForAdmins`, `ReservationsCapped`, `BroadcastsRevalidated`. `Sound`
says of each connection that the admission window runs exactly while there is a
reservation, that there is one exactly while the transport is open and was never
admitted, and that a principal, a deadline and a listener belong to a socket that is
there. So a socket is admitted once and leaves the count in the one step that closes
it, and the cap on the reservations, a cardinality argument, is one on transports. For the broadcasts `CheckInv` says that while the second
`revalidateAdmins` runs, the sockets it must find ineligible are still ahead of it,
and that nobody else comes to the room with a verdict older than the tick.

`ServerAccess_proofs` (`AccessAssumption`; any servers, users, requests, retries):

- `AccessIsAtomic`: `Spec => AtomicContract`. Under the mapping `Calls` a step of a
  request is a stutter, the taking effect of its call, or its answer;
  `StepSimulates` says which. `Inv` is needed for the answers: what a request reports
  was true of the row at some moment since it arrived, however often it had to retry.
- `OperatesEntitled`, `RequestableIsHonoured`: `Knows` says, at each step, which facts
  must have been seen for the request to be there.
- `TypeCorrect`, with the foreign keys: every handler has loaded the server before it
  inserts a row for it (`Loaded`), and a deletion cascades.
- `CallsAreBounded`: the safety half of `CallsEnd`. Every statement of a call lowers a
  natural number, `Rank`, whatever the others do to the rows; TLC adds that under
  fairness the next statement is made.

Only model-checked: liveness (`RequestsEnd`, `ClaimsSettle`, `CallsEnd`,
`PendingResolves`, `PollStartsAtOnce`), which the prover cannot treat.

## Not modelled

- Migrations and bootstrap of the application (`db/migrate.ts`, `main.ts`): they run
  to their end before the first request; the schema is what the models' unique keys,
  foreign keys and columns are taken from.
- The Socket.IO adapter and HTTP plumbing (`main.ts`, controllers, DTO validation,
  CSRF and origin checks, exception filter, cookies, logging): no state that outlives
  a request. What a controller decides by itself is in the action of its service.
- Formats: tokens, hashes, TOTP arithmetic, ciphertexts, host and disk figures,
  container configuration. Their outcome (matches or not, fits or not) is an input.
- The delay of at most 100 ms that failed sign-ins of an account cause
  (`accountFailures`): it changes no outcome.
- A statement whose commit succeeds and whose answer is lost, and two backend
  processes on one database at a time.
- Endpoints that only read (lists, profiles), except where their result is acted on.
- Developer tooling (`scripts/`, `tools/`).
