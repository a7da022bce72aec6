--------------------------- MODULE ServerLifecycle ---------------------------
(***************************************************************************)
(* The life of Minecraft servers in the panel: ServersService              *)
(* (servers.service.ts) working on the rows of the `servers` table and, by *)
(* way of DockerService (docker.service.ts), on the containers of a Docker *)
(* daemon that may refuse a call, lose its answer or act on it later.      *)
(*                                                                         *)
(* A request runs a handler one `await` at a time, so any two requests     *)
(* interleave at every database statement and at every daemon call.  The   *)
(* process may crash at any time; booting runs onModuleInit, which         *)
(* reconciles the rows with the daemon before the first request is served. *)
(*                                                                         *)
(* A container is named and labelled after its server and is created at    *)
(* most once, so it is identified with the server and the containerId      *)
(* column becomes the Boolean `linked`.                                    *)
(***************************************************************************)
EXTENDS Naturals, FiniteSets, FiniteSetsExt

CONSTANTS
  Servers,       \* the server ids that can ever be allotted
  Requests,      \* slots for HTTP requests in flight at the same time
  Ops,           \* the operations that clients use
  Mem,           \* memoryLimitMb of each server
  Allocatables,  \* floor(totalRamMb * maxMemoryRatio): what each boot may find
  Rejects,       \* daemon calls that may be answered with an error
  Outages,       \* daemon calls that may find no answer within the timeout
  Perils,        \* what else may go wrong, see PerilKinds
  NoServer

AllOps == {"create", "start", "stop", "restart", "delete"}
Effects == {"create", "start", "stop", "remove"}  \* calls that change a container
Calls == Effects \cup {"inspect", "lookup"}

(* "crash": the process dies; "db": a statement fails and its handler       *)
(* throws; "external": containers exit, are restarted or removed behind the *)
(* panel's back; "delay": a call that found no answer in time may still be  *)
(* carried out after its caller gave up; "straggler": it may even outlive a *)
(* restart of the process and its reconciliation.                          *)
PerilKinds == {"crash", "db", "external", "delay", "straggler"}

ASSUME LifecycleAssumption ==
  /\ Ops \subseteq AllOps
  /\ Mem \in [Servers -> Nat \ {0}]
  /\ Allocatables \subseteq Nat
  /\ Rejects \subseteq Calls
  /\ Outages \subseteq Calls
  /\ Perils \subseteq PerilKinds
  /\ NoServer \notin Servers

(* Servers is finite, in Tarski's form: every family of sets of servers has *)
(* a minimal member.  This is the induction that sums of memory need.       *)
ASSUME ServersFinite ==
  \A F \in SUBSET SUBSET Servers :
    F # {} => \E S \in F : \A T \in F : T \subseteq S => T = S

VARIABLES
  row,          \* the servers table: [Servers -> Row]
  used,         \* ids that have been inserted: a UUID is never allotted again
  ctr,          \* the daemon's truth: [Servers -> ContainerState]
  req,          \* the requests in flight: [Requests -> Request]
  late,         \* daemon calls whose caller is gone and that may still act
  boot,         \* how far the process has come up
  seen,         \* boot: what reconcileRow has found out about each row
  snap,         \* boot: the rows as onModuleInit read them
  allocatable   \* memory this process may hand out

vars == <<row, used, ctr, req, late, boot, seen, snap, allocatable>>

Transient == {"CREATING", "STARTING", "STOPPING"}
Status == Transient \cup {"RUNNING", "STOPPED", "ERROR"}
Row == [status : Status \cup {"ABSENT"}, linked : BOOLEAN]
NoRow == [status |-> "ABSENT", linked |-> FALSE]
ContainerState == {"none", "stopped", "running"}

Steps == {"idle", "preflight", "admit", "commit", "claim", "say", "save", "attach", "lookup",
          "adopt", "discard", "inspect", "eraseStopped", "eraseAbsent",
          "erase", "settle", "unwind"} \cup Effects

(* `held` is the transient status under which the request believes to own   *)
(* the row, `cid` the containerId it passes to its compare-and-swaps, `to`  *)
(* the status its next settling compare-and-swap writes.                    *)
Request == [pc : Steps, op : AllOps \cup {"none"}, srv : Servers \cup {NoServer},
            cid : BOOLEAN, held : Transient \cup {"none"}, to : Status \cup {"none"}]
Idle == [pc |-> "idle", op |-> "none", srv |-> NoServer,
         cid |-> FALSE, held |-> "none", to |-> "none"]

Findings == {"skip", "pending", "lookup", "unavailable", "unchanged",
             "up", "down", "gone"}

(* Every variable has its type: rows have a ServerStatus, requests are at a *)
(* step of a handler, reconciliation has one of reconcileRow's outcomes.    *)
TypeOK ==
  /\ row \in [Servers -> Row]
  /\ used \subseteq Servers
  /\ ctr \in [Servers -> ContainerState]
  /\ req \in [Requests -> Request]
  /\ late \subseteq Effects \X Servers
  /\ boot \in {"down", "inspecting", "writing", "serving"}
  /\ seen \in [Servers -> Findings]
  /\ snap \in [Servers -> Row]
  /\ allocatable \in Allocatables

Init ==
  /\ row = [s \in Servers |-> NoRow]
  /\ used = {}
  /\ ctr = [s \in Servers |-> "none"]
  /\ req = [p \in Requests |-> Idle]
  /\ late = {}
  /\ boot = "down"
  /\ seen = [s \in Servers |-> "skip"]
  /\ snap = [s \in Servers |-> NoRow]
  /\ allocatable \in Allocatables

-----------------------------------------------------------------------------
(* The Docker daemon, as DockerService presents it to ServersService.      *)

(* What a call does to a container once the daemon acts on it; 304 (already *)
(* started, already stopped) and a call on a missing container change       *)
(* nothing, and remove is not forced: it spares a running container.        *)
Effect(call, c) ==
  IF call = "create" /\ c = "none" THEN "stopped"
  ELSE IF call = "start" /\ c = "stopped" THEN "running"
  ELSE IF call = "stop" /\ c = "running" THEN "stopped"
  ELSE IF call = "remove" /\ c = "stopped" THEN "none"
  ELSE c

(* The status by which the daemon answers, "down" when it cannot be         *)
(* reached, does not answer in time or answers 502 to 504.                  *)
Statuses(call, c) ==
  {IF call \in {"create", "lookup"} THEN "done"
   ELSE IF c = "none" THEN "404"
   ELSE IF <<call, c>> \in {<<"start", "running">>, <<"stop", "stopped">>} THEN "304"
   ELSE IF <<call, c>> = <<"remove", "running">> THEN "409"
   ELSE "done"}
  \cup (IF call \in Rejects /\ ~(call = "stop" /\ c # "running") THEN {"500"} ELSE {})
  \cup (IF call \in Outages THEN {"down"} ELSE {})

(* handleDockerError: 404, 503, or one of the other exceptions. *)
HandleDockerError(status) ==
  CASE status = "404" -> "notFound" [] status = "down" -> "unavailable" [] OTHER -> "rejected"

(* createContainer, startContainer and stopContainer. *)
ChangeAnswer(status) == IF status \in {"done", "304"} THEN "ok" ELSE HandleDockerError(status)

(* removeContainer, for which a missing container is removed;               *)
(* findManagedContainer, which takes every error for an outage;             *)
(* inspectContainer.                                                        *)
LookAnswer(call, status) ==
  IF status = "done" \/ <<call, status>> = <<"remove", "404">> THEN "ok"
  ELSE IF call = "lookup" THEN "unavailable"
  ELSE HandleDockerError(status)

(* What DockerService makes of the daemon's answers. *)
Answers(call, c) ==
  {IF call \in {"create", "start", "stop"} THEN ChangeAnswer(st) ELSE LookAnswer(call, st) :
     st \in Statuses(call, c)}

Performed(call, s) == [ctr EXCEPT ![s] = Effect(call, @)]

(* One call of DockerService on server s and its answer.  An unanswered     *)
(* call has been carried out, will be carried out later, or never is.       *)
Docker(call, s, answer) ==
  /\ answer \in Answers(call, ctr[s])
  /\ \/ /\ answer = "ok"
        /\ ctr' = Performed(call, s)
        /\ UNCHANGED late
     \/ /\ answer = "unavailable"
        /\ IF "delay" \in Perils /\ call \in Effects
             THEN UNCHANGED ctr /\ late' = late \cup {<<call, s>>}
             ELSE ctr' \in {ctr, Performed(call, s)} /\ UNCHANGED late
     \/ /\ answer \in {"notFound", "rejected"}
        /\ UNCHANGED <<ctr, late>>

(* A call nobody waits for is carried out. *)
LateEffect(call, s) ==
  /\ <<call, s>> \in late
  /\ late' = late \ {<<call, s>>}
  /\ ctr' = Performed(call, s)
  /\ UNCHANGED <<row, used, req, boot, seen, snap, allocatable>>

(* A call nobody waits for never reached the daemon or was given up there. *)
LateDrop(call, s) ==
  /\ <<call, s>> \in late
  /\ late' = late \ {<<call, s>>}
  /\ UNCHANGED <<row, used, ctr, req, boot, seen, snap, allocatable>>

(* A container exits, is started by its restart policy or by an operator,   *)
(* or is removed by an operator.                                            *)
External(s, c) ==
  /\ "external" \in Perils
  /\ ctr[s] # "none" /\ c # ctr[s]
  /\ ctr' = [ctr EXCEPT ![s] = c]
  /\ UNCHANGED <<row, used, req, late, boot, seen, snap, allocatable>>

-----------------------------------------------------------------------------
(* Database statements and the control flow of a handler.                  *)

Exists(s) == row[s].status # "ABSENT"
SetStatus(s, st) == row' = [row EXCEPT ![s] = [@ EXCEPT !.status = st]]
DeleteRow(s) == row' = [row EXCEPT ![s] = NoRow]

(* Mutant: the WHERE clause forgets the expected status. *)
MatchesAnyStatus(r, from) == row[r.srv].linked = r.cid

(* The WHERE clause of transitionInTx: id, expected status, containerId. *)
Matches(r, from) ==
  row[r.srv].status = from /\ row[r.srv].linked = r.cid

Goto(p, step) == req' = [req EXCEPT ![p] = [@ EXCEPT !.pc = step]]
End(p) == req' = [req EXCEPT ![p] = Idle]

(* The catch blocks' next transition: from the status held to st. *)
SettleTo(p, st) ==
  req' = [req EXCEPT ![p] = [@ EXCEPT !.pc = "settle", !.to = st]]

(* An exception leaves the handler, except in the second half of a restart, *)
(* whose outer catch block runs first.                                      *)
Throw(p, held) ==
  IF req[p].op = "restart"
    THEN req' = [req EXCEPT ![p] =
                   [@ EXCEPT !.pc = "unwind", !.held = held, !.to = "none"]]
    ELSE End(p)

(* Mutant: the advisory lock is not taken. *)
NoLock == TRUE

(* pg_advisory_xact_lock(7332): held from the allocation query to the end   *)
(* of the transaction.                                                      *)
LockFree == \A q \in Requests : req[q].pc # "commit"

-----------------------------------------------------------------------------
(* The operations.  A request begins by loading the row and testing its    *)
(* status; a request that fails the test answers 404 or 409 and changes    *)
(* nothing, so only the requests that go on are modelled.                   *)

Begin(p, o, s, step, cid) ==
  /\ boot = "serving"
  /\ req[p].pc = "idle"
  /\ o \in Ops
  /\ req' = [req EXCEPT ![p] = [pc |-> step, op |-> o, srv |-> s,
                               cid |-> cid, held |-> "none", to |-> "none"]]
  /\ UNCHANGED <<row, used, ctr, late, boot, seen, snap, allocatable>>

CreateServer(p, s) ==
  /\ s \notin used /\ \A q \in Requests : req[q].srv # s
  /\ Begin(p, "create", s, "preflight", FALSE)

StartServer(p, s) ==
  /\ row[s].status = "STOPPED" /\ row[s].linked
  /\ Begin(p, "start", s, "preflight", TRUE)

StopServer(p, s) ==
  /\ row[s].status = "RUNNING" /\ row[s].linked
  /\ Begin(p, "stop", s, "claim", TRUE)

RestartServer(p, s) ==
  /\ row[s].status = "RUNNING" /\ row[s].linked
  /\ Begin(p, "restart", s, "claim", TRUE)

DeleteServer(p, s) ==
  /\ row[s].status = "STOPPED"
  /\ Begin(p, "delete", s, "claim", row[s].linked)

(* parseResourceConfig, getHostInfo, getHostDiskInfo and checkDisk. *)
Preflight(p, ok) ==
  /\ req[p].pc = "preflight"
  /\ IF ok THEN Goto(p, "admit") ELSE Throw(p, req[p].held)
  /\ UNCHANGED <<row, used, ctr, late, boot, seen, snap, allocatable>>

(* Mutant: rows in ERROR are taken for stopped ones. *)
CountedWithoutErrors(r) ==
  {t \in Servers : /\ Exists(t)
                   /\ r.op # "create" =>
                        t # r.srv /\ row[t].status \notin {"STOPPED", "ERROR"}}

(* getCurrentAllocationMb: a create counts every row, a start and a restart *)
(* the other rows that are not STOPPED.                                     *)
Counted(r) ==
  {t \in Servers : /\ Exists(t)
                   /\ r.op # "create" => t # r.srv /\ row[t].status # "STOPPED"}
Total(S) == MapThenSumSet(LAMBDA s : Mem[s], S)

(* checkMemoryAdmission: available is clamped at zero. *)
Admissible(r) ==
  LET current == Total(Counted(r))
      available == IF allocatable > current THEN allocatable - current ELSE 0
  IN  Mem[r.srv] <= available

(* Takes the advisory lock, reads the current allocation and admits or     *)
(* refuses; a refusal rolls back and so releases the lock.                  *)
Admit(p) ==
  /\ req[p].pc = "admit"
  /\ LockFree
  /\ IF Admissible(req[p]) THEN Goto(p, "commit") ELSE Throw(p, req[p].held)
  /\ UNCHANGED <<row, used, ctr, late, boot, seen, snap, allocatable>>

(* createServer's INSERT, still under the lock; a duplicate port fails it.  *)
InsertRow(p, ok) ==
  LET s == req[p].srv IN
  /\ req[p].pc = "commit" /\ req[p].op = "create"
  /\ IF ok
       THEN /\ row' = [row EXCEPT ![s] = [status |-> "CREATING", linked |-> FALSE]]
            /\ used' = used \cup {s}
            /\ req' = [req EXCEPT ![p] = [@ EXCEPT !.pc = "create", !.held = "CREATING"]]
       ELSE /\ End(p)
            /\ UNCHANGED <<row, used>>
  /\ UNCHANGED <<ctr, late, boot, seen, snap, allocatable>>

(* Mutant: the claim is an unconditional UPDATE. *)
ClaimStartBlindly(p) ==
  /\ req[p].pc = "commit" /\ req[p].op # "create"
  /\ SetStatus(req[p].srv, "STARTING")
  /\ req' = [req EXCEPT ![p] = [@ EXCEPT !.pc = "start", !.held = "STARTING"]]
  /\ UNCHANGED <<used, ctr, late, boot, seen, snap, allocatable>>

(* The compare-and-swap to STARTING, still under the lock. *)
ClaimStart(p) ==
  LET r == req[p]
      from == IF r.op = "restart" THEN "STOPPING" ELSE "STOPPED"
  IN
  /\ r.pc = "commit" /\ r.op # "create"
  /\ IF Matches(r, from)
       THEN /\ SetStatus(r.srv, "STARTING")
            /\ req' = [req EXCEPT ![p] = [@ EXCEPT !.pc = "start", !.held = "STARTING"]]
       ELSE /\ Throw(p, "none")
            /\ UNCHANGED row
  /\ UNCHANGED <<used, ctr, late, boot, seen, snap, allocatable>>

(* The compare-and-swap to STOPPING that begins a stop, restart or delete. *)
ClaimStopping(p) ==
  LET r == req[p]
      from == IF r.op = "delete" THEN "STOPPED" ELSE "RUNNING"
      then == IF r.op # "delete" THEN "say" ELSE IF r.cid THEN "remove" ELSE "erase"
  IN
  /\ r.pc = "claim"
  /\ IF Matches(r, from)
       THEN /\ SetStatus(r.srv, "STOPPING")
            /\ req' = [req EXCEPT ![p] = [@ EXCEPT !.pc = then, !.held = "STOPPING"]]
       ELSE /\ End(p)
            /\ UNCHANGED row
  /\ UNCHANGED <<used, ctr, late, boot, seen, snap, allocatable>>

-----------------------------------------------------------------------------
(* Daemon calls of a request.                                              *)

(* createContainer, after validateServerForCreate; any failure compensates. *)
CreateContainer(p, answer) ==
  /\ req[p].pc = "create"
  /\ Docker("create", req[p].srv, answer)
  /\ Goto(p, IF answer = "ok" THEN "attach" ELSE "lookup")
  /\ UNCHANGED <<row, used, boot, seen, snap, allocatable>>

(* Mutant: an unanswered start is taken for a failed one. *)
StartContainerOptimistic(p, answer) ==
  /\ req[p].pc = "start"
  /\ Docker("start", req[p].srv, answer)
  /\ SettleTo(p, CASE answer = "ok" -> "RUNNING"
                    [] req[p].op = "create" -> "ERROR"
                    [] OTHER -> "STOPPED")
  /\ UNCHANGED <<row, used, boot, seen, snap, allocatable>>

(* startContainer and the catch blocks around it. *)
StartContainer(p, answer) ==
  LET failed == IF req[p].op = "create" \/ answer = "unavailable"
                THEN "ERROR" ELSE "STOPPED" IN
  /\ req[p].pc = "start"
  /\ Docker("start", req[p].srv, answer)
  /\ SettleTo(p, IF answer = "ok" THEN "RUNNING" ELSE failed)
  /\ UNCHANGED <<row, used, boot, seen, snap, allocatable>>

(* How an exec of rcon-cli may go in a container: it is created and         *)
(* started, its output ends, fails or outlasts the deadline, and it is      *)
(* inspected.  None is created in a container that does not run.            *)
RconExecs(c) ==
  [created : IF c = "running" THEN BOOLEAN ELSE {FALSE}, started : BOOLEAN,
   output : {"end", "error", "abort"}, running : BOOLEAN, exitCode : {0, 1}]

(* executeRconCommand, for the commands of gracefulStopContainer, which     *)
(* validateRconCommand accepts.                                             *)
ExecuteRconCommand(exec) ==
  /\ exec.created /\ exec.started
  /\ exec.output = "end"
  /\ ~exec.running /\ exec.exitCode = 0

RconOutcomes(c) == {ExecuteRconCommand(exec) : exec \in RconExecs(c)}

(* gracefulStopContainer's say and save-all, each followed by a sleep.  Any *)
(* failure of this phase leads to the stop at once and nowhere else.        *)
WarnPlayers(p, ok) ==
  /\ req[p].pc \in {"say", "save"}
  /\ ok \in RconOutcomes(ctr[req[p].srv])
  /\ Goto(p, IF ok /\ req[p].pc = "say" THEN "save" ELSE "stop")
  /\ UNCHANGED <<row, used, ctr, late, boot, seen, snap, allocatable>>

(* gracefulStopContainer's stop: only its answer decides the outcome.  A    *)
(* restart goes on to its second half.                                      *)
StopContainer(p, answer) ==
  /\ req[p].pc = "stop"
  /\ Docker("stop", req[p].srv, answer)
  /\ \/ /\ answer = "ok" /\ req[p].op = "restart"
        /\ Goto(p, "preflight")
     \/ /\ ~(answer = "ok" /\ req[p].op = "restart")
        /\ SettleTo(p, CASE answer \in {"ok", "notFound"} -> "STOPPED"
                          [] answer = "unavailable" -> "ERROR"
                          [] OTHER -> "RUNNING")
  /\ UNCHANGED <<row, used, boot, seen, snap, allocatable>>

RemoveContainer(p, answer) ==
  /\ req[p].pc = "remove"
  /\ Docker("remove", req[p].srv, answer)
  /\ Goto(p, IF answer = "ok" THEN "erase" ELSE "inspect")
  /\ UNCHANGED <<row, used, boot, seen, snap, allocatable>>

(* Mutant: a failed lookup is taken for a confirmed absence. *)
LookupCreatedOptimistic(p, answer) ==
  /\ req[p].pc = "lookup"
  /\ Docker("lookup", req[p].srv, answer)
  /\ Goto(p, IF answer # "ok" \/ ctr[req[p].srv] = "none" THEN "discard" ELSE "adopt")
  /\ UNCHANGED <<row, used, boot, seen, snap, allocatable>>

(* compensateCreateFailure's findManagedContainer: every failure of the     *)
(* lookup counts as unavailable and leaves the CREATING row as it is.       *)
LookupCreated(p, answer) ==
  /\ req[p].pc = "lookup"
  /\ Docker("lookup", req[p].srv, answer)
  /\ \/ /\ answer # "ok"
        /\ End(p)
     \/ /\ answer = "ok"
        /\ Goto(p, IF ctr[req[p].srv] = "none" THEN "discard" ELSE "adopt")
  /\ UNCHANGED <<row, used, boot, seen, snap, allocatable>>

(* resolveDeleteRemoveFailure's inspectContainer. *)
InspectRemoved(p, answer) ==
  /\ req[p].pc = "inspect"
  /\ Docker("inspect", req[p].srv, answer)
  /\ CASE answer = "ok" /\ ctr[req[p].srv] = "stopped" -> Goto(p, "eraseStopped")
       [] answer = "notFound" -> Goto(p, "eraseAbsent")
       [] OTHER -> SettleTo(p, "ERROR")
  /\ UNCHANGED <<row, used, boot, seen, snap, allocatable>>

-----------------------------------------------------------------------------
(* The writes that end a request.                                          *)

(* claimContainerId; a lost claim is compensated like a failed create. *)
AttachContainer(p) ==
  LET r == req[p] IN
  /\ r.pc = "attach"
  /\ IF Matches(r, "CREATING")
       THEN /\ row' = [row EXCEPT ![r.srv] = [@ EXCEPT !.linked = TRUE]]
            /\ req' = [req EXCEPT ![p] = [@ EXCEPT !.pc = "start", !.cid = TRUE]]
       ELSE /\ Goto(p, "lookup")
            /\ UNCHANGED row
  /\ UNCHANGED <<used, ctr, late, boot, seen, snap, allocatable>>

(* compensateCreateFailure found the container: keep it, in ERROR. *)
AdoptContainer(p) ==
  LET s == req[p].srv IN
  /\ req[p].pc = "adopt"
  /\ row' = IF row[s].status = "CREATING"
            THEN [row EXCEPT ![s] = [status |-> "ERROR", linked |-> TRUE]] ELSE row
  /\ End(p)
  /\ UNCHANGED <<used, ctr, late, boot, seen, snap, allocatable>>

(* compensateCreateFailure found no container: delete the provisional row. *)
DiscardRow(p) ==
  LET s == req[p].srv IN
  /\ req[p].pc = "discard"
  /\ IF row[s].status = "CREATING" THEN DeleteRow(s) ELSE UNCHANGED row
  /\ End(p)
  /\ UNCHANGED <<used, ctr, late, boot, seen, snap, allocatable>>

(* DELETE ... WHERE status = 'STOPPING', first in resolveDeleteRemoveFailure *)
(* and, whatever it found, once more at the end of deleteServer.            *)
EraseRow(p) ==
  LET s == req[p].srv IN
  /\ req[p].pc \in {"eraseStopped", "eraseAbsent", "erase"}
  /\ IF row[s].status = "STOPPING" THEN DeleteRow(s) ELSE UNCHANGED row
  /\ IF req[p].pc = "erase" THEN End(p)
     ELSE req' = [req EXCEPT ![p] = [@ EXCEPT !.pc = "erase", !.held = "none"]]
  /\ UNCHANGED <<used, ctr, late, boot, seen, snap, allocatable>>

(* Mutant: a settling transition that misses is tried again. *)
SettleStubbornly(p) ==
  LET r == req[p] IN
  /\ r.pc = "settle"
  /\ IF Matches(r, r.held)
       THEN /\ SetStatus(r.srv, r.to)
            /\ IF r.held = "STARTING" /\ r.to # "RUNNING" THEN Throw(p, "none") ELSE End(p)
       ELSE UNCHANGED <<row, req>>
  /\ UNCHANGED <<used, ctr, late, boot, seen, snap, allocatable>>

(* The transition that settles a claim.  A start or restart that cannot     *)
(* finalize RUNNING tries ERROR; a failed start phase of a restart throws   *)
(* into its outer catch block.                                              *)
Settle(p) ==
  LET r == req[p]
      hit == Matches(r, r.held)
  IN
  /\ r.pc = "settle"
  /\ IF hit THEN SetStatus(r.srv, r.to) ELSE UNCHANGED row
  /\ CASE ~hit /\ r.held = "STARTING" /\ r.to = "RUNNING" -> SettleTo(p, "ERROR")
       [] r.held = "STARTING" /\ r.to # "RUNNING" -> Throw(p, "none")
       [] OTHER -> End(p)
  /\ UNCHANGED <<used, ctr, late, boot, seen, snap, allocatable>>

(* Mutant: restartServer without its outer catch block. *)
UnwindNothing(p) ==
  /\ req[p].pc = "unwind"
  /\ End(p)
  /\ UNCHANGED <<row, used, ctr, late, boot, seen, snap, allocatable>>

(* The outer catch block of restartServer: STOPPING to STOPPED, whatever    *)
(* the exception was.                                                       *)
Unwind(p) ==
  LET r == req[p] IN
  /\ r.pc = "unwind"
  /\ IF Matches(r, "STOPPING") THEN SetStatus(r.srv, "STOPPED") ELSE UNCHANGED row
  /\ End(p)
  /\ UNCHANGED <<used, ctr, late, boot, seen, snap, allocatable>>

(* A statement fails and the handler throws; the transaction, and with it   *)
(* the advisory lock, is rolled back.  Only two catch blocks go on: the     *)
(* outer one of restartServer and the one of resolveDeleteRemoveFailure.    *)
DbFailure(p) ==
  LET r == req[p] IN
  /\ "db" \in Perils
  /\ r.pc \in {"admit", "commit", "claim", "attach", "adopt", "discard", "settle",
               "eraseStopped", "eraseAbsent", "erase", "unwind"}
  /\ CASE r.pc \in {"admit", "commit"} -> Throw(p, r.held)
       [] r.pc = "settle" /\ r.held = "STARTING" -> Throw(p, r.held)
       [] r.pc = "eraseStopped" -> SettleTo(p, "ERROR")
       [] OTHER -> End(p)
  /\ UNCHANGED <<row, used, ctr, late, boot, seen, snap, allocatable>>

-----------------------------------------------------------------------------
(* Crash and boot.                                                         *)

(* onModuleInit's locals die with it. *)
ForgetBoot ==
  /\ seen' = [s \in Servers |-> "skip"]
  /\ snap' = [s \in Servers |-> NoRow]

(* The process dies; the daemon calls it was waiting for are left behind. *)
Crash ==
  /\ "crash" \in Perils
  /\ boot # "down"
  /\ boot' = "down"
  /\ late' = late \cup {<<req[p].pc, req[p].srv>> :
                          p \in {q \in Requests : req[q].pc \in Effects}}
  /\ req' = [p \in Requests |-> Idle]
  /\ ForgetBoot
  /\ UNCHANGED <<row, used, ctr, allocatable>>

(* Mutant: onModuleInit reads the transient and RUNNING rows only. *)
BootReadWithoutErrors ==
  /\ boot = "down"
  /\ "straggler" \notin Perils => late = {}
  /\ boot' = "inspecting"
  /\ snap' = row
  /\ seen' = [s \in Servers |->
                IF row[s].status \in {"ABSENT", "STOPPED", "ERROR"} THEN "skip"
                ELSE IF row[s].linked THEN "pending" ELSE "lookup"]
  /\ allocatable' \in Allocatables
  /\ UNCHANGED <<row, used, ctr, req, late>>

(* onModuleInit reads the rows that are not STOPPED. *)
BootRead ==
  /\ boot = "down"
  /\ "straggler" \notin Perils => late = {}
  /\ boot' = "inspecting"
  /\ snap' = row
  /\ seen' = [s \in Servers |->
                IF row[s].status \in {"ABSENT", "STOPPED"} THEN "skip"
                ELSE IF row[s].linked THEN "pending" ELSE "lookup"]
  /\ allocatable' \in Allocatables
  /\ UNCHANGED <<row, used, ctr, req, late>>

(* Mutant: the daemon's own word for the state is kept. *)
FoundRaw(c) == c

(* What reconcileRow makes of an inspected container. *)
Found(c) == IF c = "running" THEN "up" ELSE "down"

(* reconcileRow inspects the row's container. *)
BootInspect(s, answer) ==
  /\ boot = "inspecting" /\ seen[s] = "pending"
  /\ Docker("inspect", s, answer)
  /\ seen' = [seen EXCEPT ![s] = CASE answer = "ok" -> Found(ctr[s])
                                  [] answer = "unavailable" -> "unavailable"
                                  [] answer = "notFound" -> "lookup"
                                  [] OTHER -> "unchanged"]
  /\ UNCHANGED <<row, used, req, boot, snap, allocatable>>

(* reconcileRow looks the container up by its label. *)
BootLookup(s, answer) ==
  /\ boot = "inspecting" /\ seen[s] = "lookup"
  /\ Docker("lookup", s, answer)
  /\ seen' = [seen EXCEPT ![s] = CASE answer # "ok" -> "unavailable"
                                  [] answer = "ok" /\ ctr[s] = "none" -> "gone"
                                  [] OTHER -> Found(ctr[s])]
  /\ UNCHANGED <<row, used, req, boot, snap, allocatable>>

(* One unavailable outcome anywhere, and no row is written. *)
BootDecide ==
  /\ boot = "inspecting"
  /\ \A s \in Servers : seen[s] \notin {"pending", "lookup"}
  /\ IF \E s \in Servers : seen[s] = "unavailable"
       THEN boot' = "serving" /\ ForgetBoot
       ELSE boot' = "writing" /\ UNCHANGED <<seen, snap>>
  /\ UNCHANGED <<row, used, ctr, req, late, allocatable>>

(* The reconciliation write: a compare-and-swap on the row as it was read. *)
BootWrite(s) ==
  /\ boot = "writing" /\ seen[s] \in {"up", "down", "gone"}
  /\ row' = IF row[s] = snap[s]
            THEN [row EXCEPT ![s] =
                    [status |-> IF seen[s] = "up" THEN "RUNNING" ELSE "STOPPED",
                     linked |-> seen[s] # "gone"]]
            ELSE row
  /\ seen' = [seen EXCEPT ![s] = "skip"]
  /\ UNCHANGED <<used, ctr, req, late, boot, snap, allocatable>>

BootDone ==
  /\ boot = "writing"
  /\ \A s \in Servers : seen[s] \in {"skip", "unchanged"}
  /\ boot' = "serving"
  /\ ForgetBoot
  /\ UNCHANGED <<row, used, ctr, req, late, allocatable>>

-----------------------------------------------------------------------------
DaemonAnswers == {"ok", "notFound", "rejected", "unavailable"}

Arrival(p) ==
  \E s \in Servers :
    \/ CreateServer(p, s) \/ StartServer(p, s) \/ StopServer(p, s)
    \/ RestartServer(p, s) \/ DeleteServer(p, s)

Advance(p) ==
  \/ \E ok \in BOOLEAN : Preflight(p, ok) \/ InsertRow(p, ok) \/ WarnPlayers(p, ok)
  \/ Admit(p) \/ ClaimStart(p) \/ ClaimStopping(p)
  \/ \E a \in DaemonAnswers :
       \/ CreateContainer(p, a) \/ StartContainer(p, a) \/ StopContainer(p, a)
       \/ RemoveContainer(p, a) \/ LookupCreated(p, a) \/ InspectRemoved(p, a)
  \/ AttachContainer(p) \/ AdoptContainer(p) \/ DiscardRow(p)
  \/ EraseRow(p) \/ Settle(p)

HandlerStep(p) == Advance(p) \/ Unwind(p)

BootStep ==
  \/ BootRead \/ BootDecide \/ BootDone
  \/ \E s \in Servers :
       \/ BootWrite(s)
       \/ \E a \in DaemonAnswers : BootInspect(s, a) \/ BootLookup(s, a)

Environment ==
  \/ Crash
  \/ \E p \in Requests : DbFailure(p)
  \/ \E s \in Servers :
       \/ \E c \in ContainerState : External(s, c)
       \/ \E call \in Effects : LateEffect(call, s) \/ LateDrop(call, s)

Next ==
  \/ \E p \in Requests : Arrival(p) \/ HandlerStep(p)
  \/ BootStep
  \/ Environment

Spec == Init /\ [][Next]_vars

(* A restart whose start phase has failed has already settled its row; when *)
(* its outer catch block finds the row in STOPPING again, that is the claim *)
(* of another request.  The behaviours in which it then leaves it alone.    *)
OrderlyUnwind(p) == Unwind(p) /\ (row' # row => req[p].held # "none")
OrderlyStep(p) == Advance(p) \/ OrderlyUnwind(p)
OrderlyNext ==
  \/ \E p \in Requests : Arrival(p) \/ OrderlyStep(p)
  \/ BootStep
  \/ Environment

OrderlySpec == Init /\ [][OrderlyNext]_vars

(* Every await of a handler ends: daemon calls have a timeout, the waits of *)
(* the RCON phase are bounded, statements return.  PostgreSQL queues the    *)
(* waiters of an advisory lock, so a waiter that finds the lock free again  *)
(* and again gets it.  An abandoned daemon call is carried out or dropped.  *)
Fairness ==
  /\ \A p \in Requests : WF_vars(HandlerStep(p)) /\ SF_vars(Admit(p))
  /\ WF_vars(BootStep)
  /\ \A s \in Servers, call \in Effects :
       WF_vars(LateEffect(call, s) \/ LateDrop(call, s))

FairSpec == Spec /\ Fairness

-----------------------------------------------------------------------------
(* Properties.                                                             *)

(* A request that has claimed a row keeps it until it settles it: the row   *)
(* has the status and the containerId under which the request claimed it.   *)
(* So no finalizing compare-and-swap of servers.service.ts misses ("Failed  *)
(* to finalize ... state" is never answered) and Docker is only called on a *)
(* server whose row announces the operation.                                *)
ClaimHeld ==
  \A p \in Requests : LET r == req[p] IN
    r.held # "none" => Exists(r.srv) /\ Matches(r, r.held)

(* No two requests own the same server: of the concurrent operations on a   *)
(* server that pass their status test at most one gets past its             *)
(* compare-and-swap until that one has settled.                             *)
OneOwner ==
  \A p, q \in Requests :
    /\ p # q /\ req[p].held # "none" /\ req[q].held # "none"
    => req[p].srv # req[q].srv

(* The settled statuses are truthful: a STOPPED row has no running          *)
(* container, a RUNNING row has a running container and its id, whatever    *)
(* sequence of refused, unanswered and late daemon calls, failed statements *)
(* and crashes came before.                                                 *)
StatusTruthful ==
  \A s \in Servers :
    /\ row[s].status = "STOPPED" => ctr[s] # "running"
    /\ row[s].status = "RUNNING" => ctr[s] = "running" /\ row[s].linked

Untracked(s) == ctr[s] # "none" /\ ~Exists(s)

(* The panel loses track of a container in three ways only: a create that   *)
(* its caller has given up on is carried out after compensateCreateFailure  *)
(* has deleted the row, or between its lookup, which truly found nothing,   *)
(* and that deletion; or deleteServer erases the row of a container that it *)
(* could not remove and has found stopped.  No other sequence of refused or *)
(* unanswered calls, failed statements and crashes leaves a container       *)
(* without a row.                                                           *)
LosesTrackKnowingly ==
  [][/\ \A s \in Servers :
          ~Untracked(s) /\ Untracked(s)' =>
            \/ <<"create", s>> \in late \ late'
            \/ \E p \in Requests : req[p].srv = s /\ req[p].pc \in {"discard", "eraseStopped"}
     /\ \A p \in Requests :
          req[p].pc = "lookup" /\ req'[p].pc = "discard" => ctr[req[p].srv] = "none"]_vars

(* Admission of a start: at the moment a row becomes STARTING its memory    *)
(* and that of all other running containers fit in what may be allocated,   *)
(* although allocation is summed over rows, not over containers, and stops, *)
(* deletes and other starts go on at the same time.                         *)
StartFitsHost ==
  [][\A s \in Servers :
       row[s].status # "STARTING" /\ row'[s].status = "STARTING" =>
         Total({s} \cup {t \in Servers : ctr[t] = "running"}) <= allocatable]_vars

(* Admission of a create: right after an insert all existing rows together  *)
(* fit in what may be allocated, however many creates run at the same time. *)
CreateFitsHost ==
  [][used' # used =>
       Total({t \in Servers : row'[t].status # "ABSENT"}) <= allocatable]_vars

(* A reconciliation in which every container could be inspected leaves no   *)
(* row in a transient status or in ERROR: all claims of the crashed process *)
(* are settled before the first request is served.                          *)
BootSettles ==
  [][boot = "writing" /\ boot' = "serving" =>
       \A s \in Servers :
         seen[s] # "unchanged" => row[s].status \in {"ABSENT", "RUNNING", "STOPPED"}]_vars

(* The outer catch block of restartServer settles truthfully: when it moves *)
(* a row from STOPPING to STOPPED the container is not running.             *)
UnwindTruthful ==
  [][\A p \in Requests :
       req[p].pc = "unwind" /\ req'[p].pc # "unwind" /\ row' # row =>
         ctr[req[p].srv] # "running"]_vars

(* A server whose row deleteServer erases has no container any more. *)
DeleteRemovesContainer ==
  [][\A s \in Servers :
       row[s].status = "STOPPING" /\ row'[s].status = "ABSENT" => ctr[s] = "none"]_vars

(* Every request in flight comes to an end or dies with the process. *)
RequestsEnd == \A p \in Requests : req[p].pc # "idle" ~> req[p].pc = "idle"

(* A server does not stay in STARTING or STOPPING. *)
ClaimsSettle ==
  \A s \in Servers : row[s].status \in {"STARTING", "STOPPING"} ~>
                     row[s].status \notin {"STARTING", "STOPPING"}
=============================================================================
