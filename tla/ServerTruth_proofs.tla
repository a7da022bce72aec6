-------------------------- MODULE ServerTruth_proofs --------------------------
(***************************************************************************)
(* Proofs about ServerLifecycle, continued: the settled statuses tell the  *)
(* truth about the containers, reconciliation settles every row, and the   *)
(* containers that run fit in the memory of the host, for every number of  *)
(* servers and requests.                                                   *)
(***************************************************************************)
EXTENDS ServerLifecycle_proofs

-----------------------------------------------------------------------------
(* The invariant.  StatusTruthful is inductive together with what each      *)
(* request and the reconciliation know about the container, and with the    *)
(* fact that a call without a caller can only reach a container whose row   *)
(* vouches for nothing.                                                     *)

(* The statuses that the panel vouches for. *)
Settled == {"RUNNING", "STOPPED"}

(* No daemon call on s is on its way without a caller. *)
Undisturbed(s) == \A call \in Effects : <<call, s>> \notin late

(* The steps at which a request relies on the container being up, ... *)
ReliesUp(r) ==
  \/ r.pc \in {"say", "save", "stop"}
  \/ r.pc = "settle" /\ r.to = "RUNNING"

(* ... on its being down, ... *)
ReliesDown(r) ==
  \/ r.pc \in {"preflight", "admit", "commit"} /\ r.held = "STOPPING"
  \/ r.pc = "unwind" /\ r.held = "STOPPING"
  \/ r.pc = "start" /\ r.held = "STARTING"
  \/ r.pc = "settle" /\ r.to = "STOPPED"

(* ... and on no other call reaching it. *)
ReliesAlone(r) == ReliesUp(r) \/ ReliesDown(r) \/ r.pc \in {"create", "attach", "start"}

Informed(r) ==
  /\ ReliesUp(r) => ctr[r.srv] = "running" /\ r.cid
  /\ ReliesDown(r) => ctr[r.srv] # "running"
  /\ ReliesAlone(r) => Undisturbed(r.srv)
  /\ r.pc = "start" => r.cid
  /\ r.op \in {"start", "stop", "restart"} => r.cid

AllInformed == \A p \in Requests : Informed(req[p])

LateDisowned ==
  \A s \in Servers : row[s].status \in Settled \/ s \notin used => Undisturbed(s)

(* Reconciliation meets no call that is still on its way, and what it has   *)
(* found out stays true until it has written it.                            *)
BootInformed ==
  boot \in {"inspecting", "writing"} =>
    /\ late = {}
    /\ \A s \in Servers : /\ seen[s] = "up" => ctr[s] = "running"
                          /\ seen[s] \in {"down", "gone"} => ctr[s] # "running"

TruthInv == ClaimInv /\ StatusTruthful /\ AllInformed /\ LateDisowned /\ BootInformed

(* What reconciliation has still to write it read as it is, and what it     *)
(* will not write needs no settling.                                        *)
BootRows ==
  boot \in {"inspecting", "writing"} =>
    \A s \in Servers :
      IF seen[s] = "skip" THEN row[s].status \in Settled \cup {"ABSENT"} ELSE row[s] = snap[s]

-----------------------------------------------------------------------------
(* What a step of request p that becomes r leaves true of its server. *)
Kept(p, r) ==
  LET s == req[p].srv IN
  /\ \A t \in Servers : t # s => ctr'[t] = ctr[t]
  /\ \A t \in Servers, call \in Effects :
       <<call, t>> \in late' => <<call, t>> \in late \/ (t = s /\ req[p].held # "none")
  /\ ctr'[s] # ctr[s] => req[p].held # "none"
  /\ row'[s].status = "RUNNING" => ctr'[s] = "running" /\ row'[s].linked
  /\ row'[s].status = "STOPPED" => ctr'[s] # "running"
  /\ row'[s].status \in Settled \/ s \notin used' =>
       \A call \in Effects : <<call, s>> \notin late'
  /\ Informed(r)'

(* A request that relies on something holds its row. *)
LEMMA RelyingHolds ==
  ASSUME NEW r, Shaped(r), ReliesAlone(r)
  PROVE  r.held # "none" /\ r.pc # "idle"
<1>1. r.pc \in {"create", "attach", "start", "say", "save", "stop", "settle"} => r.held # "none"
  BY DEF Shaped
<1>2. QED
  BY <1>1 DEF ReliesAlone, ReliesUp, ReliesDown

LEMMA KeptTruth ==
  ASSUME TruthInv, ClaimInv', NEW p \in Requests, req[p].pc # "idle",
         NEW r, Harmless(p, r), Kept(p, r)
  PROVE  TruthInv'
<1> DEFINE s == req[p].srv
<1>1. /\ s \in Servers /\ req \in [Requests -> Request] /\ boot = "serving"
      /\ \A q \in Requests : req[q].pc # "idle" => req[q].srv \in Servers
  BY DEF TruthInv, ClaimInv, TypeInv, TypeOK, Located, Quiet
<1>2. /\ req'[p] = r /\ \A q \in Requests : q # p => req'[q] = req[q]
      /\ \A t \in Servers : t # s => row'[t] = row[t]
      /\ boot' = "serving"
      /\ used \subseteq used' /\ used' \subseteq used \cup {s}
  BY <1>1 DEF Harmless
<1>3. StatusTruthful'
  BY <1>1, <1>2 DEF Kept, TruthInv, StatusTruthful
<1>4. LateDisowned'
  BY <1>1, <1>2 DEF Kept, TruthInv, LateDisowned, Undisturbed
<1>5. ASSUME NEW q \in Requests, q # p
      PROVE  Informed(req[q])'
  <2>1. Informed(req[q]) /\ Shaped(req[q])
    BY DEF TruthInv, AllInformed, ClaimInv, AllShaped
  <2>2. PICK x : x = req[q]
    OBVIOUS
  <2>3. CASE ~ReliesAlone(x)
    BY <1>2, <1>5, <2>1, <2>2, <2>3, SMTT(30) DEF Informed, ReliesAlone, ReliesUp, ReliesDown
  <2>4. CASE ReliesAlone(x)
    <3>1. x.held # "none" /\ x.srv \in Servers
      BY <1>1, <2>1, <2>2, <2>4, RelyingHolds
    <3>2. req[p].held # "none" => x.srv # s
      BY <1>5, <2>2, <3>1 DEF TruthInv, ClaimInv, OneOwner
    <3>3. ctr'[x.srv] = ctr[x.srv]
      BY <3>1, <3>2 DEF Kept
    <3>4. Undisturbed(x.srv) => Undisturbed(x.srv)'
      BY <3>1, <3>2 DEF Kept, Undisturbed
    <3>5. Informed(x)'
      BY <2>1, <2>2, <2>4, <3>3, <3>4, SMTT(30) DEF Informed, ReliesUp, ReliesDown, ReliesAlone
    <3>6. req'[q] = x
      BY <1>2, <1>5, <2>2
    <3>7. QED
      BY <3>5, <3>6 DEF Informed, ReliesUp, ReliesDown, ReliesAlone, Undisturbed
  <2>5. QED
    BY <2>3, <2>4
<1>6. Informed(req[p])'
  BY <1>2 DEF Kept, Informed, ReliesUp, ReliesDown, ReliesAlone, Undisturbed
<1>7. AllInformed'
  BY <1>5, <1>6 DEF AllInformed
<1>8. BootInformed'
  BY <1>2 DEF BootInformed
<1>9. QED
  BY <1>3, <1>4, <1>7, <1>8 DEF TruthInv

(* What the invariant tells request p about its server. *)
LEMMA Knowledge ==
  ASSUME TruthInv, NEW p \in Requests, req[p].pc # "idle"
  PROVE  LET s == req[p].srv IN
         /\ Standing(p) /\ Informed(req[p])
         /\ row[s].status = "RUNNING" => ctr[s] = "running" /\ row[s].linked
         /\ row[s].status = "STOPPED" => ctr[s] # "running"
         /\ row[s].status \in Settled \/ s \notin used => Undisturbed(s)
         /\ ctr \in [Servers -> ContainerState] /\ s \in Servers
         /\ req[p] \in Request /\ row \in [Servers -> Row]
<1>1. Standing(p)
  BY StandingHolds DEF TruthInv
<1>2. QED
  BY <1>1 DEF Standing, TruthInv, AllInformed, StatusTruthful, LateDisowned, ClaimInv, TypeInv,
              TypeOK

LEMMA IdleInformed == Informed(Idle) /\ Informed(Idle)'
BY DEF Informed, ReliesUp, ReliesDown, ReliesAlone, Idle

(* A step that touches neither containers nor the table. *)
LEMMA QuietKept ==
  ASSUME TruthInv, NEW p \in Requests, req[p].pc # "idle", UNCHANGED <<row, used, ctr, late>>,
         NEW r, Informed(r)
  PROVE  Kept(p, r)
<1>1. row' = row /\ used' = used /\ ctr' = ctr /\ late' = late
  OBVIOUS
<1>2. Informed(r)'
  BY <1>1 DEF Informed, Undisturbed
<1>3. QED
  BY <1>1, <1>2, Knowledge DEF Kept, Undisturbed

(* A step that writes the row of the server and touches no container. *)
LEMMA WriteKept ==
  ASSUME TruthInv, NEW p \in Requests, req[p].pc # "idle", UNCHANGED <<ctr, late>>,
         NEW r, Informed(r),
         LET s == req[p].srv IN
           /\ row'[s].status = "RUNNING" => ctr[s] = "running" /\ row'[s].linked
           /\ row'[s].status = "STOPPED" => ctr[s] # "running"
           /\ row'[s].status \in Settled \/ s \notin used' => Undisturbed(s)
  PROVE  Kept(p, r)
<1>1. ctr' = ctr /\ late' = late
  OBVIOUS
<1>2. Informed(r)'
  BY <1>1 DEF Informed, Undisturbed
<1>3. QED
  BY <1>1, <1>2 DEF Kept, Undisturbed

(* A daemon call of a request that holds its row. *)
LEMMA DockerKept ==
  ASSUME TruthInv, NEW p \in Requests, req[p].pc # "idle", req[p].held # "none",
         UNCHANGED <<row, used>>, NEW call \in Calls, NEW a, Docker(call, req[p].srv, a),
         NEW r, Informed(r)'
  PROVE  Kept(p, r)
<1> DEFINE s == req[p].srv
<1>1. /\ s \in Servers /\ row[s].status = req[p].held /\ req[p].held \in Transient
      /\ s \in used
  BY Knowledge DEF Standing, Request, Row, Transient
<1>2. row[s].status \notin Settled /\ row[s].status # "RUNNING" /\ row[s].status # "STOPPED"
  BY <1>1 DEF Transient, Settled
<1>3. /\ \A t \in Servers : t # s => ctr'[t] = ctr[t]
      /\ late' \subseteq late \cup {<<call, s>>}
  BY <1>1, DockerFacts DEF TruthInv, ClaimInv
<1>4. QED
  BY <1>1, <1>2, <1>3 DEF Kept

-----------------------------------------------------------------------------
(* The steps of a handler.                                                 *)

(* The moves that touch neither containers nor the table. *)
LEMMA QuietMovesKept ==
  ASSUME TruthInv, NEW p \in Requests, req[p].pc # "idle", UNCHANGED <<row, used, ctr, late>>,
         NEW r, Harmless(p, r),
         \/ End(p)
         \/ \E h \in {req[p].held, "none"} :
              /\ Throw(p, h)
              /\ h = "STOPPING" => req[p].pc \in {"preflight", "admit", "commit"}
         \/ SettleTo(p, "ERROR")
         \/ \E step \in Steps : Goto(p, step) /\ Informed([req[p] EXCEPT !.pc = step])
  PROVE  Kept(p, r)
<1> DEFINE r0 == req[p]
<1>1. ClaimInv /\ r0 \in Request /\ Informed(r0)
  BY Knowledge DEF TruthInv
<1>2. CASE End(p)
  <2>1. r = Idle
    BY <1>1, <1>2, OneTurn, Zenon DEF End
  <2>2. Informed(r)
    BY <2>1, IdleInformed
  <2>3. QED
    BY <2>2, QuietKept
<1>3. ASSUME NEW h \in {r0.held, "none"}, r0.op = "restart",
             h = "STOPPING" => r0.pc \in {"preflight", "admit", "commit"},
             req' = [req EXCEPT ![p] = [r0 EXCEPT !.pc = "unwind", !.held = h, !.to = "none"]]
      PROVE  Kept(p, r)
  <2>1. r = [r0 EXCEPT !.pc = "unwind", !.held = h, !.to = "none"]
    BY <1>1, <1>3, OneTurn, Zenon
  <2>2. r.pc = "unwind" /\ r.held = h /\ r.srv = r0.srv /\ r.cid = r0.cid
    BY <1>1, <2>1 DEF Request
  <2>3. Informed(r)
    BY <1>1, <1>3, <2>2 DEF Informed, ReliesUp, ReliesDown, ReliesAlone
  <2>4. QED
    BY <2>3, QuietKept
<1>4. CASE SettleTo(p, "ERROR")
  <2>1. r = [r0 EXCEPT !.pc = "settle", !.to = "ERROR"]
    BY <1>1, <1>4, OneTurn, Zenon DEF SettleTo
  <2>2. /\ r.pc = "settle" /\ r.to = "ERROR" /\ r.srv = r0.srv /\ r.cid = r0.cid
        /\ r.op = r0.op
    BY <1>1, <2>1 DEF Request
  <2>3. Informed(r)
    BY <1>1, <2>2 DEF Informed, ReliesUp, ReliesDown, ReliesAlone
  <2>4. QED
    BY <2>3, QuietKept
<1>5. ASSUME NEW step \in Steps, Goto(p, step), Informed([r0 EXCEPT !.pc = step])
      PROVE  Kept(p, r)
  <2>1. r = [r0 EXCEPT !.pc = step]
    BY <1>1, <1>5, OneTurn, Zenon DEF Goto
  <2>2. QED
    BY <1>5, <2>1, QuietKept
<1>6. ASSUME NEW h \in {r0.held, "none"}, Throw(p, h),
             h = "STOPPING" => r0.pc \in {"preflight", "admit", "commit"}
      PROVE  Kept(p, r)
  <2>1. CASE r0.op = "restart"
    <3>1. req' = [req EXCEPT ![p] = [r0 EXCEPT !.pc = "unwind", !.held = h, !.to = "none"]]
      BY <1>6, <2>1 DEF Throw
    <3>2. QED
      BY <1>3, <1>6, <2>1, <3>1, Zenon
  <2>2. CASE r0.op # "restart"
    BY <1>2, <1>6, <2>2 DEF Throw
  <2>3. QED
    BY <2>1, <2>2
<1>7. QED
  BY <1>2, <1>4, <1>5, <1>6, Zenon

LEMMA AdmissionKept ==
  ASSUME TruthInv, NEW p \in Requests, req[p].pc # "idle", NEW r, Harmless(p, r),
         \/ \E ok \in BOOLEAN : Preflight(p, ok) \/ InsertRow(p, ok) \/ WarnPlayers(p, ok)
         \/ Admit(p) \/ ClaimStart(p) \/ ClaimStopping(p)
  PROVE  Kept(p, r)
<1> DEFINE r0 == req[p]
           s == req[p].srv
<1>1. /\ ClaimInv /\ r0 \in Request /\ Informed(r0) /\ Shaped(r0) /\ Standing(p)
      /\ s \in Servers /\ row \in [Servers -> Row]
  BY Knowledge, Zenon DEF Standing, TruthInv
<1>2. ASSUME NEW step \in {"admit", "commit"}, r0.pc \in {"preflight", "admit"}
      PROVE  Informed([r0 EXCEPT !.pc = step]) /\ step \in Steps
  BY <1>1, <1>2 DEF Informed, ReliesUp, ReliesDown, ReliesAlone, Request, Steps
<1>3. ASSUME NEW step \in {"save", "stop"}, r0.pc \in {"say", "save"}
      PROVE  Informed([r0 EXCEPT !.pc = step]) /\ step \in Steps
  BY <1>1, <1>3 DEF Informed, ReliesUp, ReliesDown, ReliesAlone, Request, Steps, Effects
<1>4. ASSUME NEW ok \in BOOLEAN, Preflight(p, ok)
      PROVE  Kept(p, r)
  BY <1>2, <1>4, QuietMovesKept DEF Preflight
<1>5. CASE Admit(p)
  BY <1>2, <1>5, QuietMovesKept DEF Admit
<1>6. ASSUME NEW ok \in BOOLEAN, WarnPlayers(p, ok)
      PROVE  Kept(p, r)
  BY <1>3, <1>6, QuietMovesKept DEF WarnPlayers
<1>7. ASSUME NEW ok \in BOOLEAN, InsertRow(p, ok)
      PROVE  Kept(p, r)
  <2>1. CASE ~ok
    BY <1>7, <2>1, QuietMovesKept DEF InsertRow
  <2>2. CASE ok
    <3>1. r = [r0 EXCEPT !.pc = "create", !.held = "CREATING"]
      BY <1>1, <1>7, <2>2, OneTurn DEF InsertRow
    <3>2. r.pc = "create" /\ r.srv = s /\ r.op = "create" /\ r0.held = "none"
      BY <1>1, <1>7, <3>1 DEF Request, InsertRow, Shaped
    <3>3. Undisturbed(s)
      BY <1>1, <1>7, <3>2, Knowledge, Zenon DEF Standing, Drawn, InsertRow
    <3>4. Informed(r)
      BY <3>2, <3>3 DEF Informed, ReliesUp, ReliesDown, ReliesAlone
    <3>5. row'[s].status = "CREATING" /\ UNCHANGED <<ctr, late>>
      BY <1>1, <1>7, <2>2 DEF InsertRow
    <3>6. QED
      BY <3>3, <3>4, <3>5, WriteKept DEF Settled
  <2>3. QED
    BY <2>1, <2>2
<1>8. CASE ClaimStart(p)
  <2> DEFINE from == IF r0.op = "restart" THEN "STOPPING" ELSE "STOPPED"
  <2>1. CASE ~Matches(r0, from)
    BY <1>8, <2>1, QuietMovesKept DEF ClaimStart
  <2>2. CASE Matches(r0, from)
    <3>1. r = [r0 EXCEPT !.pc = "start", !.held = "STARTING"]
      BY <1>1, <1>8, <2>2, OneTurn DEF ClaimStart
    <3>2. /\ r.pc = "start" /\ r.srv = s /\ r.op = r0.op /\ r.cid = r0.cid
          /\ r0.op \in {"start", "restart"} /\ r0.pc = "commit"
          /\ r0.op = "restart" => r0.held = "STOPPING"
      BY <1>1, <1>8, <3>1 DEF Request, ClaimStart, Shaped
    <3>3. ctr[s] # "running" /\ Undisturbed(s)
      <4>1. CASE r0.op = "restart"
        BY <1>1, <3>2, <4>1 DEF Informed, ReliesDown, ReliesAlone
      <4>2. CASE r0.op = "start"
        BY <1>1, <2>2, <4>2, Knowledge DEF Matches, Settled
      <4>3. QED
        BY <3>2, <4>1, <4>2
    <3>4. Informed(r)
      BY <1>1, <3>2, <3>3 DEF Informed, ReliesUp, ReliesDown, ReliesAlone
    <3>5. row'[s].status = "STARTING" /\ UNCHANGED <<ctr, late>>
      BY <1>1, <1>8, <2>2 DEF ClaimStart, SetStatus, Row
    <3>6. QED
      BY <3>3, <3>4, <3>5, WriteKept DEF Settled
  <2>3. QED
    BY <2>1, <2>2
<1>9. CASE ClaimStopping(p)
  <2> DEFINE from == IF r0.op = "delete" THEN "STOPPED" ELSE "RUNNING"
             then == IF r0.op # "delete" THEN "say" ELSE IF r0.cid THEN "remove" ELSE "erase"
  <2>1. CASE ~Matches(r0, from)
    BY <1>9, <2>1, QuietMovesKept DEF ClaimStopping
  <2>2. CASE Matches(r0, from)
    <3>1. r = [r0 EXCEPT !.pc = then, !.held = "STOPPING"]
      BY <1>1, <1>9, <2>2, OneTurn DEF ClaimStopping
    <3>2. /\ r.pc = then /\ r.srv = s /\ r.op = r0.op /\ r.cid = r0.cid
          /\ r0.op \in {"stop", "restart", "delete"}
      BY <1>1, <1>9, <3>1 DEF Request, ClaimStopping, Shaped
    <3>3. Undisturbed(s) /\ (r0.op # "delete" => ctr[s] = "running")
      BY <1>1, <2>2, Knowledge, Zenon DEF Matches, Settled
    <3>4. Informed(r)
      BY <1>1, <3>2, <3>3 DEF Informed, ReliesUp, ReliesDown, ReliesAlone
    <3>5. row'[s].status = "STOPPING" /\ UNCHANGED <<ctr, late>>
      BY <1>1, <1>9, <2>2 DEF ClaimStopping, SetStatus, Row
    <3>6. QED
      BY <3>3, <3>4, <3>5, WriteKept DEF Settled
  <2>3. QED
    BY <2>1, <2>2
<1>10. QED
  BY <1>4, <1>5, <1>6, <1>7, <1>8, <1>9

LEMMA DaemonKept ==
  ASSUME TruthInv, NEW p \in Requests, req[p].pc # "idle", NEW r, Harmless(p, r),
         NEW a \in DaemonAnswers,
         \/ CreateContainer(p, a) \/ StartContainer(p, a) \/ StopContainer(p, a)
         \/ RemoveContainer(p, a) \/ LookupCreated(p, a) \/ InspectRemoved(p, a)
  PROVE  Kept(p, r)
<1> DEFINE r0 == req[p]
           s == req[p].srv
<1>1. /\ ClaimInv /\ TypeInv /\ r0 \in Request /\ Informed(r0) /\ Shaped(r0) /\ s \in Servers
  BY Knowledge, Zenon DEF Standing, TruthInv, ClaimInv
<1>2. UNCHANGED <<row, used>>
  BY DEF CreateContainer, StartContainer, StopContainer, RemoveContainer, LookupCreated,
         InspectRemoved
<1>3. ASSUME NEW call \in Calls, Docker(call, s, a), r0.held # "none", Informed(r)'
      PROVE  Kept(p, r)
  BY <1>2, <1>3, DockerKept
<1>4. ASSUME NEW step \in Steps, Goto(p, step)
      PROVE  r.pc = step /\ r.srv = s /\ r.op = r0.op /\ r.cid = r0.cid /\ r.held = r0.held
  <2>1. r = [r0 EXCEPT !.pc = step]
    BY <1>1, <1>4, OneTurn, Zenon DEF Goto
  <2>2. QED
    BY <1>1, <2>1 DEF Request
<1>5. ASSUME NEW st \in Status, SettleTo(p, st)
      PROVE  /\ r.pc = "settle" /\ r.to = st
             /\ r.srv = s /\ r.op = r0.op /\ r.cid = r0.cid /\ r.held = r0.held
  <2>1. r = [r0 EXCEPT !.pc = "settle", !.to = st]
    BY <1>1, <1>5, OneTurn, Zenon DEF SettleTo
  <2>2. QED
    BY <1>1, <2>1 DEF Request
<1>6. CASE CreateContainer(p, a)
  <2>1. Docker("create", s, a) /\ r0.pc = "create" /\ r0.held # "none" /\ r0.op = "create"
    BY <1>1, <1>6, Zenon DEF CreateContainer, Shaped
  <2>2. /\ r.pc = IF a = "ok" THEN "attach" ELSE "lookup"
        /\ r.srv = s /\ r.op = "create"
    BY <1>4, <1>6, <2>1 DEF CreateContainer, Steps
  <2>3. a = "ok" => late' = late
    BY <1>1, <2>1, DockerFacts DEF Calls, Effects
  <2>4. Undisturbed(s)
    BY <1>1, <2>1 DEF Informed, ReliesAlone
  <2>5. Informed(r)'
    BY <2>2, <2>3, <2>4 DEF Informed, ReliesUp, ReliesDown, ReliesAlone, Undisturbed
  <2>6. QED
    BY <1>3, <2>1, <2>5 DEF Calls, Effects
<1>7. CASE StartContainer(p, a)
  <2> DEFINE st == IF a = "ok" THEN "RUNNING"
                   ELSE IF r0.op = "create" \/ a = "unavailable" THEN "ERROR" ELSE "STOPPED"
  <2>1. /\ Docker("start", s, a) /\ r0.pc = "start" /\ r0.held # "none" /\ "start" \in Calls
        /\ r0.op # "create" => r0.held = "STARTING"
    BY <1>1, <1>7, Zenon DEF StartContainer, Shaped, Calls, Effects
  <2>2. r.pc = "settle" /\ r.to = st /\ r.srv = s /\ r.op = r0.op /\ r.cid = r0.cid
    BY <1>5, <1>7 DEF StartContainer, Status
  <2>3. Undisturbed(s) /\ r0.cid /\ (r0.op # "create" => ctr[s] # "running")
    BY <1>1, <2>1 DEF Informed, ReliesAlone, ReliesDown
  <2>4. a # "unavailable" => late' = late
    BY <1>1, <2>1, DockerFacts
  <2>5. a = "ok" => ctr'[s] = "running"
    <3>1. a = "ok" => ctr'[s] = Effect("start", ctr[s]) /\ a \in Answers("start", ctr[s])
      BY <1>1, <2>1, DockerFacts
    <3>2. ctr[s] \in ContainerState
      BY <1>1 DEF TypeInv, TypeOK
    <3>3. QED
      BY <3>1, <3>2 DEF Effect, Answers, Statuses, ChangeAnswer, HandleDockerError, ContainerState
  <2>6. a \in {"notFound", "rejected"} => ctr'[s] = ctr[s]
    BY <1>1, <2>1, DockerFacts
  <2>7. Informed(r)'
    BY <2>2, <2>3, <2>4, <2>5, <2>6
       DEF Informed, ReliesUp, ReliesDown, ReliesAlone, Undisturbed, DaemonAnswers
  <2>8. QED
    BY <1>3, <2>1, <2>7
<1>8. CASE StopContainer(p, a)
  <2>1. /\ Docker("stop", s, a) /\ r0.pc = "stop" /\ r0.held = "STOPPING" /\ "stop" \in Calls
    BY <1>1, <1>8 DEF StopContainer, Shaped, Calls, Effects
  <2>2. Undisturbed(s) /\ r0.cid /\ ctr[s] = "running"
    BY <1>1, <2>1, Zenon DEF Informed, ReliesUp, ReliesAlone
  <2>3. /\ a # "unavailable" => late' = late
        /\ a = "ok" => ctr'[s] = "stopped"
        /\ a = "rejected" => ctr'[s] = "running"
        /\ a # "notFound"
    <3>1. /\ a # "unavailable" => late' = late
          /\ a = "ok" => ctr'[s] = Effect("stop", ctr[s])
          /\ a = "rejected" => ctr'[s] = ctr[s]
          /\ a \in Answers("stop", ctr[s])
      BY <1>1, <2>1, DockerFacts
    <3>2. QED
      BY <2>2, <3>1 DEF Effect, Answers, Statuses, ChangeAnswer, HandleDockerError
  <2>4. \/ /\ a = "ok" /\ r.pc = "preflight" /\ r.held = "STOPPING"
           /\ r.srv = s /\ r.op = r0.op /\ r.cid = r0.cid
        \/ /\ r.pc = "settle" /\ r.srv = s /\ r.op = r0.op /\ r.cid = r0.cid
           /\ r.to = CASE a \in {"ok", "notFound"} -> "STOPPED"
                       [] a = "unavailable" -> "ERROR"
                       [] OTHER -> "RUNNING"
    <3>1. CASE Goto(p, "preflight") /\ a = "ok"
      BY <1>4, <2>1, <3>1 DEF Steps
    <3>2. CASE SettleTo(p, CASE a \in {"ok", "notFound"} -> "STOPPED"
                             [] a = "unavailable" -> "ERROR"
                             [] OTHER -> "RUNNING")
      BY <1>5, <3>2 DEF Status
    <3>3. QED
      BY <1>8, <3>1, <3>2 DEF StopContainer
  <2>5. Informed(r)'
    BY <2>2, <2>3, <2>4, Zenon
       DEF Informed, ReliesUp, ReliesDown, ReliesAlone, Undisturbed, DaemonAnswers
  <2>6. QED
    BY <1>3, <2>1, <2>5
<1>9. CASE RemoveContainer(p, a) \/ LookupCreated(p, a) \/ InspectRemoved(p, a)
  <2>1. PICK call \in Calls : Docker(call, s, a) /\ r0.held # "none" /\ r0.op \in {"create", "delete"}
    BY <1>1, <1>9 DEF RemoveContainer, LookupCreated, InspectRemoved, Shaped, Calls, Effects
  <2>2. \/ r = Idle
        \/ /\ r.op \in {"create", "delete"}
           /\ \/ r.pc \in {"erase", "inspect", "discard", "adopt", "eraseStopped", "eraseAbsent"}
              \/ r.pc = "settle" /\ r.to = "ERROR"
    <3>1. CASE End(p)
      BY <1>1, <3>1, OneTurn, Zenon DEF End
    <3>2. CASE \E step \in {"erase", "inspect", "discard", "adopt", "eraseStopped", "eraseAbsent"} :
                 Goto(p, step)
      BY <1>4, <2>1, <3>2 DEF Steps
    <3>3. CASE SettleTo(p, "ERROR")
      BY <1>5, <2>1, <3>3, Zenon DEF Status
    <3>4. QED
      BY <1>9, <3>1, <3>2, <3>3 DEF RemoveContainer, LookupCreated, InspectRemoved
  <2>3. Informed(r)'
    BY <2>2, IdleInformed, Zenon DEF Informed, ReliesUp, ReliesDown, ReliesAlone
  <2>4. QED
    BY <1>3, <2>1, <2>3
<1>10. QED
  BY <1>6, <1>7, <1>8, <1>9

LEMMA WritesKept ==
  ASSUME TruthInv, NEW p \in Requests, req[p].pc # "idle", NEW r, Harmless(p, r),
         \/ AttachContainer(p) \/ AdoptContainer(p) \/ DiscardRow(p)
         \/ EraseRow(p) \/ Settle(p) \/ OrderlyUnwind(p)
  PROVE  Kept(p, r)
<1> DEFINE r0 == req[p]
           s == req[p].srv
<1>1. /\ ClaimInv /\ r0 \in Request /\ Informed(r0) /\ Shaped(r0) /\ s \in Servers
      /\ row \in [Servers -> Row] /\ row[s] \in Row
      /\ r0.held # "none" => row[s].status = r0.held /\ row[s].linked = r0.cid
      /\ row[s].status = "RUNNING" => ctr[s] = "running" /\ row[s].linked
      /\ row[s].status = "STOPPED" => ctr[s] # "running"
      /\ row[s].status \in Settled \/ s \notin used => Undisturbed(s)
  BY Knowledge, Zenon DEF Standing, TruthInv
<1>2. /\ UNCHANGED <<used, ctr, late>> /\ used' = used
  BY DEF AttachContainer, AdoptContainer, DiscardRow, EraseRow, Settle, OrderlyUnwind, Unwind
<1>3. ASSUME Informed(r), row'[s].status \in {row[s].status, "ERROR", "ABSENT"},
             row'[s].status = row[s].status => row'[s].linked = row[s].linked \/ row'[s].linked
      PROVE  Kept(p, r)
  <2>1. /\ row'[s].status = "RUNNING" => ctr[s] = "running" /\ row'[s].linked
        /\ row'[s].status = "STOPPED" => ctr[s] # "running"
        /\ row'[s].status \in Settled \/ s \notin used' => Undisturbed(s)
    BY <1>1, <1>2, <1>3, Zenon DEF Settled
  <2>2. QED
    BY <1>2, <1>3, <2>1, WriteKept, Zenon
<1>4. End(p) => Informed(r)
  <2>1. End(p) => r = Idle
    BY <1>1, OneTurn, ZenonT(60) DEF End
  <2>2. QED
    BY <2>1, IdleInformed
<1>5. NoRow.status = "ABSENT"
  BY DEF NoRow
<1>6. CASE AttachContainer(p)
  <2>1. r0.pc = "attach" /\ r0.held = "CREATING" /\ r0.op = "create" /\ Undisturbed(s)
    BY <1>1, <1>6 DEF AttachContainer, Shaped, Informed, ReliesAlone
  <2>2. Matches(r0, "CREATING")
    BY <1>1, <2>1, Zenon DEF Matches
  <2>3. r = [r0 EXCEPT !.pc = "start", !.cid = TRUE]
    BY <1>1, <1>6, <2>2, OneTurn DEF AttachContainer
  <2>4. r.pc = "start" /\ r.cid = TRUE /\ r.srv = s /\ r.held = "CREATING"
    BY <1>1, <2>1, <2>3 DEF Request
  <2>5. Informed(r)
    BY <2>1, <2>4, Zenon DEF Informed, ReliesUp, ReliesDown, ReliesAlone
  <2>6. row'[s].status = row[s].status /\ row'[s].linked = TRUE
    BY <1>1, <1>6, <2>2, SMTT(30) DEF AttachContainer, Row
  <2>7. QED
    BY <1>3, <2>5, <2>6
<1>7. CASE AdoptContainer(p)
  <2>1. row'[s] = row[s] \/ row'[s].status = "ERROR"
    BY <1>1, <1>7, Zenon DEF AdoptContainer
  <2>2. QED
    BY <1>3, <1>4, <1>7, <2>1, Zenon DEF AdoptContainer
<1>8. CASE DiscardRow(p)
  <2>1. row'[s] = row[s] \/ row'[s].status = "ABSENT"
    BY <1>1, <1>5, <1>8, Zenon DEF DiscardRow, DeleteRow
  <2>2. QED
    BY <1>3, <1>4, <1>5, <1>8, <2>1, Zenon DEF DiscardRow
<1>9. CASE EraseRow(p)
  <2>1. row'[s] = row[s] \/ row'[s].status = "ABSENT"
    BY <1>1, <1>5, <1>9 DEF EraseRow, DeleteRow
  <2>2. Informed(r)
    <3>1. CASE End(p)
      BY <1>4, <3>1
    <3>2. CASE ~End(p)
      <4>1. r = [r0 EXCEPT !.pc = "erase", !.held = "none"]
        BY <1>1, <1>9, <3>2, OneTurn DEF EraseRow
      <4>2. r.pc = "erase" /\ r.op = "delete"
        BY <1>1, <1>9, <4>1 DEF EraseRow, Request, Shaped
      <4>3. QED
        BY <4>2 DEF Informed, ReliesUp, ReliesDown, ReliesAlone
    <3>3. QED
      BY <3>1, <3>2
  <2>3. row'[s].status = row[s].status \/ row'[s].status = "ABSENT"
    BY <2>1
  <2>4. QED
    BY <1>1, <1>2, <2>1, <2>2, <2>3, WriteKept, Zenon DEF Settled
<1>10. CASE Settle(p)
  <2>1. Matches(r0, r0.held) /\ r0.pc = "settle"
    BY <1>1, <1>10 DEF Settle, Shaped, Matches
  <2>2. row'[s].status = r0.to /\ row'[s].linked = r0.cid
    BY <1>1, <1>10, <2>1 DEF Settle, SetStatus, Row, Matches
  <2>3. Informed(r)
    <3>1. CASE End(p)
      BY <1>4, <3>1
    <3>2. CASE ~End(p)
      <4>1. Throw(p, "none") /\ r0.op = "restart"
        BY <1>10, <2>1, <3>2 DEF Settle, Throw
      <4>2. r = [r0 EXCEPT !.pc = "unwind", !.held = "none", !.to = "none"]
        BY <1>1, <4>1, OneTurn DEF Throw
      <4>3. r.pc = "unwind" /\ r.held = "none" /\ r.op = r0.op /\ r.cid = r0.cid
        BY <1>1, <4>2 DEF Request
      <4>4. QED
        BY <1>1, <4>1, <4>3, Zenon DEF Informed, ReliesUp, ReliesDown, ReliesAlone
    <3>3. QED
      BY <3>1, <3>2
  <2>4. /\ r0.to = "RUNNING" => ctr[s] = "running" /\ r0.cid
        /\ r0.to = "STOPPED" => ctr[s] # "running"
        /\ r0.to \in Settled => Undisturbed(s)
    BY <1>1, <2>1, Zenon DEF Informed, ReliesUp, ReliesDown, ReliesAlone, Settled
  <2>5. QED
    BY <1>1, <1>2, <2>2, <2>3, <2>4, WriteKept, Zenon
<1>11. CASE OrderlyUnwind(p)
  <2>1. Informed(r)
    BY <1>4, <1>11, Zenon DEF OrderlyUnwind, Unwind
  <2>2. CASE row' = row
    BY <1>3, <2>1, <2>2, Zenon
  <2>3. CASE row' # row
    <3>1. r0.pc = "unwind" /\ r0.held # "none" /\ Matches(r0, "STOPPING")
      BY <1>11, <2>3 DEF OrderlyUnwind, Unwind
    <3>2. r0.held = "STOPPING"
      BY <1>1, <3>1 DEF Matches
    <3>3. ctr[s] # "running" /\ Undisturbed(s)
      BY <1>1, <3>1, <3>2, Zenon DEF Informed, ReliesDown, ReliesAlone
    <3>4. row'[s].status = "STOPPED"
      BY <1>1, <1>11, <3>1 DEF OrderlyUnwind, Unwind, SetStatus, Row
    <3>5. QED
      BY <1>2, <2>1, <3>3, <3>4, WriteKept, Zenon
  <2>4. QED
    BY <2>2, <2>3
<1>12. QED
  BY <1>6, <1>7, <1>8, <1>9, <1>10, <1>11

LEMMA DbFailureKept ==
  ASSUME TruthInv, NEW p \in Requests, NEW r, Harmless(p, r), DbFailure(p)
  PROVE  Kept(p, r)
<1>1. req[p].pc # "idle" /\ Shaped(req[p])
  BY DEF DbFailure, TruthInv, ClaimInv, AllShaped
<1>2. UNCHANGED <<row, used, ctr, late>>
  BY DEF DbFailure
<1>3. \/ End(p) \/ SettleTo(p, "ERROR")
      \/ /\ Throw(p, req[p].held)
         /\ req[p].held = "STOPPING" => req[p].pc \in {"preflight", "admit", "commit"}
  BY <1>1 DEF DbFailure
<1>4. QED
  BY <1>1, <1>2, <1>3, QuietMovesKept

LEMMA StepTruth ==
  ASSUME TruthInv, ClaimInv', NEW p \in Requests, OrderlyStep(p) \/ DbFailure(p)
  PROVE  TruthInv'
<1>1. req[p].pc # "idle"
  BY Zenon
     DEF OrderlyStep, Advance, OrderlyUnwind, Preflight, InsertRow, WarnPlayers, Admit,
         ClaimStart, ClaimStopping, CreateContainer, StartContainer, StopContainer, RemoveContainer,
         LookupCreated, InspectRemoved, AttachContainer, AdoptContainer, DiscardRow, EraseRow,
         Settle, Unwind, DbFailure
<1>2. PICK r : Harmless(p, r)
  BY HandlerHarmless, DbFailureHarmless DEF TruthInv
<1>3. CASE DbFailure(p)
  BY <1>1, <1>2, <1>3, DbFailureKept, KeptTruth
<1>4. CASE OrderlyStep(p)
  <2>1. Kept(p, r)
    BY <1>1, <1>2, <1>4, AdmissionKept, DaemonKept, WritesKept, Zenon DEF OrderlyStep, Advance
  <2>2. QED
    BY <1>1, <1>2, <2>1, KeptTruth
<1>5. QED
  BY <1>3, <1>4

-----------------------------------------------------------------------------
(* Arrivals, reconciliation and the environment.                           *)

LEMMA ArrivalTruth ==
  ASSUME TruthInv, ClaimInv', NEW p \in Requests, Arrival(p)
  PROVE  TruthInv'
<1>1. PICK s \in Servers :
        \/ CreateServer(p, s) \/ StartServer(p, s) \/ StopServer(p, s)
        \/ RestartServer(p, s) \/ DeleteServer(p, s)
  BY DEF Arrival
<1>2. PICK o \in AllOps, step \in {"preflight", "claim"}, cid \in BOOLEAN :
        Begin(p, o, s, step, cid) /\ (o \in {"start", "stop", "restart"} => cid = TRUE)
  <2>1. row[s].linked \in BOOLEAN
    BY DEF TruthInv, ClaimInv, TypeInv, TypeOK, Row
  <2>2. QED
    BY <1>1, <2>1, Zenon
       DEF CreateServer, StartServer, StopServer, RestartServer, DeleteServer, AllOps
<1>3. PICK r : /\ r = [pc |-> step, op |-> o, srv |-> s, cid |-> cid, held |-> "none", to |-> "none"]
               /\ req' = [req EXCEPT ![p] = r]
  BY <1>2, Zenon DEF Begin
<1>4. /\ UNCHANGED <<row, used, ctr, late, boot, seen>>
      /\ req'[p] = r /\ \A q \in Requests : q # p => req'[q] = req[q]
  BY <1>2, <1>3, Zenon DEF Begin, TruthInv, ClaimInv, TypeInv, TypeOK
<1>5. Informed(r)
  BY <1>2, <1>3 DEF Informed, ReliesUp, ReliesDown, ReliesAlone
<1>6. AllInformed'
  <2>1. \A q \in Requests : Informed(req'[q])
    BY <1>4, <1>5, Zenon DEF TruthInv, AllInformed
  <2>2. \A x : Informed(x)' <=> Informed(x)
    BY <1>4, Zenon DEF Informed, Undisturbed, ReliesUp, ReliesDown, ReliesAlone
  <2>3. QED
    BY <2>1, <2>2, Zenon DEF AllInformed, Informed
<1>7. QED
  BY <1>4, <1>6
     DEF TruthInv, StatusTruthful, LateDisowned, BootInformed, Undisturbed

LEMMA BootTruth ==
  ASSUME TruthInv, ClaimInv', "straggler" \notin Perils, BootStep
  PROVE  TruthInv'
<1>1. boot # "serving" /\ req' = req
  BY DEF BootStep, BootRead, BootDecide, BootWrite, BootDone, BootInspect, BootLookup
<1>2. AllInformed'
  <2>1. \A p \in Requests : req'[p] = Idle
    BY <1>1, Zenon DEF TruthInv, ClaimInv, Quiet, AllShaped, Shaped
  <2>2. QED
    BY <2>1 DEF AllInformed, Informed, ReliesUp, ReliesDown, ReliesAlone, Idle
<1>3. /\ ctr \in [Servers -> ContainerState] /\ row \in [Servers -> Row]
      /\ seen \in [Servers -> Findings]
  BY DEF TruthInv, ClaimInv, TypeInv, TypeOK
<1>4. CASE BootRead
  <2>1. BootInformed'
    BY <1>4 DEF BootRead, BootInformed
  <2>2. QED
    BY <1>2, <1>4, <2>1, Zenon DEF BootRead, TruthInv, StatusTruthful, LateDisowned, Undisturbed
<1>5. CASE BootDecide \/ BootDone
  <2>1. BootInformed'
    BY <1>5 DEF BootDecide, BootDone, BootInformed, TruthInv
  <2>2. QED
    BY <1>2, <1>5, <2>1
       DEF BootDecide, BootDone, TruthInv, StatusTruthful, LateDisowned, Undisturbed
<1>6. ASSUME NEW s \in Servers, BootWrite(s)
      PROVE  TruthInv'
  <2>1. late = {} /\ late' = {} /\ ctr' = ctr
    BY <1>6 DEF BootWrite, TruthInv, BootInformed
  <2>2. LateDisowned'
    BY <2>1 DEF LateDisowned, Undisturbed
  <2>3. BootInformed'
    BY <1>3, <1>6, <2>1 DEF BootWrite, TruthInv, BootInformed
  <2>4. /\ seen[s] = "up" => ctr[s] = "running"
        /\ seen[s] # "up" => ctr[s] # "running"
    BY <1>6 DEF BootWrite, TruthInv, BootInformed
  <2>5. /\ \A t \in Servers : t # s => row'[t] = row[t]
        /\ \/ row'[s] = row[s]
           \/ seen[s] = "up" /\ row'[s].status = "RUNNING" /\ row'[s].linked
           \/ seen[s] # "up" /\ row'[s].status = "STOPPED"
    BY <1>3, <1>6, Zenon DEF BootWrite
  <2>6. StatusTruthful'
    BY <2>1, <2>4, <2>5 DEF TruthInv, StatusTruthful
  <2>7. QED
    BY <1>2, <2>2, <2>3, <2>6 DEF TruthInv
<1>7. ASSUME NEW s \in Servers, NEW a \in DaemonAnswers, BootInspect(s, a) \/ BootLookup(s, a)
      PROVE  TruthInv'
  <2>1. PICK call \in {"inspect", "lookup"} : Docker(call, s, a)
    BY <1>7 DEF BootInspect, BootLookup
  <2>2. late' = late /\ \A t \in Servers : ctr'[t] = ctr[t]
    BY <2>1, DockerFacts DEF TruthInv, ClaimInv, Calls, Effects
  <2>3. /\ row' = row /\ used' = used /\ late = {}
        /\ \A t \in Servers : t # s => seen'[t] = seen[t]
        /\ seen'[s] \in {Found(ctr[s]), "unavailable", "lookup", "unchanged", "gone"}
        /\ seen'[s] = "gone" => ctr[s] = "none"
    BY <1>3, <1>7 DEF BootInspect, BootLookup, TruthInv, BootInformed, Found
  <2>4. /\ seen'[s] = "up" => ctr[s] = "running"
        /\ seen'[s] \in {"down", "gone"} => ctr[s] # "running"
    BY <2>3 DEF Found
  <2>5. boot' = boot /\ boot = "inspecting"
    BY <1>7 DEF BootInspect, BootLookup
  <2>6. BootInformed'
    BY <2>2, <2>3, <2>4, <2>5 DEF TruthInv, BootInformed
  <2>7. QED
    BY <1>2, <2>2, <2>3, <2>6 DEF TruthInv, StatusTruthful, LateDisowned, Undisturbed
<1>8. QED
  BY <1>4, <1>5, <1>6, <1>7 DEF BootStep

LEMMA EnvironmentTruth ==
  ASSUME TruthInv, ClaimInv', "external" \notin Perils, Environment
  PROVE  TruthInv'
<1>1. CASE Crash
  <2>1. \A p \in Requests : req'[p] = Idle
    BY <1>1 DEF Crash
  <2>2. AllInformed' /\ BootInformed' /\ StatusTruthful'
    BY <1>1, <2>1, Zenon
       DEF Crash, AllInformed, Informed, ReliesUp, ReliesDown, ReliesAlone, Idle, BootInformed,
           TruthInv, StatusTruthful
  <2>3. ASSUME NEW q \in Requests, req[q].pc \in Effects
        PROVE  row[req[q].srv].status \notin Settled /\ req[q].srv \in used
    <3>1. Standing(q) /\ req[q].held # "none"
      BY <2>3, Knowledge, Zenon DEF Effects, Standing, Shaped
    <3>2. QED
      BY <3>1, Zenon DEF Standing, Request, Transient, Settled
  <2>4. \A call, s : <<call, s>> \in late' \ late =>
                      \E q \in Requests : req[q].pc \in Effects /\ req[q].srv = s
    BY <1>1 DEF Crash
  <2>5. row' = row /\ used' = used
    BY <1>1 DEF Crash
  <2>6. LateDisowned'
    BY <2>3, <2>4, <2>5 DEF TruthInv, LateDisowned, Undisturbed
  <2>7. QED
    BY <2>2, <2>6 DEF TruthInv
<1>2. ASSUME NEW p \in Requests, DbFailure(p)
      PROVE  TruthInv'
  BY <1>2, StepTruth
<1>3. ASSUME NEW s \in Servers, NEW call \in Effects, LateEffect(call, s) \/ LateDrop(call, s)
      PROVE  TruthInv'
  <2>1. /\ <<call, s>> \in late /\ late' = late \ {<<call, s>>}
        /\ UNCHANGED <<row, used, req, boot, seen>>
        /\ \A t \in Servers : t # s => ctr'[t] = ctr[t]
    BY <1>3 DEF LateEffect, LateDrop, Performed, TruthInv, ClaimInv, TypeInv, TypeOK
  <2>2. ~Undisturbed(s) /\ boot \notin {"inspecting", "writing"}
    BY <2>1 DEF Undisturbed, TruthInv, BootInformed
  <2>3. row[s].status \notin Settled
    BY <2>2 DEF TruthInv, LateDisowned
  <2>4. StatusTruthful' /\ BootInformed' /\ LateDisowned'
    BY <2>1, <2>2, <2>3
       DEF TruthInv, StatusTruthful, BootInformed, LateDisowned, Undisturbed, Settled
  <2>5. ASSUME NEW q \in Requests
        PROVE  Informed(req[q])'
    <3>1. PICK x : x = req[q] /\ req'[q] = x
      BY <2>1
    <3>2. Informed(x) /\ Shaped(x) /\ (x.pc # "idle" => x.srv \in Servers)
      BY <3>1, Zenon DEF TruthInv, AllInformed, ClaimInv, AllShaped, TypeInv, Located
    <3>3. ReliesAlone(x) => x.srv # s /\ x.srv \in Servers
      BY <2>2, <3>2, RelyingHolds DEF Informed
    <3>4. Informed(x)'
      BY <2>1, <3>2, <3>3, Zenon DEF Informed, ReliesUp, ReliesDown, ReliesAlone, Undisturbed
    <3>5. QED
      BY <3>1, <3>4, Zenon DEF Informed, ReliesUp, ReliesDown, ReliesAlone, Undisturbed
  <2>6. QED
    BY <2>4, <2>5, Zenon DEF TruthInv, AllInformed
<1>4. QED
  BY <1>1, <1>2, <1>3 DEF Environment, External

LEMMA InitTruth == Init => TruthInv
BY InitClaimInv
   DEF Init, NoRow, TruthInv, StatusTruthful, AllInformed, Informed, ReliesUp, ReliesDown,
       ReliesAlone, Idle, LateDisowned, Undisturbed, Settled, BootInformed

LEMMA NextTruth ==
  ASSUME "external" \notin Perils, "straggler" \notin Perils, TruthInv, [OrderlyNext]_vars
  PROVE  TruthInv'
<1>1. ClaimInv'
  BY NextClaimInv DEF TruthInv
<1>2. CASE UNCHANGED vars
  BY <1>1, <1>2, Zenon
     DEF vars, TruthInv, StatusTruthful, AllInformed, Informed, ReliesUp, ReliesDown, ReliesAlone,
         LateDisowned, Undisturbed, BootInformed
<1>3. QED
  BY <1>1, <1>2, ArrivalTruth, StepTruth, BootTruth, EnvironmentTruth DEF OrderlyNext

(* What the panel shows of a settled server is true: in servers.service.ts  *)
(* no interleaving of operations, no refused, unanswered or late call, no   *)
(* failed statement and no crash leaves a row RUNNING without its running   *)
(* container or STOPPED with one, as long as nobody acts on the containers  *)
(* behind the panel's back, no call outlives the process that made it and   *)
(* the reconciliation after it, and the outer catch block of restartServer  *)
(* leaves rows alone that its restart no longer owns.                       *)
THEOREM StatusesTruthful ==
  ASSUME "external" \notin Perils, "straggler" \notin Perils
  PROVE  OrderlySpec => []StatusTruthful
<1>1. TruthInv /\ [OrderlyNext]_vars => TruthInv'
  BY NextTruth
<1>2. TruthInv => StatusTruthful
  BY DEF TruthInv
<1>3. QED
  BY <1>1, <1>2, InitTruth, PTL DEF OrderlySpec

-----------------------------------------------------------------------------
(* Reconciliation.  This needs no proviso at all.                           *)

LEMMA NextBootRows ==
  ASSUME TypeInv, Quiet, BootRows, [Next]_vars
  PROVE  Quiet' /\ BootRows'
<1> USE DEF Quiet, BootRows
<1>1. CASE UNCHANGED vars
  BY <1>1, Zenon DEF vars
<1>2. ASSUME NEW p \in Requests, Arrival(p) \/ HandlerStep(p) \/ DbFailure(p)
      PROVE  Quiet' /\ BootRows'
  <2>1. boot = "serving"
    BY <1>2, Zenon
       DEF Arrival, CreateServer, StartServer, StopServer, RestartServer, DeleteServer, Begin,
           HandlerStep, Advance, Preflight, InsertRow, WarnPlayers, Admit, ClaimStart,
           ClaimStopping, CreateContainer, StartContainer, StopContainer, RemoveContainer,
           LookupCreated, InspectRemoved, AttachContainer, AdoptContainer, DiscardRow, EraseRow,
           Settle, Unwind, DbFailure
  <2>2. boot' = boot
    BY <1>2, Zenon
       DEF Arrival, CreateServer, StartServer, StopServer, RestartServer, DeleteServer, Begin,
           HandlerStep, Advance, Preflight, InsertRow, WarnPlayers, Admit, ClaimStart,
           ClaimStopping, CreateContainer, StartContainer, StopContainer, RemoveContainer,
           LookupCreated, InspectRemoved, AttachContainer, AdoptContainer, DiscardRow, EraseRow,
           Settle, Unwind, DbFailure
  <2>3. QED
    BY <2>1, <2>2
<1>3. CASE BootRead
  BY <1>3 DEF BootRead, TypeInv, TypeOK, Settled
<1>4. CASE BootDecide \/ BootDone
  BY <1>4 DEF BootDecide, BootDone
<1>5. ASSUME NEW s \in Servers, BootWrite(s)
      PROVE  Quiet' /\ BootRows'
  <2>1. row[s] = snap[s]
    BY <1>5 DEF BootWrite
  <2>2. /\ row'[s].status \in Settled /\ seen'[s] = "skip"
        /\ \A t \in Servers : t # s => row'[t] = row[t] /\ seen'[t] = seen[t]
        /\ UNCHANGED <<boot, snap, req>>
    BY <1>5, <2>1 DEF BootWrite, TypeInv, TypeOK, Settled
  <2>3. QED
    BY <2>2
<1>6. ASSUME NEW s \in Servers, NEW a \in DaemonAnswers, BootInspect(s, a) \/ BootLookup(s, a)
      PROVE  Quiet' /\ BootRows'
  <2>1. /\ seen[s] # "skip" /\ seen'[s] # "skip"
        /\ \A t \in Servers : t # s => seen'[t] = seen[t]
        /\ UNCHANGED <<row, boot, snap, req>>
    BY <1>6 DEF BootInspect, BootLookup, Found, TypeInv, TypeOK
  <2>2. QED
    BY <2>1
<1>7. CASE Crash
  BY <1>7 DEF Crash, Idle
<1>8. ASSUME NEW s \in Servers,
             \/ \E c \in ContainerState : External(s, c)
             \/ \E call \in Effects : LateEffect(call, s) \/ LateDrop(call, s)
      PROVE  Quiet' /\ BootRows'
  BY <1>8, Zenon DEF External, LateEffect, LateDrop
<1>9. QED
  BY <1>1, <1>2, <1>3, <1>4, <1>5, <1>6, <1>7, <1>8, Zenon DEF Next, BootStep, Environment

(* onModuleInit settles every row whose container it could inspect or find  *)
(* missing: unless it skipped all writes it leaves none of them in a        *)
(* transient status or in ERROR, whatever state the last process left, in   *)
(* every behaviour and under every fault.                                   *)
THEOREM ReconciliationSettles == Spec => BootSettles
<1>1. Init => TypeInv /\ Quiet /\ BootRows
  BY InitTypeInv DEF Init, Idle, Quiet, BootRows
<1>2. TypeInv /\ Quiet /\ BootRows /\ [Next]_vars => TypeInv' /\ Quiet' /\ BootRows'
  BY NextBootRows, NextTypeInv
<1>3. ASSUME TypeInv, BootRows, Next, boot = "writing", boot' = "serving",
             NEW s \in Servers, seen[s] # "unchanged"
      PROVE  row[s].status \in {"ABSENT", "RUNNING", "STOPPED"}
  <2>1. BootDone
    <3>1. boot = "writing" /\ boot' # boot /\ boot' = "serving"
      BY <1>3
    <3>2. ASSUME NEW p \in Requests PROVE ~Arrival(p) /\ ~Unwind(p) /\ ~DbFailure(p)
      BY <3>1 DEF Arrival, CreateServer, StartServer, StopServer, RestartServer, DeleteServer,
         Begin, Unwind, DbFailure
    <3>3. ASSUME NEW p \in Requests PROVE ~Advance(p)
      BY <3>1
         DEF Advance, Preflight, InsertRow, WarnPlayers, Admit, ClaimStart, ClaimStopping,
             CreateContainer, StartContainer, StopContainer, RemoveContainer, LookupCreated,
             InspectRemoved, AttachContainer, AdoptContainer, DiscardRow, EraseRow, Settle
    <3>4. ~Environment
      BY <3>1, <3>2, Zenon DEF Environment, Crash, External, LateEffect, LateDrop
    <3>5. BootStep
      BY <1>3, <3>2, <3>3, <3>4, Zenon DEF Next, HandlerStep
    <3>6. ~BootRead /\ ~BootDecide
      BY <3>1 DEF BootRead, BootDecide
    <3>7. ASSUME NEW x \in Servers, NEW answer PROVE ~BootInspect(x, answer) /\ ~BootLookup(x, answer)
      BY <3>1 DEF BootInspect, BootLookup
    <3>8. ASSUME NEW x \in Servers PROVE ~BootWrite(x)
      BY <3>1 DEF BootWrite
    <3>9. QED
      BY <3>5, <3>6, <3>7, <3>8, Zenon DEF BootStep
  <2>2. seen[s] = "skip"
    BY <1>3, <2>1 DEF BootDone
  <2>3. QED
    BY <1>3, <2>2 DEF BootRows, Settled
<1>4. TypeInv /\ BootRows /\ [Next]_vars =>
        [boot = "writing" /\ boot' = "serving" =>
           \A s \in Servers :
             seen[s] # "unchanged" => row[s].status \in {"ABSENT", "RUNNING", "STOPPED"}]_vars
  BY <1>3 DEF vars
<1>5. QED
  BY <1>1, <1>2, <1>4, PTL DEF Spec, BootSettles
-----------------------------------------------------------------------------
(* Admission of starts.  Allocation is summed over rows, the host's memory  *)
(* is used by containers; so what is needed is that a container that runs,  *)
(* or may yet be started by a call that is under way, has a row that counts.*)

Live(t) == ctr[t] = "running" \/ <<"start", t>> \in late
LiveListed == \A t \in Servers : Live(t) => Exists(t)

(* The steps of a create before its start and of a delete: the container is *)
(* down and stays down.                                                     *)
RelyDown(r) ==
  \/ r.pc \in {"create", "attach", "lookup", "discard", "remove", "inspect", "eraseStopped",
               "eraseAbsent"}
  \/ r.pc = "erase" /\ r.held # "none"
StillDown == \A p \in Requests : RelyDown(req[p]) => ~Live(req[p].srv)

(* The servers that use memory or have been admitted to it. *)
MayRun(t) == Live(t) \/ row[t].status \in {"CREATING", "STARTING"}

StartAdmitted ==
  \A p \in Requests :
    req[p].pc = "commit" /\ req[p].op # "create" =>
      Total({req[p].srv} \cup {t \in Servers : MayRun(t)}) <= allocatable

HostInv == TruthInv /\ FitInv /\ LiveListed /\ StillDown /\ StartAdmitted

(* A step of request p that becomes r starts no container without a claim   *)
(* and loses the row of none that is up.                                    *)
Careful(p, r) ==
  \A t \in Servers :
    /\ Live(t)' => Live(t) \/ (t = req[p].srv /\ req[p].pc = "start")
    /\ t = req[p].srv /\ (row'[t].status = "ABSENT" \/ RelyDown(r)) => ~Live(t)'

LEMMA DockerLive ==
  ASSUME TypeInv, NEW call \in Calls, NEW s \in Servers, NEW a, Docker(call, s, a)
  PROVE  \A t \in Servers : Live(t)' => Live(t) \/ (t = s /\ call = "start")
<1>1. /\ \A t \in Servers : t # s => ctr'[t] = ctr[t]
      /\ ctr'[s] \in {ctr[s], Effect(call, ctr[s])}
      /\ late' \subseteq late \cup {<<call, s>>}
  BY DockerFacts
<1>2. Effect(call, ctr[s]) = "running" => ctr[s] = "running" \/ call = "start"
  BY DEF Effect
<1>3. QED
  BY <1>1, <1>2 DEF Live

(* What the invariant tells request p about the memory of its server. *)
LEMMA HostKnowledge ==
  ASSUME HostInv, NEW p \in Requests, req[p].pc # "idle"
  PROVE  LET s == req[p].srv IN
         /\ TypeInv /\ s \in Servers /\ req[p] \in Request /\ row \in [Servers -> Row]
         /\ Standing(p)
         /\ Live(s) => row[s].status \notin {"ABSENT", "STOPPED"}
         /\ RelyDown(req[p]) => ~Live(s)
<1>1. /\ TypeInv /\ Standing(p) /\ req[p].srv \in Servers
      /\ row[req[p].srv].status = "STOPPED" => ctr[req[p].srv] # "running"
      /\ row[req[p].srv].status \in Settled => Undisturbed(req[p].srv)
      /\ req[p] \in Request /\ row \in [Servers -> Row]
  BY Knowledge DEF HostInv, TruthInv, ClaimInv
<1>2. row[req[p].srv].status = "STOPPED" => ~Live(req[p].srv)
  BY <1>1 DEF Live, Undisturbed, Settled, Effects
<1>3. QED
  BY <1>1, <1>2 DEF HostInv, LiveListed, StillDown, Exists

(* Where the moves of a handler lead. *)
LEMMA Turns ==
  ASSUME NEW p \in Requests, req \in [Requests -> Request], NEW r, req' = [req EXCEPT ![p] = r]
  PROVE  /\ End(p) => r.pc = "idle"
         /\ \A h : Throw(p, h) => r.pc \in {"idle", "unwind"}
         /\ \A st : SettleTo(p, st) => r.pc = "settle"
         /\ \A step : Goto(p, step) => r.pc = step /\ r.held = req[p].held
<1>1. req'[p] = r /\ req[p] \in Request
  OBVIOUS
<1>2. End(p) => r.pc = "idle"
  BY <1>1 DEF End, Idle
<1>3. ASSUME NEW h, Throw(p, h) PROVE r.pc \in {"idle", "unwind"}
  <2>1. CASE End(p)
    BY <1>2, <2>1
  <2>2. CASE ~End(p)
    <3>1. r = [req[p] EXCEPT !.pc = "unwind", !.held = h, !.to = "none"]
      BY <1>1, <1>3, <2>2 DEF Throw
    <3>2. QED
      BY <1>1, <3>1 DEF Request
  <2>3. QED
    BY <2>1, <2>2
<1>4. ASSUME NEW st, SettleTo(p, st) PROVE r.pc = "settle"
  <2>1. r = [req[p] EXCEPT !.pc = "settle", !.to = st]
    BY <1>1, <1>4 DEF SettleTo
  <2>2. QED
    BY <1>1, <2>1 DEF Request
<1>5. ASSUME NEW step, Goto(p, step) PROVE r.pc = step /\ r.held = req[p].held
  <2>1. r = [req[p] EXCEPT !.pc = step]
    BY <1>1, <1>5 DEF Goto
  <2>2. QED
    BY <1>1, <2>1 DEF Request
<1>6. QED
  BY <1>2, <1>3, <1>4, <1>5

LEMMA StepCareful ==
  ASSUME HostInv, NEW p \in Requests, req[p].pc # "idle", OrderlyStep(p) \/ DbFailure(p),
         NEW r, Harmless(p, r)
  PROVE  Careful(p, r)
<1> DEFINE r0 == req[p]
           s == r0.srv
<1>1. /\ TypeInv /\ s \in Servers /\ r0 \in Request /\ row \in [Servers -> Row] /\ Standing(p)
      /\ Live(s) => row[s].status \notin {"ABSENT", "STOPPED"}
      /\ RelyDown(r0) => ~Live(s)
      /\ req \in [Requests -> Request] /\ req' = [req EXCEPT ![p] = r] /\ req'[p] = r
  BY HostKnowledge, Zenon DEF TypeInv, TypeOK, Harmless
<1>2. r0.held # "none" => row[s].status = r0.held /\ row[s].status # "ABSENT"
  BY <1>1, Zenon DEF Standing, Request, Transient
<1>3. \A t \in Servers : Live(t)' => Live(t) \/ (t = s /\ r0.pc = "start")
  <2>1. CASE ctr' = ctr /\ late' = late
    BY <2>1 DEF Live
  <2>2. ASSUME NEW call \in Calls, NEW a, Docker(call, s, a), call = "start" => r0.pc = "start"
        PROVE  \A t \in Servers : Live(t)' => Live(t) \/ (t = s /\ r0.pc = "start")
    BY <1>1, <2>2, DockerLive
  <2>3. \/ ctr' = ctr /\ late' = late
        \/ \E call \in Calls, a \in DaemonAnswers :
             Docker(call, s, a) /\ (call = "start" => r0.pc = "start")
    <3>1. ASSUME NEW a \in DaemonAnswers,
                 \/ CreateContainer(p, a) \/ StartContainer(p, a) \/ StopContainer(p, a)
                 \/ RemoveContainer(p, a) \/ LookupCreated(p, a) \/ InspectRemoved(p, a)
          PROVE  \E call \in Calls : Docker(call, s, a) /\ (call = "start" => r0.pc = "start")
      BY <3>1 DEF CreateContainer, StartContainer, StopContainer, RemoveContainer, LookupCreated,
                  InspectRemoved, Calls, Effects
    <3>2. ASSUME \/ \E ok \in BOOLEAN : Preflight(p, ok) \/ InsertRow(p, ok) \/ WarnPlayers(p, ok)
                 \/ Admit(p) \/ ClaimStart(p) \/ ClaimStopping(p)
                 \/ AttachContainer(p) \/ AdoptContainer(p) \/ DiscardRow(p)
                 \/ EraseRow(p) \/ Settle(p) \/ OrderlyUnwind(p) \/ DbFailure(p)
          PROVE  ctr' = ctr /\ late' = late
      BY <3>2, Zenon
         DEF Preflight, InsertRow, WarnPlayers, Admit, ClaimStart, ClaimStopping, AttachContainer,
                  AdoptContainer, DiscardRow, EraseRow, Settle, OrderlyUnwind, Unwind, DbFailure
    <3>3. QED
      BY <3>1, <3>2, Zenon DEF OrderlyStep, Advance
  <2>4. QED
    BY <2>1, <2>2, <2>3, Zenon
<1>4. /\ row'[s].status = "ABSENT" => row[s].status = "ABSENT" \/ RelyDown(r0)
      /\ RelyDown(r) => RelyDown(r0) \/ row[s].status \in {"ABSENT", "STOPPED"}
  <2> DEFINE Goal == /\ row'[s].status = "ABSENT" => row[s].status = "ABSENT" \/ RelyDown(r0)
                     /\ RelyDown(r) => RelyDown(r0) \/ row[s].status \in {"ABSENT", "STOPPED"}
  <2>1. ASSUME row' = row, \/ r.pc \in {"idle", "unwind", "settle"}
                           \/ ~RelyDown(r) \/ RelyDown(r0)
        PROVE  Goal
    BY <2>1, Zenon DEF RelyDown
  <2>2. /\ End(p) => r.pc = "idle"
        /\ \A h : Throw(p, h) => r.pc \in {"idle", "unwind"}
        /\ \A st : SettleTo(p, st) => r.pc = "settle"
        /\ \A step : Goto(p, step) => r.pc = step /\ r.held = r0.held
    BY <1>1, Turns, Zenon
  <2>3. ASSUME NEW ok \in BOOLEAN, Preflight(p, ok) \/ WarnPlayers(p, ok) PROVE Goal
    <3>1. row' = row /\ r.pc \in {"idle", "unwind", "admit", "save", "stop"}
      BY <2>2, <2>3, Zenon DEF Preflight, WarnPlayers
    <3>2. QED
      BY <2>1, <3>1, Zenon DEF RelyDown
  <2>4. ASSUME NEW ok \in BOOLEAN, InsertRow(p, ok) PROVE Goal
    <3>1. row[s].status = "ABSENT"
      BY <1>1, <2>4 DEF InsertRow, Standing, Shaped, Drawn
    <3>2. QED
      BY <3>1
  <2>5. CASE Admit(p) \/ ClaimStart(p)
    <3>1. CASE row' = row
      <4>1. r.pc \in {"idle", "unwind", "commit", "start"}
        <5>1. CASE Admit(p)
          BY <2>2, <5>1, Zenon DEF Admit
        <5>2. CASE ClaimStart(p)
          <6>1. PICK k : k = [r0 EXCEPT !.pc = "start", !.held = "STARTING"]
            OBVIOUS
          <6>2. k.pc = "start"
            BY <1>1, <6>1 DEF Request
          <6>3. (\E h : Throw(p, h)) \/ r = k
            BY <1>1, <5>2, <6>1 DEF ClaimStart
          <6>4. QED
            BY <2>2, <6>2, <6>3, Zenon
        <5>3. QED
          BY <2>5, <5>1, <5>2
      <4>2. QED
        BY <2>1, <3>1, <4>1, Zenon DEF RelyDown
    <3>2. CASE row' # row
      <4>1. SetStatus(s, "STARTING") /\ r = [r0 EXCEPT !.pc = "start", !.held = "STARTING"]
        BY <1>1, <2>5, <3>2 DEF Admit, ClaimStart
      <4>2. row'[s].status = "STARTING" /\ r.pc = "start"
        BY <1>1, <4>1 DEF SetStatus, Row, Request
      <4>3. QED
        BY <4>2, Zenon DEF RelyDown
    <3>3. QED
      BY <3>1, <3>2, Zenon
  <2>6. CASE ClaimStopping(p)
    <3>1. CASE End(p) /\ row' = row
      BY <2>1, <2>2, <3>1, Zenon
    <3>2. CASE ~(End(p) /\ row' = row)
      <4>1. PICK then : /\ then = IF r0.op # "delete" THEN "say"
                                  ELSE IF r0.cid THEN "remove" ELSE "erase"
                        /\ SetStatus(s, "STOPPING")
                        /\ r = [r0 EXCEPT !.pc = then, !.held = "STOPPING"]
                        /\ row[s].status = IF r0.op = "delete" THEN "STOPPED" ELSE "RUNNING"
        BY <1>1, <2>6, <3>2, Zenon DEF ClaimStopping, Matches
      <4>2. row'[s].status = "STOPPING" /\ r.pc = then
        BY <1>1, <4>1 DEF SetStatus, Row, Request
      <4>3. QED
        BY <4>1, <4>2 DEF RelyDown
    <3>3. QED
      BY <3>1, <3>2, Zenon
  <2>7. ASSUME NEW a \in DaemonAnswers,
               \/ CreateContainer(p, a) \/ StartContainer(p, a) \/ StopContainer(p, a)
               \/ RemoveContainer(p, a) \/ LookupCreated(p, a) \/ InspectRemoved(p, a)
        PROVE  Goal
    <3>1. /\ row' = row
          /\ r0.pc \in {"start", "stop"} => r.pc \in {"preflight", "settle"}
          /\ r0.pc \notin {"start", "stop"} => RelyDown(r0)
      BY <2>2, <2>7
         DEF CreateContainer, StartContainer, StopContainer, RemoveContainer, LookupCreated,
             InspectRemoved, RelyDown
    <3>2. QED
      BY <2>1, <3>1, Zenon DEF RelyDown
  <2>8. CASE AttachContainer(p) \/ AdoptContainer(p) \/ DiscardRow(p) \/ EraseRow(p)
    <3>1. CASE AdoptContainer(p)
      <4>1. r.pc = "idle" /\ (row'[s].status = "ABSENT" => row[s].status = "ABSENT")
        BY <1>1, <2>2, <3>1 DEF AdoptContainer, Row
      <4>2. QED
        BY <4>1 DEF RelyDown
    <3>2. CASE RelyDown(r0)
      BY <3>2, Zenon
    <3>3. CASE r0.pc = "erase" /\ r0.held = "none"
      BY <1>1, <3>3, Zenon DEF Standing
    <3>4. QED
      BY <2>8, <3>1, <3>2, <3>3, Zenon DEF AttachContainer, DiscardRow, EraseRow, RelyDown
  <2>9. CASE Settle(p) \/ OrderlyUnwind(p)
    <3>1. /\ \/ End(p) \/ (\E h : Throw(p, h)) \/ (\E st : SettleTo(p, st))
          /\ row' = row \/ SetStatus(s, r0.to) \/ SetStatus(s, "STOPPED")
      BY <2>9 DEF Settle, OrderlyUnwind, Unwind
    <3>2. r.pc \in {"idle", "unwind", "settle"}
      BY <2>2, <3>1, Zenon
    <3>3. row' # row => row'[s].status # "ABSENT"
      BY <1>1, <3>1 DEF SetStatus, Row, Request, Status, Transient
    <3>4. QED
      BY <3>2, <3>3, Zenon DEF RelyDown
  <2>10. CASE DbFailure(p)
    <3>1. row' = row /\ r.pc \in {"idle", "unwind", "settle"}
      BY <2>2, <2>10 DEF DbFailure
    <3>2. QED
      BY <2>1, <3>1
  <2>11. QED
    BY <2>3, <2>4, <2>5, <2>6, <2>7, <2>8, <2>9, <2>10, Zenon DEF OrderlyStep, Advance
<1>5. r0.pc = "start" => row[s].status \notin {"ABSENT", "STOPPED"} /\ ~RelyDown(r0)
  BY <1>1, <1>2, Zenon DEF Standing, Shaped, RelyDown
<1>6. QED
  BY <1>1, <1>3, <1>4, <1>5, Zenon DEF Careful

LEMMA HostTotal ==
  ASSUME NEW u \in Servers, NEW S \in SUBSET Servers, NEW T \in SUBSET Servers,
         S \subseteq {u} \cup T, NEW n \in Nat, Total({u} \cup T) <= n
  PROVE  Total({u} \cup S) <= n
<1> DEFINE U == {u} \cup S
           V == {u} \cup T
<1>1. U \in SUBSET V /\ V \in SUBSET Servers /\ U \in SUBSET Servers
  OBVIOUS
<1> HIDE DEF U, V
<1>2. Total(U) <= Total(V) /\ Total(U) \in Nat /\ Total(V) \in Nat
  BY <1>1, TotalMonotone, TotalOf, Zenon
<1>3. QED
  BY <1>2 DEF U, V

(* A server that may run is counted by the admission of every other one. *)
LEMMA RunningCounted ==
  ASSUME HostInv, NEW r, r.op # "create", NEW t \in Servers, MayRun(t), t # r.srv
  PROVE  t \in Counted(r)
<1>1. Live(t) => Exists(t) /\ row[t].status # "STOPPED"
  BY Zenon
     DEF HostInv, LiveListed, TruthInv, StatusTruthful, LateDisowned, Undisturbed, Settled, Live,
         Effects
<1>2. QED
  BY <1>1 DEF MayRun, Exists, Counted

(* A request that has ended relies on no container's being down. *)
LEMMA IdleRelies == ~RelyDown(Idle)
  BY DEF RelyDown, Idle

LEMMA StepHost ==
  ASSUME HostInv, TruthInv', FitInv', NEW p \in Requests, OrderlyStep(p) \/ DbFailure(p)
  PROVE  /\ HostInv'
         /\ \A u \in Servers : row[u].status # "STARTING" /\ row'[u].status = "STARTING" =>
              Total({u} \cup {t \in Servers : ctr[t] = "running"}) <= allocatable
<1>1. HandlerStep(p) \/ DbFailure(p)
  BY DEF OrderlyStep, OrderlyUnwind, HandlerStep
<1>2. PICK r : req' = [req EXCEPT ![p] = r] /\ Orderly(p, r) /\ req[p].pc # "idle"
  BY <1>1, HandlerOrderly, Zenon DEF HostInv, FitInv
<1>3. Harmless(p, r)
  <2>1. PICK k : Harmless(p, k)
    BY HandlerHarmless, DbFailureHarmless, Zenon DEF HostInv, TruthInv
  <2>2. k = r
    BY <1>2, <2>1, OneTurn, Zenon DEF HostInv, TruthInv
  <2>3. QED
    BY <2>1, <2>2
<1>4. Careful(p, r)
  BY <1>2, <1>3, StepCareful
<1> DEFINE s == req[p].srv
<1>5. /\ req'[p] = r /\ \A q \in Requests : q # p => req'[q] = req[q]
      /\ s \in Servers /\ req[p] \in Request /\ Standing(p)
      /\ allocatable' = allocatable /\ allocatable \in Nat
      /\ r = Idle \/ (r.srv = s /\ r.op = req[p].op)
      /\ \A t \in Servers : t # s => row'[t] = row[t]
      /\ row \in [Servers -> Row]
  BY <1>2, <1>3, HostKnowledge, LifecycleAssumption, Zenon
     DEF HostInv, FitInv, TypeInv, TypeOK, Orderly, Harmless
<1>6. req[p].pc = "start" => row[s].status \in {"CREATING", "STARTING"} /\ row' = row
  <2>1. req[p].pc = "start" => row' = row
    BY DEF OrderlyStep, Advance, OrderlyUnwind, Preflight, InsertRow, WarnPlayers, Admit,
           ClaimStart, ClaimStopping, CreateContainer, StartContainer, StopContainer, RemoveContainer,
           LookupCreated, InspectRemoved, AttachContainer, AdoptContainer, DiscardRow, EraseRow,
           Settle, Unwind, DbFailure
  <2>2. QED
    BY <1>5, <2>1, Zenon DEF Standing, Shaped
<1>7. LiveListed'
  BY <1>4, <1>5, <1>6, Zenon DEF HostInv, LiveListed, Exists, Careful
<1>8. StillDown'
  <2>1. ASSUME NEW q \in Requests, q # p, RelyDown(req[q])
        PROVE  \A t \in Servers : t = req[q].srv => ~Live(t)'
    <3>1. ~Live(req[q].srv) /\ Shaped(req[q])
      BY <2>1 DEF HostInv, StillDown, TruthInv, ClaimInv, AllShaped
    <3>2. req[q].held # "none"
      BY <2>1, <3>1, Zenon DEF RelyDown, Shaped
    <3>3. req[p].pc = "start" => req[q].srv # s
      BY <1>5, <2>1, <3>2, Zenon DEF Standing, Shaped
    <3>4. QED
      BY <1>4, <3>1, <3>3 DEF Careful
  <2>2. \A q \in Requests : req'[q].pc # "idle" => req'[q].srv \in Servers
    BY Zenon DEF FitInv, TypeInv, Located
  <2>3. ASSUME NEW q \in Requests, RelyDown(req'[q])
        PROVE  \A t \in Servers : t = req'[q].srv => ~Live(t)'
    <3>1. CASE q # p
      <4>1. req'[q] = req[q]
        BY <1>5, <3>1, Zenon
      <4>2. QED
        BY <2>1, <2>3, <3>1, <4>1, Zenon
    <3>2. CASE q = p
      <4>1. req'[q] = r /\ r # Idle
        BY <1>5, <2>3, <3>2, IdleRelies, Zenon
      <4>2. r.srv = s
        BY <1>5, <4>1, Zenon
      <4>3. QED
        BY <1>4, <2>3, <3>2, <4>1, <4>2, Zenon DEF Careful
    <3>3. QED
      BY <3>1, <3>2
  <2>4. QED
    BY <2>2, <2>3 DEF StillDown, RelyDown
<1>9. \A t \in Servers : MayRun(t)' => MayRun(t) \/ (t = s /\ req[p].pc = "commit")
  BY <1>2, <1>4, <1>5, <1>6, Zenon DEF MayRun, Careful, Orderly
<1>10. StartAdmitted'
  <2> DEFINE old == {t \in Servers : MayRun(t)}
             new == {t \in Servers : MayRun(t)'}
  <2>1. ASSUME NEW q \in Requests, req'[q].pc = "commit", req'[q].op # "create"
        PROVE  Total({req'[q].srv} \cup new) <= allocatable
    <3>1. PICK u \in Servers : u = req'[q].srv
      BY <2>1 DEF FitInv, TypeInv, Located
    <3>2. CASE q # p
      <4>1. Total({u} \cup old) <= allocatable
        BY <1>5, <2>1, <3>1, <3>2, Zenon DEF HostInv, StartAdmitted
      <4>2. new \subseteq {u} \cup old
        BY <1>5, <1>9, <2>1, <3>2, Zenon DEF HostInv, FitInv, LockOne
      <4>3. QED
        BY <1>5, <3>1, <4>1, <4>2, HostTotal, Zenon
    <3>3. CASE q = p
      <4>1. /\ Admissible(req[p]) /\ u = s /\ req[p].op # "create"
            /\ row' = row /\ ctr' = ctr /\ late' = late
        BY <1>2, <1>5, <2>1, <3>1, <3>3, Zenon DEF Orderly
      <4>2. Total({u} \cup Counted(req[p])) <= allocatable
        BY <1>5, <4>1, AdmissibleFits, Zenon DEF HostInv, FitInv
      <4>3. new \subseteq {u} \cup Counted(req[p])
        BY <4>1, RunningCounted, Zenon DEF MayRun, Live
      <4>4. Counted(req[p]) \in SUBSET Servers
        BY Zenon DEF Counted
      <4>5. QED
        BY <1>5, <3>1, <4>2, <4>3, <4>4, HostTotal, Zenon
    <3>4. QED
      BY <3>2, <3>3
  <2>2. QED
    BY <1>5, <2>1, Zenon DEF StartAdmitted
<1>11. ASSUME NEW u \in Servers, row[u].status # "STARTING", row'[u].status = "STARTING"
       PROVE  Total({u} \cup {t \in Servers : ctr[t] = "running"}) <= allocatable
  <2>1. u = s /\ req[p].pc = "commit" /\ req[p].op # "create"
    BY <1>2, <1>5, <1>11, Zenon DEF Orderly
  <2>2. Total({u} \cup {t \in Servers : MayRun(t)}) <= allocatable
    BY <2>1, Zenon DEF HostInv, StartAdmitted
  <2>3. {t \in Servers : ctr[t] = "running"} \subseteq {u} \cup {t \in Servers : MayRun(t)}
    BY DEF MayRun, Live
  <2>4. QED
    BY <1>5, <2>2, <2>3, HostTotal, Zenon
<1>12. QED
  BY <1>7, <1>8, <1>10, <1>11 DEF HostInv

LEMMA ArrivalHost ==
  ASSUME HostInv, TruthInv', FitInv', NEW p \in Requests, Arrival(p)
  PROVE  HostInv' /\ row' = row
<1>1. PICK r : /\ req' = [req EXCEPT ![p] = r] /\ r.pc \in {"preflight", "claim"}
               /\ UNCHANGED <<row, ctr, late, allocatable>>
  BY Zenon DEF Arrival, CreateServer, StartServer, StopServer, RestartServer, DeleteServer, Begin
<1>2. req'[p] = r /\ \A q \in Requests : q # p => req'[q] = req[q]
  BY <1>1 DEF HostInv, FitInv, TypeInv, TypeOK
<1>3. QED
  BY <1>1, <1>2 DEF HostInv, LiveListed, StillDown, StartAdmitted, Live, MayRun, RelyDown, Exists

(* Reconciliation runs while no request does, and deletes no row. *)
LEMMA BootHost ==
  ASSUME HostInv, TruthInv', FitInv', BootStep
  PROVE  /\ HostInv'
         /\ \A s \in Servers : row[s].status # "STARTING" => row'[s].status # "STARTING"
<1>1. \A p \in Requests : req'[p].pc = "idle"
  BY DEF BootStep, BootRead, BootDecide, BootDone, BootWrite, BootInspect, BootLookup, HostInv,
         FitInv, Quiet
<1>2. ctr' = ctr /\ late' = late
  <2>1. ASSUME NEW call \in {"inspect", "lookup"}, NEW s \in Servers, NEW a, Docker(call, s, a)
        PROVE  ctr' = ctr /\ late' = late
    <3>1. /\ \A t \in Servers : ctr'[t] = ctr[t]
          /\ late' = late /\ ctr' \in {ctr, Performed(call, s)}
      <4>1. call \in Calls /\ call \notin Effects
        BY DEF Calls, Effects
      <4>2. QED
        BY <2>1, <4>1, DockerFacts DEF HostInv, FitInv, Docker
    <3>2. ctr \in [Servers -> ContainerState] /\ ctr' \in [Servers -> ContainerState]
      BY DEF HostInv, FitInv, TypeInv, TypeOK
    <3>3. QED
      BY <3>1, <3>2
  <2>2. QED
    BY <2>1 DEF BootStep, BootRead, BootDecide, BootDone, BootWrite, BootInspect, BootLookup
<1>3. \A s \in Servers : row'[s] = row[s] \/ row'[s].status \in {"RUNNING", "STOPPED"}
  BY DEF BootStep, BootRead, BootDecide, BootDone, BootWrite, BootInspect, BootLookup, HostInv,
         FitInv, TypeInv, TypeOK
<1>4. LiveListed'
  BY <1>2, <1>3 DEF HostInv, LiveListed, Live, Exists
<1>5. StillDown' /\ StartAdmitted'
  BY <1>1 DEF StillDown, RelyDown, StartAdmitted
<1>6. QED
  BY <1>3, <1>4, <1>5 DEF HostInv

LEMMA EnvironmentHost ==
  ASSUME HostInv, TruthInv', FitInv', "external" \notin Perils,
         \/ Crash
         \/ \E s \in Servers :
              \/ \E c \in ContainerState : External(s, c)
              \/ \E call \in Effects : LateEffect(call, s) \/ LateDrop(call, s)
  PROVE  HostInv' /\ row' = row
<1>1. CASE Crash
  <2>1. /\ row' = row /\ ctr' = ctr /\ \A p \in Requests : req'[p].pc = "idle"
        /\ late' = late \cup {<<req[p].pc, req[p].srv>> :
                                p \in {q \in Requests : req[q].pc \in Effects}}
    BY <1>1, Zenon DEF Crash, Idle
  <2>2. ASSUME NEW p \in Requests, req[p].pc = "start"
        PROVE  Exists(req[p].srv)
    BY <2>2, HostKnowledge, Zenon DEF Standing, Shaped, Exists
  <2>3. LiveListed'
    BY <2>1, <2>2, Zenon DEF HostInv, LiveListed, Live, Exists
  <2>4. QED
    BY <2>1, <2>3, Zenon DEF HostInv, StillDown, StartAdmitted, RelyDown
<1>2. ASSUME NEW s \in Servers, NEW call \in Effects, LateEffect(call, s) \/ LateDrop(call, s)
      PROVE  HostInv' /\ row' = row
  <2>1. /\ row' = row /\ req' = req /\ allocatable' = allocatable
        /\ <<call, s>> \in late /\ late' \subseteq late
        /\ ctr' = ctr \/ ctr' = Performed(call, s)
    BY <1>2 DEF LateEffect, LateDrop
  <2>2. /\ ctr \in [Servers -> ContainerState] /\ allocatable \in Nat
        /\ \A p \in Requests : req[p].pc # "idle" => req[p].srv \in Servers
    BY LifecycleAssumption DEF HostInv, FitInv, TypeInv, TypeOK, Located
  <2>3. \A t \in Servers : Live(t)' => Live(t)
    BY <2>1, <2>2 DEF Performed, Effect, Live
  <2>4. LiveListed'
    BY <2>1, <2>3, Zenon DEF HostInv, LiveListed, Exists
  <2>5. StillDown'
    <3>1. ASSUME NEW p \in Requests, RelyDown(req[p])
          PROVE  \A t \in Servers : t = req[p].srv => ~Live(t)'
      BY <2>3, <3>1 DEF HostInv, StillDown
    <3>2. QED
      BY <2>1, <2>2, <3>1, Zenon DEF StillDown, RelyDown
  <2>6. StartAdmitted'
    <3> DEFINE new == {t \in Servers : MayRun(t)'}
               old == {t \in Servers : MayRun(t)}
    <3>1. new \subseteq old
      BY <2>1, <2>3 DEF MayRun
    <3>2. ASSUME NEW p \in Requests, req[p].pc = "commit", req[p].op # "create"
          PROVE  Total({req[p].srv} \cup new) <= allocatable
      <4>1. PICK u \in Servers : u = req[p].srv
        BY <2>2, <3>2
      <4>2. Total({u} \cup old) <= allocatable
        BY <3>2, <4>1 DEF HostInv, StartAdmitted
      <4>3. QED
        BY <2>2, <3>1, <4>1, <4>2, HostTotal, Zenon
    <3>3. QED
      BY <2>1, <3>2 DEF StartAdmitted
  <2>7. QED
    BY <2>1, <2>4, <2>5, <2>6 DEF HostInv
<1>3. QED
  BY <1>1, <1>2, Zenon DEF External

LEMMA NextHost ==
  ASSUME HostInv, TruthInv', FitInv', "external" \notin Perils, [OrderlyNext]_vars
  PROVE  /\ HostInv'
         /\ \A s \in Servers : row[s].status # "STARTING" /\ row'[s].status = "STARTING" =>
              Total({s} \cup {t \in Servers : ctr[t] = "running"}) <= allocatable
<1>1. CASE UNCHANGED vars
  BY <1>1, Zenon DEF vars, HostInv, LiveListed, StillDown, StartAdmitted, Live, MayRun, Exists
<1>2. QED
  BY <1>1, StepHost, ArrivalHost, BootHost, EnvironmentHost, Zenon DEF OrderlyNext, Environment

LEMMA InitHost == Init => HostInv
<1>1. Init => LiveListed /\ StillDown /\ StartAdmitted
  BY DEF Init, LiveListed, StillDown, StartAdmitted, Live, RelyDown, Idle
<1>2. QED
  BY <1>1, InitTruth, InitFit DEF HostInv

(* Admission of starts holds for every number of servers and requests: when *)
(* startServer or restartServer moves a row to STARTING, its server fits in *)
(* what the host may allocate beside all containers that run, although the  *)
(* sum is taken over rows, calls may be carried out late and the process    *)
(* may crash; under the provisos of StatusesTruthful.                       *)
THEOREM StartsFitHost ==
  ASSUME "external" \notin Perils, "straggler" \notin Perils
  PROVE  OrderlySpec => StartFitsHost
<1> DEFINE Fits == \A s \in Servers :
                     row[s].status # "STARTING" /\ row'[s].status = "STARTING" =>
                       Total({s} \cup {t \in Servers : ctr[t] = "running"}) <= allocatable
<1>1. HostInv /\ [OrderlyNext]_vars => HostInv' /\ [Fits]_vars
  <2> SUFFICES ASSUME HostInv, [OrderlyNext]_vars PROVE HostInv' /\ [Fits]_vars
    OBVIOUS
  <2>1. TruthInv'
    BY NextTruth DEF HostInv
  <2>2. [Next]_vars
    BY DEF OrderlyNext, OrderlyStep, OrderlyUnwind, Next, HandlerStep
  <2>3. FitInv'
    BY <2>1, <2>2, NextFit DEF HostInv, TruthInv, ClaimInv
  <2>4. QED
    BY <2>1, <2>3, NextHost
<1> HIDE DEF Fits
<1>2. QED
  BY <1>1, InitHost, PTL DEF OrderlySpec, StartFitsHost, Fits
=============================================================================
