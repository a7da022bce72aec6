------------------------ MODULE ServerLifecycle_proofs ------------------------
(***************************************************************************)
(* Proofs about ServerLifecycle, for every number of servers and requests, *)
(* every set of operations and every combination of faults: the types, the *)
(* claims, that the panel loses track of a container in the three known    *)
(* ways only, and the admission of creates.                                *)
(***************************************************************************)
EXTENDS ServerLifecycle, TLAPS

-----------------------------------------------------------------------------
(* Type correctness.  It is inductive together with two facts about a       *)
(* request in flight: it is about a server, and it settles to a status.     *)

Located ==
  \A p \in Requests :
    /\ req[p].pc # "idle" => req[p].srv \in Servers
    /\ req[p].pc = "settle" => req[p].to \in Status

TypeInv == TypeOK /\ Located

LEMMA InitTypeInv == Init => TypeInv
BY DEF Init, TypeInv, TypeOK, Located, Row, NoRow, Status, Transient, ContainerState,
   Request, Idle, Steps, Effects, Findings

LEMMA EffectType ==
  ASSUME NEW call, NEW c \in ContainerState
  PROVE  Effect(call, c) \in ContainerState
BY DEF Effect, ContainerState

LEMMA DockerType ==
  ASSUME TypeInv, NEW call \in Calls, NEW s \in Servers, NEW answer, Docker(call, s, answer)
  PROVE  /\ ctr' \in [Servers -> ContainerState]
         /\ late' \subseteq Effects \X Servers
<1>1. Performed(call, s) \in [Servers -> ContainerState]
  BY EffectType DEF Performed, TypeInv, TypeOK
<1>2. QED
  BY <1>1 DEF Docker, TypeInv, TypeOK

(* Every update of req that the handlers make leaves it well typed. *)
LEMMA RequestType ==
  ASSUME TypeInv, NEW p \in Requests
  PROVE  /\ Idle \in Request
         /\ req[p] \in Request
         /\ \A step \in Steps : [req[p] EXCEPT !.pc = step] \in Request
         /\ \A st \in Status :
              [req[p] EXCEPT !.pc = "settle", !.to = st] \in Request
         /\ \A step \in Steps, h \in Transient :
              [req[p] EXCEPT !.pc = step, !.held = h] \in Request
         /\ \A h \in Transient \cup {"none"} :
              [req[p] EXCEPT !.pc = "unwind", !.held = h, !.to = "none"] \in Request
         /\ [req[p] EXCEPT !.pc = "start", !.cid = TRUE] \in Request
         /\ [req[p] EXCEPT !.pc = "erase", !.held = "none"] \in Request
<1>1. Idle \in Request
  BY DEF Request, Idle, Steps
<1>2. req[p] \in Request
  BY DEF TypeInv, TypeOK
<1>3. /\ {"settle", "unwind", "start", "erase"} \subseteq Steps
      /\ "none" \in Transient \cup {"none"}
      /\ "none" \in Status \cup {"none"}
  BY DEF Steps, Effects
<1>4. QED
  BY <1>1, <1>2, <1>3, ZenonT(60) DEF Request

LEMMA RowType ==
  ASSUME TypeInv, NEW s \in Servers
  PROVE  /\ NoRow \in Row
         /\ row[s] \in Row
         /\ \A st \in Status : [row[s] EXCEPT !.status = st] \in Row
         /\ [row[s] EXCEPT !.linked = TRUE] \in Row
         /\ \A st \in Status, b \in BOOLEAN : [status |-> st, linked |-> b] \in Row
BY ZenonT(60) DEF TypeInv, TypeOK, Row, NoRow

LEMMA ArrivalTypeInv ==
  ASSUME TypeInv, NEW p \in Requests, Arrival(p)
  PROVE  TypeInv'
<1>1. PICK s \in Servers :
        \/ CreateServer(p, s) \/ StartServer(p, s) \/ StopServer(p, s)
        \/ RestartServer(p, s) \/ DeleteServer(p, s)
  BY DEF Arrival
<1>2. row[s].linked \in BOOLEAN
  BY DEF TypeInv, TypeOK, Row
<1>3. PICK o \in AllOps, step \in {"preflight", "claim"}, cid \in BOOLEAN :
        Begin(p, o, s, step, cid)
  BY <1>1, <1>2, Zenon
     DEF CreateServer, StartServer, StopServer, RestartServer, DeleteServer, AllOps
<1>4. [pc |-> step, op |-> o, srv |-> s, cid |-> cid, held |-> "none", to |-> "none"]
        \in Request
  BY DEF Request, Steps
<1>5. QED
  BY <1>3, <1>4 DEF Begin, TypeInv, TypeOK, Located

(* What a handler step may do to the other variables, as far as types go. *)
FrameTyped ==
  /\ row' \in [Servers -> Row] /\ used' \subseteq Servers
  /\ ctr' \in [Servers -> ContainerState] /\ late' \subseteq Effects \X Servers
  /\ UNCHANGED <<boot, seen, snap, allocatable>>

InFlight == Steps \ {"idle", "settle"}

(* The ways in which a handler step moves its own request. *)
Moves(p) ==
  \/ \E step \in InFlight : Goto(p, step)
  \/ \E st \in Status : SettleTo(p, st)
  \/ End(p)
  \/ \E h \in Transient \cup {"none"} : Throw(p, h)
  \/ \E step \in InFlight, h \in Transient \cup {"none"} :
       req' = [req EXCEPT ![p] = [@ EXCEPT !.pc = step, !.held = h]]
  \/ req' = [req EXCEPT ![p] = [@ EXCEPT !.pc = "start", !.cid = TRUE]]

LEMMA MovesTypeInv ==
  ASSUME TypeInv, NEW p \in Requests, req[p].pc # "idle", Moves(p), FrameTyped
  PROVE  TypeInv'
<1> DEFINE Fits(r) == /\ r \in Request
                      /\ r.pc # "idle" => r.srv \in Servers
                      /\ r.pc = "settle" => r.to \in Status
<1>1. SUFFICES ASSUME NEW r, Fits(r), req' = [req EXCEPT ![p] = r]
               PROVE  TypeInv'
  <2>1. req[p] \in Request /\ req[p].srv \in Servers
    BY DEF TypeInv, TypeOK, Located
  <2>2. Fits(Idle)
    BY RequestType, Zenon DEF Idle
  <2>3. ASSUME NEW step \in InFlight
        PROVE  Fits([req[p] EXCEPT !.pc = step])
    BY <2>1 DEF Request, InFlight
  <2>4. ASSUME NEW st \in Status
        PROVE  Fits([req[p] EXCEPT !.pc = "settle", !.to = st])
    BY <2>1, RequestType, Zenon DEF Request
  <2>5. ASSUME NEW step \in InFlight, NEW h \in Transient \cup {"none"}
        PROVE  Fits([req[p] EXCEPT !.pc = step, !.held = h])
    BY <2>1, Zenon DEF Request, InFlight
  <2>6. ASSUME NEW h \in Transient \cup {"none"}
        PROVE  Fits([req[p] EXCEPT !.pc = "unwind", !.held = h, !.to = "none"])
    BY <2>1, Zenon DEF Request, Steps
  <2>7. Fits([req[p] EXCEPT !.pc = "start", !.cid = TRUE])
    <3>1. [req[p] EXCEPT !.pc = "start", !.cid = TRUE] \in Request
      BY RequestType, Zenon
    <3>2. QED
      BY <2>1, <3>1 DEF Request
  <2>8. \E r : Fits(r) /\ req' = [req EXCEPT ![p] = r]
    <3> HIDE DEF Fits
    <3>1. QED
      BY <2>2, <2>3, <2>4, <2>5, <2>6, <2>7, Zenon DEF Moves, Goto, SettleTo, End, Throw
  <2>9. QED
    BY <2>8, <1>1, Zenon
<1>2. QED
  BY <1>1 DEF FrameTyped, TypeInv, TypeOK, Located

LEMMA HandlerTypeInv ==
  ASSUME TypeInv, NEW p \in Requests, HandlerStep(p)
  PROVE  TypeInv'
<1> DEFINE s == req[p].srv
<1>1. /\ req[p].held \in Transient \cup {"none"}
      /\ row \in [Servers -> Row] /\ used \subseteq Servers
      /\ ctr \in [Servers -> ContainerState] /\ late \subseteq Effects \X Servers
  BY DEF TypeInv, TypeOK, Request
<1>2. req[p].pc # "idle" => s \in Servers
  BY DEF TypeInv, Located
<1>3. s \in Servers =>
        /\ \A st \in Status : [row[s] EXCEPT !.status = st] \in Row
        /\ \A st \in Status, b \in BOOLEAN : [status |-> st, linked |-> b] \in Row
        /\ [row[s] EXCEPT !.linked = TRUE] \in Row
        /\ NoRow \in Row
  BY RowType
<1>4. Transient \subseteq Status /\ {"RUNNING", "STOPPED", "ERROR"} \subseteq Status
  BY DEF Status
<1>5. {"STARTING", "STOPPING", "CREATING"} = Transient
  BY DEF Transient
<1>6. InFlight = {"preflight", "admit", "commit", "claim", "say", "save", "attach", "lookup",
          "adopt", "discard", "inspect", "eraseStopped", "eraseAbsent",
          "erase", "unwind", "create", "start", "stop", "remove"}
  BY DEF InFlight, Steps, Effects
<1>7. ASSUME NEW ok \in BOOLEAN, Preflight(p, ok) \/ InsertRow(p, ok) \/ WarnPlayers(p, ok)
      PROVE  TypeInv'
  <2>1. req[p].pc # "idle" /\ Moves(p)
    BY <1>1, <1>5, <1>6, <1>7, Zenon DEF Preflight, InsertRow, WarnPlayers, Moves
  <2>2. FrameTyped
    BY <1>1, <1>2, <1>3, <1>4, <1>5, <1>7, Zenon DEF Preflight, InsertRow, WarnPlayers, FrameTyped
  <2>3. QED
    BY <2>1, <2>2, MovesTypeInv
<1>8. ASSUME Admit(p) \/ ClaimStart(p) \/ ClaimStopping(p)
      PROVE  TypeInv'
  <2>1. req[p].pc # "idle" /\ Moves(p)
    BY <1>1, <1>5, <1>6, <1>8, Zenon DEF Admit, ClaimStart, ClaimStopping, Moves
  <2>2. FrameTyped
    BY <1>1, <1>2, <1>3, <1>4, <1>5, <1>8
       DEF Admit, ClaimStart, ClaimStopping, SetStatus, FrameTyped
  <2>3. QED
    BY <2>1, <2>2, MovesTypeInv
<1>9. ASSUME NEW a \in DaemonAnswers,
             \/ CreateContainer(p, a) \/ StartContainer(p, a) \/ StopContainer(p, a)
             \/ RemoveContainer(p, a) \/ LookupCreated(p, a) \/ InspectRemoved(p, a)
      PROVE  TypeInv'
  <2>1. req[p].pc # "idle" /\ Moves(p)
    BY <1>4, <1>6, <1>9, Zenon
       DEF CreateContainer, StartContainer, StopContainer, RemoveContainer, LookupCreated,
           InspectRemoved, Moves
  <2>2. PICK call \in Calls : Docker(call, s, a)
    BY <1>9
       DEF CreateContainer, StartContainer, StopContainer, RemoveContainer, LookupCreated,
           InspectRemoved, Calls, Effects
  <2>3. /\ ctr' \in [Servers -> ContainerState]
        /\ late' \subseteq Effects \X Servers
    BY <1>2, <2>1, <2>2, DockerType
  <2>4. FrameTyped
    BY <1>1, <1>9, <2>3
       DEF CreateContainer, StartContainer, StopContainer, RemoveContainer, LookupCreated,
           InspectRemoved, FrameTyped
  <2>5. QED
    BY <2>1, <2>4, MovesTypeInv
<1>10. ASSUME \/ AttachContainer(p) \/ AdoptContainer(p) \/ DiscardRow(p)
              \/ EraseRow(p) \/ Unwind(p)
       PROVE  TypeInv'
  <2>1. req[p].pc # "idle" /\ Moves(p)
    BY <1>6, <1>10, Zenon
       DEF AttachContainer, AdoptContainer, DiscardRow, EraseRow, Unwind, Moves
  <2>2. FrameTyped
    BY <1>1, <1>2, <1>3, <1>4, <1>10, Zenon
       DEF AttachContainer, AdoptContainer, DiscardRow, EraseRow, Unwind, SetStatus,
           DeleteRow, FrameTyped
  <2>3. QED
    BY <2>1, <2>2, MovesTypeInv
<1>11. ASSUME Settle(p)
       PROVE  TypeInv'
  <2>1. req[p].pc # "idle" /\ Moves(p)
    BY <1>4, <1>11, Zenon DEF Settle, Moves
  <2>2. req[p].to \in Status
    BY <1>11 DEF Settle, TypeInv, Located
  <2>3. FrameTyped
    BY <1>1, <1>2, <1>3, <1>11, <2>2 DEF Settle, SetStatus, FrameTyped
  <2>4. QED
    BY <2>1, <2>3, MovesTypeInv
<1>12. QED
  BY <1>7, <1>8, <1>9, <1>10, <1>11 DEF HandlerStep, Advance

LEMMA BootTypeInv ==
  ASSUME TypeInv, BootStep
  PROVE  TypeInv'
<1> USE DEF TypeInv, TypeOK, Located
<1>1. NoRow \in Row
  BY DEF NoRow, Row
<1>2. CASE BootRead
  BY <1>2 DEF BootRead, Findings
<1>3. CASE BootDecide \/ BootDone
  BY <1>1, <1>3 DEF BootDecide, BootDone, ForgetBoot, Findings
<1>4. ASSUME NEW s \in Servers, BootWrite(s)
      PROVE  TypeInv'
  <2>1. \A b \in BOOLEAN : /\ [status |-> "RUNNING", linked |-> b] \in Row
                           /\ [status |-> "STOPPED", linked |-> b] \in Row
    BY DEF Row, Status
  <2>2. QED
    BY <1>4, <2>1, Zenon DEF BootWrite, Findings
<1>5. ASSUME NEW s \in Servers, NEW a \in DaemonAnswers, BootInspect(s, a) \/ BootLookup(s, a)
      PROVE  TypeInv'
  <2>1. /\ ctr' \in [Servers -> ContainerState]
        /\ late' \subseteq Effects \X Servers
    BY <1>5, DockerType, Zenon DEF BootInspect, BootLookup, Calls
  <2>2. seen' \in [Servers -> Findings]
    BY <1>5 DEF BootInspect, BootLookup, Found, Findings
  <2>3. QED
    BY <1>5, <2>1, <2>2 DEF BootInspect, BootLookup
<1>6. QED
  BY <1>2, <1>3, <1>4, <1>5 DEF BootStep

LEMMA EnvironmentTypeInv ==
  ASSUME TypeInv, Environment
  PROVE  TypeInv'
<1>1. CASE Crash
  <2>1. Idle \in Request /\ NoRow \in Row
    BY DEF Idle, Request, Steps, NoRow, Row
  <2>2. late' \subseteq Effects \X Servers
    <3>1. \A q \in Requests : req[q].pc \in Effects => req[q].srv \in Servers
      BY DEF TypeInv, Located, Effects
    <3>2. QED
      BY <1>1, <3>1 DEF Crash, TypeInv, TypeOK
  <2>3. Located'
    BY <1>1 DEF Crash, Idle, Located
  <2>4. QED
    BY <1>1, <2>1, <2>2, <2>3 DEF Crash, ForgetBoot, Findings, TypeInv, TypeOK
<1>2. ASSUME NEW p \in Requests, DbFailure(p)
      PROVE  TypeInv'
  <2>1. req[p].held \in Transient \cup {"none"}
    BY DEF TypeInv, TypeOK, Request
  <2>2. req[p].pc # "idle" /\ Moves(p)
    BY <1>2, <2>1, Zenon DEF DbFailure, Moves, Status
  <2>3. FrameTyped
    BY <1>2 DEF DbFailure, FrameTyped, TypeInv, TypeOK
  <2>4. QED
    BY <2>2, <2>3, MovesTypeInv
<1>3. ASSUME NEW s \in Servers, NEW c \in ContainerState, External(s, c)
      PROVE  TypeInv'
  BY <1>3 DEF External, TypeInv, TypeOK, Located
<1>4. ASSUME NEW s \in Servers, NEW call \in Effects, LateEffect(call, s) \/ LateDrop(call, s)
      PROVE  TypeInv'
  <2>1. Performed(call, s) \in [Servers -> ContainerState]
    BY EffectType DEF Performed, TypeInv, TypeOK
  <2>2. QED
    BY <1>4, <2>1 DEF LateEffect, LateDrop, TypeInv, TypeOK, Located
<1>5. QED
  BY <1>1, <1>2, <1>3, <1>4 DEF Environment

LEMMA NextTypeInv == TypeInv /\ [Next]_vars => TypeInv'
<1>1. CASE UNCHANGED vars
  BY <1>1 DEF vars, TypeInv, TypeOK, Located
<1>2. QED
  BY <1>1, ArrivalTypeInv, HandlerTypeInv, BootTypeInv, EnvironmentTypeInv DEF Next

(* ServerLifecycle is well typed: rows have a ServerStatus, requests are at *)
(* a step of a handler of servers.service.ts, whatever goes wrong.          *)
THEOREM TypeCorrect == Spec => []TypeOK
<1>1. TypeInv => TypeOK
  BY DEF TypeInv
<1>2. QED
  BY <1>1, InitTypeInv, NextTypeInv, PTL DEF Spec

-----------------------------------------------------------------------------
(* The claims.  ClaimHeld and OneOwner are inductive together with what the *)
(* handlers know of themselves (Shaped), with the fact that no handler runs *)
(* before reconciliation is over (Quiet), and with the uniqueness of the id *)
(* a create has drawn but not yet inserted (Known, Fresh).                  *)

(* What a request holds at each of its steps. *)
Shaped(r) ==
  /\ r.pc = "idle" => r = Idle
  /\ r.pc # "idle" => r.op \in AllOps
  /\ r.pc \in {"preflight", "admit", "commit"} =>
       /\ r.op \in {"create", "start", "restart"}
       /\ r.held = IF r.op = "restart" THEN "STOPPING" ELSE "none"
  /\ r.pc = "claim" => r.op \in {"stop", "restart", "delete"} /\ r.held = "none"
  /\ r.pc \in {"create", "attach", "lookup", "adopt", "discard"} =>
       r.op = "create" /\ r.held = "CREATING"
  /\ r.pc = "start" =>
       /\ r.op \in {"create", "start", "restart"}
       /\ r.held = IF r.op = "create" THEN "CREATING" ELSE "STARTING"
  /\ r.pc \in {"say", "save", "stop"} => r.op \in {"stop", "restart"} /\ r.held = "STOPPING"
  /\ r.pc \in {"remove", "inspect", "eraseStopped", "eraseAbsent"} =>
       r.op = "delete" /\ r.held = "STOPPING"
  /\ r.pc = "erase" => r.op = "delete" /\ r.held \in {"STOPPING", "none"}
  /\ r.pc = "settle" => r.held # "none"
  /\ r.pc = "unwind" => r.op = "restart"
  /\ r.op = "create" /\ r.held = "none" => r.cid = FALSE

AllShaped == \A p \in Requests : Shaped(req[p])

Quiet == boot # "serving" => \A p \in Requests : req[p].pc = "idle"

(* A deleted row that is to be deleted once more stays deleted. *)
Erased ==
  \A p \in Requests :
    req[p].pc = "erase" /\ req[p].held = "none" => ~Exists(req[p].srv)

Known == \A s \in Servers : Exists(s) \/ seen[s] # "skip" => s \in used

(* A create that has not inserted its row is alone with its id. *)
Drawn(r) == r.op = "create" /\ r.held = "none"
Fresh ==
  \A p \in Requests :
    Drawn(req[p]) => /\ req[p].srv \notin used
                     /\ \A q \in Requests : q # p => req[q].srv # req[p].srv

ClaimInv ==
  /\ TypeInv /\ AllShaped /\ Quiet /\ Known /\ Fresh /\ Erased
  /\ ClaimHeld /\ OneOwner

LEMMA InitClaimInv == Init => ClaimInv
BY InitTypeInv
   DEF Init, ClaimInv, AllShaped, Shaped, Quiet, Known, Fresh, Drawn, Erased, ClaimHeld,
       OneOwner, Exists, Idle, NoRow

(* What a step of request p leaves behind when p becomes r and the table    *)
(* changes at p's server only: the other requests keep what they hold.      *)
Harmless(p, r) ==
  LET s == req[p].srv IN
  /\ req' = [req EXCEPT ![p] = r]
  /\ Shaped(r)
  /\ r = Idle \/ (r.srv = s /\ r.op = req[p].op)
  /\ \A t \in Servers : t # s => row'[t] = row[t]
  /\ r.held # "none" => row'[s].status = r.held /\ row'[s].linked = r.cid
  /\ r.pc = "erase" /\ r.held = "none" => row'[s].status = "ABSENT"
  /\ row'[s] # row[s] \/ r.held # "none" =>
       \A q \in Requests : q # p /\ req[q].held # "none" => req[q].srv # s
  /\ \/ row'[s].status # "ABSENT" => row[s].status # "ABSENT"
     \/ Drawn(req[p])
  /\ \/ used' = used /\ (row'[s].status # "ABSENT" => s \in used)
     \/ Drawn(req[p]) /\ r.held # "none" /\ used' = used \cup {s}
  /\ Drawn(r) => Drawn(req[p]) /\ used' = used
  /\ UNCHANGED <<boot, seen>>

LEMMA HarmlessClaimInv ==
  ASSUME ClaimInv, TypeInv', NEW p \in Requests, req[p].pc # "idle", NEW r, Harmless(p, r)
  PROVE  ClaimInv'
<1> DEFINE s == req[p].srv
<1>1. /\ s \in Servers
      /\ req \in [Requests -> Request]
      /\ row \in [Servers -> Row] /\ row' \in [Servers -> Row]
      /\ Idle.held = "none" /\ Idle.pc = "idle" /\ Idle.op = "none"
      /\ Idle.srv = NoServer /\ NoServer \notin Servers
  BY LifecycleAssumption DEF ClaimInv, TypeInv, TypeOK, Located, Idle
<1>2. /\ req'[p] = r
      /\ \A q \in Requests : q # p => req'[q] = req[q]
  BY <1>1 DEF Harmless
<1>3. \A q \in Requests : req[q].held # "none" => req[q].srv \in Servers /\ req[q].pc # "idle"
  BY <1>1 DEF ClaimInv, TypeInv, Located, AllShaped, Shaped
<1>4. AllShaped'
  BY <1>2 DEF Harmless, ClaimInv, AllShaped
<1>5. Quiet'
  BY <1>2 DEF Harmless, ClaimInv, Quiet
<1>6. Known'
  BY <1>1 DEF Harmless, ClaimInv, Known, Exists
<1>7. Fresh'
  <2>1. ASSUME NEW q \in Requests, Drawn(req'[q])
        PROVE  /\ req'[q].srv \notin used'
               /\ \A o \in Requests : o # q => req'[o].srv # req'[q].srv
    <3>1. Drawn(req[q]) /\ req'[q].srv = req[q].srv
      BY <1>1, <1>2, <2>1 DEF Harmless, Drawn
    <3>2. req[q].srv \notin used /\ \A o \in Requests : o # q => req[o].srv # req[q].srv
      BY <3>1 DEF ClaimInv, Fresh
    <3>3. req[q].srv \in Servers
      BY <1>1, <3>1 DEF Drawn, ClaimInv, AllShaped, Shaped, TypeInv, Located
    <3>4. req'[q].srv \notin used'
      BY <1>1, <1>2, <2>1, <3>1, <3>2 DEF Harmless, Drawn
    <3>5. QED
      BY <1>1, <1>2, <3>1, <3>2, <3>3, <3>4 DEF Harmless
  <2>2. QED
    BY <2>1 DEF Fresh, Drawn
<1>8. ASSUME NEW q \in Requests, req'[q].held # "none"
      PROVE  row'[req'[q].srv].status = req'[q].held /\ row'[req'[q].srv].linked = req'[q].cid
  <2>1. CASE q = p
    BY <1>1, <1>2, <1>8, <2>1 DEF Harmless
  <2>2. CASE q # p
    <3>1. row[req[q].srv].status = req[q].held /\ row[req[q].srv].linked = req[q].cid
      BY <1>2, <1>8, <2>2 DEF ClaimInv, ClaimHeld, Matches
    <3>2. row'[req[q].srv] = row[req[q].srv]
      BY <1>2, <1>3, <1>8, <2>2 DEF Harmless
    <3>3. QED
      BY <1>2, <2>2, <3>1, <3>2
  <2>3. QED
    BY <2>1, <2>2
<1>9. ClaimHeld'
  <2>1. \A q \in Requests : req'[q].held # "ABSENT"
    BY DEF TypeInv, TypeOK, Request, Transient
  <2>2. QED
    BY <1>8, <2>1 DEF ClaimHeld, Exists, Matches
<1>10. OneOwner'
  <2>1. r.held # "none" => r.srv = s
    BY <1>1 DEF Harmless
  <2>2. QED
    BY <1>2, <2>1 DEF Harmless, ClaimInv, OneOwner
<1>11. Erased'
  <2>1. ASSUME NEW q \in Requests, req'[q].pc = "erase", req'[q].held = "none"
        PROVE  row'[req'[q].srv].status = "ABSENT"
    <3>1. CASE q = p
      BY <1>1, <1>2, <2>1, <3>1 DEF Harmless
    <3>2. CASE q # p
      <4>1. row[req[q].srv].status = "ABSENT" /\ req[q].srv \in Servers
        BY <1>2, <2>1, <3>2 DEF ClaimInv, Erased, Exists, TypeInv, Located
      <4>2. Drawn(req[p]) => req[q].srv # s
        BY <3>2 DEF ClaimInv, Fresh
      <4>3. QED
        BY <1>2, <3>2, <4>1, <4>2 DEF Harmless
    <3>3. QED
      BY <3>1, <3>2
  <2>2. QED
    BY <2>1 DEF Erased, Exists
<1>12. QED
  BY <1>4, <1>5, <1>6, <1>7, <1>9, <1>10, <1>11 DEF ClaimInv

(* What the invariant says to a request about to take a step: the row is as *)
(* it holds it, and nobody else holds a row that is its own, that is        *)
(* settled, or that does not exist.                                         *)
Standing(p) ==
  LET r == req[p]  s == req[p].srv IN
  /\ r \in Request /\ s \in Servers /\ row \in [Servers -> Row]
  /\ r.pc # "idle" /\ Shaped(r)
  /\ r.held # "none" => row[s].status = r.held /\ row[s].linked = r.cid
  /\ r.held # "none" \/ row[s].status \notin Transient =>
       \A q \in Requests : q # p /\ req[q].held # "none" => req[q].srv # s
  /\ row[s].status # "ABSENT" => s \in used
  /\ Drawn(r) => row[s].status = "ABSENT" /\ s \notin used
  /\ r.pc = "erase" /\ r.held = "none" => row[s].status = "ABSENT"

LEMMA StandingHolds ==
  ASSUME ClaimInv, NEW p \in Requests, req[p].pc # "idle"
  PROVE  Standing(p)
<1>1. /\ req[p] \in Request /\ req[p].srv \in Servers /\ row \in [Servers -> Row]
      /\ \A q \in Requests : req[q].held \in Transient \cup {"none"}
  BY DEF ClaimInv, TypeInv, TypeOK, Located, Request
<1>2. \A q \in Requests : req[q].held # "none" =>
        row[req[q].srv].status = req[q].held /\ row[req[q].srv].linked = req[q].cid
  BY DEF ClaimInv, ClaimHeld, Matches
<1>3. row[req[p].srv].status # "ABSENT" => req[p].srv \in used
  BY <1>1 DEF ClaimInv, Known, Exists
<1>4. Drawn(req[p]) => req[p].srv \notin used
  BY DEF ClaimInv, Fresh
<1>5. ASSUME NEW q \in Requests, q # p, req[q].held # "none",
             req[p].held # "none" \/ row[req[p].srv].status \notin Transient
      PROVE  req[q].srv # req[p].srv
  BY <1>1, <1>2, <1>5 DEF ClaimInv, OneOwner
<1>6. /\ Shaped(req[p])
      /\ req[p].pc = "erase" /\ req[p].held = "none" => row[req[p].srv].status = "ABSENT"
  BY DEF ClaimInv, AllShaped, Erased, Exists
<1>7. QED
  BY <1>1, <1>2, <1>3, <1>4, <1>5, <1>6 DEF Standing

LEMMA IdleShaped == Shaped(Idle) /\ ~Drawn(Idle) /\ Idle.held = "none" /\ Idle.pc = "idle"
BY DEF Shaped, Drawn, Idle

(* A step that leaves the table alone and lets go of nothing it needs. *)
LEMMA QuietStep ==
  ASSUME NEW p \in Requests, Standing(p), UNCHANGED <<row, used, boot, seen>>,
         NEW r, req' = [req EXCEPT ![p] = r], Shaped(r),
         r = Idle \/ /\ r.srv = req[p].srv /\ r.op = req[p].op /\ r.cid = req[p].cid
                     /\ r.held \in {req[p].held, "none"}
                     /\ r.pc = "erase" => r.held # "none"
                     /\ Drawn(r) => Drawn(req[p])
  PROVE  Harmless(p, r)
<1>1. row' = row /\ used' = used /\ boot' = boot /\ seen' = seen
  OBVIOUS
<1>2. CASE r = Idle
  BY <1>1, <1>2, IdleShaped DEF Standing, Harmless
<1>3. CASE r # Idle
  BY <1>1, <1>3 DEF Standing, Harmless
<1>4. QED
  BY <1>2, <1>3

(* A write on a row that the request holds, or that is settled. *)
LEMMA OwnWrite ==
  ASSUME NEW p \in Requests, Standing(p), UNCHANGED <<used, boot, seen>>,
         row[req[p].srv].status # "ABSENT",
         req[p].held # "none" \/ row[req[p].srv].status \notin Transient,
         NEW w, row' = [row EXCEPT ![req[p].srv] = w],
         NEW r, req' = [req EXCEPT ![p] = r], Shaped(r),
         \/ r = Idle
         \/ /\ r.srv = req[p].srv /\ r.op = req[p].op
            /\ r.held # "none" => w.status = r.held /\ w.linked = r.cid
            /\ r.pc = "erase" /\ r.held = "none" => w.status = "ABSENT"
            /\ ~Drawn(r)
  PROVE  Harmless(p, r)
<1>1. /\ row'[req[p].srv] = w
      /\ \A t \in Servers : t # req[p].srv => row'[t] = row[t]
      /\ used' = used /\ boot' = boot /\ seen' = seen
  BY DEF Standing
<1>2. CASE r = Idle
  BY <1>1, <1>2, IdleShaped DEF Standing, Harmless
<1>3. CASE r # Idle
  BY <1>1, <1>3 DEF Standing, Harmless
<1>4. QED
  BY <1>2, <1>3


(* The moves of a handler that leave the table alone. *)
LEMMA QuietMoves ==
  ASSUME NEW p \in Requests, Standing(p), UNCHANGED <<row, used, boot, seen>>,
         \/ End(p)
         \/ \E h \in {req[p].held, "none"} : Throw(p, h)
         \/ \E st \in Status : SettleTo(p, st) /\ req[p].held # "none"
         \/ \E step \in Steps :
              /\ Goto(p, step) /\ Shaped([req[p] EXCEPT !.pc = step])
              /\ step = "erase" => req[p].held # "none"
  PROVE  \E r : Harmless(p, r)
<1> DEFINE r0 == req[p]
<1>1. r0 \in Request /\ Shaped(r0) /\ r0.pc # "idle"
  BY DEF Standing
<1>2. CASE req' = [req EXCEPT ![p] = Idle]
  BY <1>2, IdleShaped, QuietStep, Zenon
<1>3. ASSUME NEW h \in {r0.held, "none"}, r0.op = "restart",
             req' = [req EXCEPT ![p] = [r0 EXCEPT !.pc = "unwind", !.held = h, !.to = "none"]]
      PROVE  \E r : Harmless(p, r)
  <2> DEFINE r == [r0 EXCEPT !.pc = "unwind", !.held = h, !.to = "none"]
  <2>1. Shaped(r) /\ ~Drawn(r)
    BY <1>1, <1>3 DEF Shaped, Drawn, Request, AllOps
  <2>2. /\ r.srv = r0.srv /\ r.op = r0.op /\ r.cid = r0.cid /\ r.held = h /\ r.pc = "unwind"
    BY <1>1 DEF Request
  <2>3. Harmless(p, r)
    BY <1>3, <2>1, <2>2, QuietStep, Zenon
  <2>4. QED
    BY <2>3
<1>4. ASSUME NEW st \in Status, r0.held # "none",
             req' = [req EXCEPT ![p] = [r0 EXCEPT !.pc = "settle", !.to = st]]
      PROVE  \E r : Harmless(p, r)
  <2> DEFINE r == [r0 EXCEPT !.pc = "settle", !.to = st]
  <2>1. Shaped(r) /\ ~Drawn(r)
    BY <1>1, <1>4 DEF Shaped, Drawn, Request
  <2>2. /\ r.srv = r0.srv /\ r.op = r0.op /\ r.cid = r0.cid /\ r.held = r0.held
        /\ r.pc = "settle"
    BY <1>1 DEF Request
  <2>3. Harmless(p, r)
    BY <1>4, <2>1, <2>2, QuietStep, Zenon
  <2>4. QED
    BY <2>3
<1>5. ASSUME NEW step \in Steps, Shaped([r0 EXCEPT !.pc = step]),
             step = "erase" => r0.held # "none",
             req' = [req EXCEPT ![p] = [r0 EXCEPT !.pc = step]]
      PROVE  \E r : Harmless(p, r)
  <2> DEFINE r == [r0 EXCEPT !.pc = step]
  <2>1. /\ r.srv = r0.srv /\ r.op = r0.op /\ r.cid = r0.cid /\ r.held = r0.held
        /\ r.pc = step /\ (Drawn(r) => Drawn(r0))
    BY <1>1 DEF Request, Drawn
  <2>2. Harmless(p, r)
    BY <1>5, <2>1, QuietStep, Zenon
  <2>3. QED
    BY <2>2
<1>6. QED
  BY <1>2, <1>3, <1>4, <1>5, Zenon DEF End, Throw, SettleTo, Goto

LEMMA AdmissionHarmless ==
  ASSUME NEW p \in Requests, Standing(p),
         \/ \E ok \in BOOLEAN : Preflight(p, ok) \/ InsertRow(p, ok) \/ WarnPlayers(p, ok)
         \/ Admit(p) \/ ClaimStart(p) \/ ClaimStopping(p)
  PROVE  \E r : Harmless(p, r)
<1> DEFINE r0 == req[p]
           s == req[p].srv
<1>1. r0 \in Request /\ Shaped(r0) /\ s \in Servers /\ row[s] \in Row
  BY DEF Standing
<1>2. \A step \in {"admit", "commit"} :
        r0.pc \in {"preflight", "admit"} => Shaped([r0 EXCEPT !.pc = step])
  BY <1>1 DEF Shaped, Request
<1>3. ASSUME NEW ok \in BOOLEAN, Preflight(p, ok)
      PROVE  \E r : Harmless(p, r)
  BY <1>2, <1>3, QuietMoves DEF Preflight, Steps
<1>4. CASE Admit(p)
  BY <1>2, <1>4, QuietMoves DEF Admit, Steps
<1>5. ASSUME NEW ok \in BOOLEAN, InsertRow(p, ok)
      PROVE  \E r : Harmless(p, r)
  <2>1. CASE ~ok
    BY <1>5, <2>1, QuietMoves DEF InsertRow
  <2>2. CASE ok
    <3> DEFINE r == [r0 EXCEPT !.pc = "create", !.held = "CREATING"]
    <3>1. Drawn(r0) /\ r0.cid = FALSE /\ Shaped(r) /\ ~Drawn(r)
      BY <1>1, <1>5 DEF InsertRow, Shaped, Drawn, Request
    <3>2. r.srv = s /\ r.op = r0.op /\ r.held = "CREATING" /\ r.pc = "create" /\ r.cid = FALSE
      BY <1>1, <3>1 DEF Request
    <3>3. /\ req' = [req EXCEPT ![p] = r]
          /\ row'[s] = [status |-> "CREATING", linked |-> FALSE]
          /\ \A t \in Servers : t # s => row'[t] = row[t]
          /\ used' = used \cup {s} /\ UNCHANGED <<boot, seen>>
      BY <1>5, <2>2 DEF InsertRow, Standing
    <3>4. \A q \in Requests : q # p /\ req[q].held # "none" => req[q].srv # s
      BY <3>1 DEF Standing, Transient
    <3>5. row'[s].status = "CREATING" /\ row'[s].linked = r.cid
      <4>1. row'[s].status = "CREATING"
        BY <3>3
      <4>2. row'[s].linked = FALSE
        <5>1. [status |-> "CREATING", linked |-> FALSE].linked = FALSE
          OBVIOUS
        <5>2. QED
          BY <3>3, <5>1, Zenon
      <4>3. r.cid = FALSE
        BY <3>2
      <4>4. QED
        BY <4>1, <4>2, <4>3, Zenon
    <3>6. Harmless(p, r)
      <4> HIDE DEF r
      <4>1. QED
        BY <3>1, <3>2, <3>3, <3>4, <3>5, Zenon DEF Harmless
    <3>7. QED
      BY <3>6
  <2>3. QED
    BY <2>1, <2>2
<1>6. ASSUME NEW from \in {"RUNNING", "STOPPED", r0.held}, NEW st \in Transient,
             NEW step \in Steps, Matches(r0, from), from # "none", SetStatus(s, st),
             NEW r, r = [r0 EXCEPT !.pc = step, !.held = st], Shaped(r),
             req' = [req EXCEPT ![p] = r], UNCHANGED <<used, boot, seen>>
      PROVE  \E x : Harmless(p, x)
  <2> DEFINE w == [row[s] EXCEPT !.status = st]
  <2>1. /\ w.status = st /\ w.linked = row[s].linked /\ row[s].linked = r0.cid
        /\ row[s].status = from
    BY <1>1, <1>6 DEF Row, Matches
  <2>2. r.srv = s /\ r.op = r0.op /\ r.cid = r0.cid /\ r.held = st /\ st # "none" /\ ~Drawn(r)
    BY <1>1, <1>6 DEF Request, Transient, Drawn
  <2>3. row[s].status # "ABSENT" /\ (r0.held # "none" \/ row[s].status \notin Transient)
    BY <1>1, <1>6, <2>1 DEF Request, Transient
  <2>4. row' = [row EXCEPT ![s] = w]
    BY <1>6 DEF SetStatus
  <2>5. Harmless(p, r)
    <3> HIDE DEF w
    <3>1. QED
      BY <1>6, <2>1, <2>2, <2>3, <2>4, OwnWrite, Zenon
  <2>6. QED
    BY <2>5
<1>7. CASE ClaimStart(p)
  <2> DEFINE from == IF r0.op = "restart" THEN "STOPPING" ELSE "STOPPED"
             r == [r0 EXCEPT !.pc = "start", !.held = "STARTING"]
  <2>1. from \in {"STOPPED", r0.held} /\ from # "none" /\ Shaped(r)
    BY <1>1, <1>7 DEF ClaimStart, Shaped, Request
  <2>2. CASE Matches(r0, from)
    BY <1>6, <1>7, <2>1, <2>2, Zenon DEF ClaimStart, Steps, Effects, Transient
  <2>3. CASE ~Matches(r0, from)
    BY <1>7, <2>3, QuietMoves DEF ClaimStart
  <2>4. QED
    BY <2>2, <2>3
<1>8. CASE ClaimStopping(p)
  <2> DEFINE from == IF r0.op = "delete" THEN "STOPPED" ELSE "RUNNING"
             then == IF r0.op # "delete" THEN "say" ELSE IF r0.cid THEN "remove" ELSE "erase"
             r == [r0 EXCEPT !.pc = then, !.held = "STOPPING"]
  <2>1. from \in {"RUNNING", "STOPPED"} /\ from # "none" /\ Shaped(r)
    BY <1>1, <1>8 DEF ClaimStopping, Shaped, Request, AllOps
  <2>2. CASE Matches(r0, from)
    BY <1>6, <1>8, <2>1, <2>2, Zenon DEF ClaimStopping, Steps, Effects, Transient
  <2>3. CASE ~Matches(r0, from)
    BY <1>8, <2>3, QuietMoves DEF ClaimStopping
  <2>4. QED
    BY <2>2, <2>3
<1>9. ASSUME NEW ok \in BOOLEAN, WarnPlayers(p, ok)
      PROVE  \E r : Harmless(p, r)
  <2>1. \A step \in {"save", "stop"} : Shaped([r0 EXCEPT !.pc = step]) /\ step \in Steps
    BY <1>1, <1>9 DEF WarnPlayers, Shaped, Request, Steps, Effects
  <2>2. QED
    BY <1>9, <2>1, QuietMoves DEF WarnPlayers
<1>10. QED
  BY <1>3, <1>4, <1>5, <1>7, <1>8, <1>9

LEMMA DaemonHarmless ==
  ASSUME NEW p \in Requests, Standing(p), NEW a \in DaemonAnswers,
         \/ CreateContainer(p, a) \/ StartContainer(p, a) \/ StopContainer(p, a)
         \/ RemoveContainer(p, a) \/ LookupCreated(p, a) \/ InspectRemoved(p, a)
  PROVE  \E r : Harmless(p, r)
<1> DEFINE r0 == req[p]
           Move(step) == [r0 EXCEPT !.pc = step]
<1>1. r0 \in Request /\ Shaped(r0)
  BY DEF Standing
<1>2. {"RUNNING", "STOPPED", "ERROR"} \subseteq Status
  BY DEF Status
<1>3. CASE CreateContainer(p, a)
  <2>1. \A step \in {"attach", "lookup"} : Shaped(Move(step)) /\ step \in Steps
    BY <1>1, <1>3 DEF CreateContainer, Shaped, Request, Steps
  <2>2. QED
    BY <1>3, <2>1, QuietMoves DEF CreateContainer
<1>4. CASE StartContainer(p, a)
  <2>1. r0.held # "none"
    BY <1>1, <1>4, Zenon DEF StartContainer, Shaped
  <2>2. QED
    BY <1>2, <1>4, <2>1, QuietMoves DEF StartContainer
<1>5. CASE StopContainer(p, a)
  <2>1. r0.held # "none" /\ (r0.op = "restart" => Shaped(Move("preflight")))
    BY <1>1, <1>5 DEF StopContainer, Shaped, Request
  <2>2. QED
    BY <1>2, <1>5, <2>1, QuietMoves DEF StopContainer, Steps
<1>6. CASE RemoveContainer(p, a)
  <2>1. /\ \A step \in {"erase", "inspect"} : Shaped(Move(step)) /\ step \in Steps
        /\ r0.held # "none"
    BY <1>1, <1>6 DEF RemoveContainer, Shaped, Request, Steps
  <2>2. QED
    BY <1>6, <2>1, QuietMoves DEF RemoveContainer
<1>7. CASE LookupCreated(p, a)
  <2>1. \A step \in {"discard", "adopt"} : Shaped(Move(step)) /\ step \in Steps
    BY <1>1, <1>7 DEF LookupCreated, Shaped, Request, Steps
  <2>2. QED
    BY <1>7, <2>1, QuietMoves DEF LookupCreated
<1>8. CASE InspectRemoved(p, a)
  <2>1. /\ \A step \in {"eraseStopped", "eraseAbsent"} : Shaped(Move(step)) /\ step \in Steps
        /\ r0.held # "none"
    BY <1>1, <1>8 DEF InspectRemoved, Shaped, Request, Steps
  <2>2. QED
    BY <1>2, <1>8, <2>1, QuietMoves DEF InspectRemoved
<1>9. QED
  BY <1>3, <1>4, <1>5, <1>6, <1>7, <1>8

LEMMA WriteHarmless ==
  ASSUME NEW p \in Requests, Standing(p),
         \/ AttachContainer(p) \/ AdoptContainer(p) \/ DiscardRow(p)
         \/ EraseRow(p) \/ Settle(p) \/ OrderlyUnwind(p)
  PROVE  \E r : Harmless(p, r)
<1> DEFINE r0 == req[p]
           s == req[p].srv
<1>1. /\ r0 \in Request /\ Shaped(r0) /\ s \in Servers /\ row[s] \in Row
      /\ r0.held # "none" => row[s].status = r0.held /\ row[s].linked = r0.cid
  BY DEF Standing
<1>2. r0.held \in Transient \cup {"none"}
  BY <1>1 DEF Request
(* A write that ends the request, or leaves it with nothing in its hands. *)
<1>3. ASSUME r0.held # "none", UNCHANGED <<used, boot, seen>>,
             NEW w, row' = [row EXCEPT ![s] = w],
             \/ End(p) \/ Throw(p, "none")
             \/ /\ req' = [req EXCEPT ![p] = [@ EXCEPT !.pc = "erase", !.held = "none"]]
                /\ r0.op = "delete" /\ w.status = "ABSENT"
      PROVE  \E r : Harmless(p, r)
  <2>1. row[s].status # "ABSENT"
    BY <1>1, <1>2, <1>3 DEF Transient
  <2>2. CASE req' = [req EXCEPT ![p] = Idle]
    BY <1>3, <2>1, <2>2, IdleShaped, OwnWrite, Zenon
  <2>3. ASSUME r0.op = "restart",
               req' = [req EXCEPT ![p] = [r0 EXCEPT !.pc = "unwind", !.held = "none", !.to = "none"]]
        PROVE  \E r : Harmless(p, r)
    <3> DEFINE r == [r0 EXCEPT !.pc = "unwind", !.held = "none", !.to = "none"]
    <3>1. /\ Shaped(r) /\ ~Drawn(r) /\ r.srv = s /\ r.op = r0.op /\ r.held = "none"
          /\ r.pc = "unwind"
      BY <1>1, <2>3 DEF Shaped, Drawn, Request, AllOps
    <3>2. Harmless(p, r)
      <4> HIDE DEF r
      <4>1. req' = [req EXCEPT ![p] = r]
        BY <2>3 DEF r
      <4>2. QED
        BY <1>3, <2>1, <3>1, <4>1, OwnWrite, Zenon
    <3>3. QED
      BY <3>2
  <2>4. ASSUME r0.op = "delete", w.status = "ABSENT",
               req' = [req EXCEPT ![p] = [r0 EXCEPT !.pc = "erase", !.held = "none"]]
        PROVE  \E r : Harmless(p, r)
    <3> DEFINE r == [r0 EXCEPT !.pc = "erase", !.held = "none"]
    <3>1. /\ Shaped(r) /\ ~Drawn(r) /\ r.srv = s /\ r.op = r0.op /\ r.held = "none"
      BY <1>1, <2>4 DEF Shaped, Drawn, Request, AllOps
    <3>2. Harmless(p, r)
      <4> HIDE DEF r
      <4>1. req' = [req EXCEPT ![p] = r]
        BY <2>4 DEF r
      <4>2. QED
        BY <1>3, <2>1, <2>4, <3>1, <4>1, OwnWrite, Zenon
    <3>3. QED
      BY <3>2
  <2>5. QED
    BY <1>3, <2>2, <2>3, <2>4 DEF End, Throw
<1>4. CASE AttachContainer(p)
  <2> DEFINE r == [r0 EXCEPT !.pc = "start", !.cid = TRUE]
             w == [row[s] EXCEPT !.linked = TRUE]
  <2>1. /\ r0.held = "CREATING" /\ r0.op = "create" /\ row[s].status = "CREATING"
        /\ Matches(r0, "CREATING")
    BY <1>1, <1>4 DEF AttachContainer, Shaped, Matches
  <2>2. Shaped(r) /\ ~Drawn(r) /\ r.srv = s /\ r.op = r0.op /\ r.held = "CREATING" /\ r.pc = "start"
    BY <1>1, <2>1 DEF Shaped, Drawn, Request, AllOps
  <2>3. w.status = "CREATING" /\ w.linked = r.cid
    <3>1. w.status = "CREATING"
      BY <1>1, <2>1 DEF Row
    <3>2. w.linked = TRUE
      BY <1>1 DEF Row
    <3>3. r.cid = TRUE
      BY <1>1 DEF Request
    <3>4. QED
      BY <3>1, <3>2, <3>3, Zenon
  <2>4. /\ row' = [row EXCEPT ![s] = w] /\ req' = [req EXCEPT ![p] = r]
        /\ UNCHANGED <<used, boot, seen>>
    BY <1>4, <2>1 DEF AttachContainer
  <2>5. Harmless(p, r)
    <3> HIDE DEF r, w
    <3>1. QED
      BY <2>1, <2>2, <2>3, <2>4, OwnWrite, Zenon
  <2>6. QED
    BY <2>5
<1>5. CASE AdoptContainer(p) \/ DiscardRow(p)
  <2>1. r0.held = "CREATING" /\ row[s].status = "CREATING"
    BY <1>1, <1>5, Zenon DEF AdoptContainer, DiscardRow, Shaped
  <2>2. QED
    BY <1>3, <1>5, <2>1 DEF AdoptContainer, DiscardRow, DeleteRow
<1>6. CASE EraseRow(p)
  <2>1. CASE r0.held = "none"
    <3>1. r0.pc = "erase" /\ row[s].status = "ABSENT"
      BY <1>1, <1>6, <2>1 DEF EraseRow, Shaped, Standing
    <3>2. QED
      BY <1>6, <3>1, QuietMoves DEF EraseRow
  <2>2. CASE r0.held # "none"
    <3>1. r0.held = "STOPPING" /\ r0.op = "delete" /\ row[s].status = "STOPPING"
      BY <1>1, <1>6, <2>2 DEF EraseRow, Shaped
    <3>2. NoRow.status = "ABSENT"
      BY DEF NoRow
    <3>3. QED
      BY <1>3, <1>6, <3>1, <3>2 DEF EraseRow, DeleteRow
  <2>3. QED
    BY <2>1, <2>2
<1>7. CASE Settle(p)
  <2>1. r0.held # "none" /\ Matches(r0, r0.held)
    BY <1>1, <1>7 DEF Settle, Shaped, Matches
  <2>2. row' = [row EXCEPT ![s] = [row[s] EXCEPT !.status = r0.to]]
    BY <1>7, <2>1 DEF Settle, SetStatus
  <2>3. End(p) \/ Throw(p, "none")
    BY <1>7, <2>1 DEF Settle
  <2>4. UNCHANGED <<used, boot, seen>>
    BY <1>7 DEF Settle
  <2>5. QED
    BY <1>3, <2>1, <2>2, <2>3, <2>4, Zenon
<1>8. CASE OrderlyUnwind(p)
  <2>1. CASE row' = row
    BY <1>8, <2>1, QuietMoves DEF OrderlyUnwind, Unwind
  <2>2. CASE row' # row
    <3>1. r0.held # "none"
      BY <1>8, <2>2 DEF OrderlyUnwind
    <3>2. row' = [row EXCEPT ![s] = [row[s] EXCEPT !.status = "STOPPED"]]
      BY <1>8, <2>2 DEF OrderlyUnwind, Unwind, SetStatus
    <3>3. QED
      BY <1>3, <1>8, <3>1, <3>2, Zenon DEF OrderlyUnwind, Unwind
  <2>3. QED
    BY <2>1, <2>2
<1>9. QED
  BY <1>4, <1>5, <1>6, <1>7, <1>8

LEMMA HandlerHarmless ==
  ASSUME ClaimInv, NEW p \in Requests, OrderlyStep(p)
  PROVE  req[p].pc # "idle" /\ \E r : Harmless(p, r)
<1>1. req[p].pc # "idle"
  BY Zenon
     DEF OrderlyStep, Advance, Preflight, InsertRow, WarnPlayers, Admit, ClaimStart,
         ClaimStopping, CreateContainer,
         StartContainer, StopContainer, RemoveContainer, LookupCreated, InspectRemoved,
         AttachContainer, AdoptContainer, DiscardRow, EraseRow, Settle, OrderlyUnwind, Unwind
<1>2. Standing(p)
  BY <1>1, StandingHolds
<1>3. QED
  BY <1>1, <1>2, AdmissionHarmless, DaemonHarmless, WriteHarmless, Zenon DEF OrderlyStep, Advance

LEMMA DbFailureHarmless ==
  ASSUME ClaimInv, NEW p \in Requests, DbFailure(p)
  PROVE  req[p].pc # "idle" /\ \E r : Harmless(p, r)
<1>1. req[p].pc # "idle"
  BY DEF DbFailure
<1>2. Standing(p)
  BY <1>1, StandingHolds
<1>3. req[p].pc = "eraseStopped" => req[p].held # "none"
  BY <1>2 DEF Standing, Shaped
<1>4. QED
  BY <1>1, <1>2, <1>3, QuietMoves DEF DbFailure, Status

(* A new request holds nothing; only a create may draw an id not yet used. *)
LEMMA ArrivalClaimInv ==
  ASSUME ClaimInv, NEW p \in Requests, Arrival(p)
  PROVE  ClaimInv'
<1>1. PICK s \in Servers :
        \/ CreateServer(p, s) \/ StartServer(p, s) \/ StopServer(p, s)
        \/ RestartServer(p, s) \/ DeleteServer(p, s)
  BY DEF Arrival
<1>2. PICK o \in AllOps, step \in {"preflight", "claim"}, cid \in BOOLEAN :
        /\ Begin(p, o, s, step, cid)
        /\ o = "create" => cid = FALSE /\ s \notin used /\ \A q \in Requests : req[q].srv # s
        /\ o # "create" => s \in used
        /\ step = "preflight" => o \in {"create", "start"}
        /\ step = "claim" => o \in {"stop", "restart", "delete"}
  <2>1. row[s].linked \in BOOLEAN
    BY DEF ClaimInv, TypeInv, TypeOK, Row
  <2>2. QED
    BY <1>1, <2>1, Zenon DEF CreateServer, StartServer, StopServer, RestartServer, DeleteServer,
                      AllOps, ClaimInv, Known, Exists
<1> DEFINE r == [pc |-> step, op |-> o, srv |-> s, cid |-> cid, held |-> "none", to |-> "none"]
<1>3. /\ req'[p] = r
      /\ \A q \in Requests : q # p => req'[q] = req[q]
      /\ UNCHANGED <<row, used, boot, seen>> /\ boot = "serving"
  BY <1>2 DEF Begin, ClaimInv, TypeInv, TypeOK
<1>4. r.held = "none" /\ r.pc = step /\ r.op = o /\ r.srv = s /\ r.cid = cid
  OBVIOUS
<1> HIDE DEF r
<1>5. Shaped(r)
  BY <1>2, <1>4 DEF Shaped
<1>6. AllShaped' /\ Quiet' /\ Known' /\ Erased'
  BY <1>3, <1>4, <1>5 DEF ClaimInv, AllShaped, Quiet, Known, Erased, Exists
<1>7. ClaimHeld' /\ OneOwner'
  BY <1>3, <1>4 DEF ClaimInv, ClaimHeld, OneOwner, Exists, Matches
<1>8. Fresh'
  <2>1. ASSUME NEW q \in Requests, Drawn(req'[q])
        PROVE  /\ req'[q].srv \notin used
               /\ \A k \in Requests : k # q => req'[k].srv # req'[q].srv
    <3>1. CASE q = p
      BY <1>2, <1>3, <1>4, <2>1, <3>1 DEF Drawn
    <3>2. CASE q # p
      <4>1. /\ req[q].srv \notin used
            /\ \A k \in Requests : k # q => req[k].srv # req[q].srv
        BY <1>3, <2>1, <3>2 DEF ClaimInv, Fresh
      <4>2. s # req[q].srv
        BY <1>2, <4>1
      <4>3. QED
        BY <1>3, <1>4, <3>2, <4>1, <4>2
    <3>3. QED
      BY <3>1, <3>2
  <2>2. QED
    BY <1>3, <2>1 DEF Fresh, Drawn
<1>9. QED
  BY <1>6, <1>7, <1>8, ArrivalTypeInv DEF ClaimInv

LEMMA BootClaimInv ==
  ASSUME ClaimInv, BootStep
  PROVE  ClaimInv'
<1>1. boot # "serving" /\ req' = req
  BY DEF BootStep, BootRead, BootDecide, BootDone, BootWrite, BootInspect, BootLookup
<1>2. \A p \in Requests : req[p].held = "none" /\ req[p].pc = "idle" /\ ~Drawn(req[p])
  BY <1>1, IdleShaped DEF ClaimInv, Quiet, AllShaped, Shaped
<1>3. AllShaped' /\ Quiet' /\ Fresh' /\ Erased' /\ ClaimHeld' /\ OneOwner'
  <2>1. AllShaped' /\ Quiet'
    BY <1>1, <1>2 DEF ClaimInv, AllShaped, Quiet
  <2>2. Fresh' /\ Erased' /\ ClaimHeld' /\ OneOwner'
    BY <1>1, <1>2 DEF Fresh, Drawn, Erased, ClaimHeld, OneOwner
  <2>3. QED
    BY <2>1, <2>2
<1>4. Known'
  <2> USE DEF Known, Exists, ClaimInv, TypeInv, TypeOK
  <2>1. CASE BootRead
    BY <2>1 DEF BootRead
  <2>2. CASE BootDecide \/ BootDone
    BY <2>2 DEF BootDecide, BootDone, ForgetBoot
  <2>3. ASSUME NEW s \in Servers, BootWrite(s)
        PROVE  Known'
    BY <2>3 DEF BootWrite
  <2>4. ASSUME NEW s \in Servers, NEW a \in DaemonAnswers, BootInspect(s, a) \/ BootLookup(s, a)
        PROVE  Known'
    <3>1. seen[s] # "skip" /\ row' = row /\ used' = used
      BY <2>4 DEF BootInspect, BootLookup
    <3>2. \A t \in Servers : t # s => seen'[t] = seen[t]
      BY <2>4 DEF BootInspect, BootLookup
    <3>3. QED
      BY <3>1, <3>2
  <2>5. QED
    BY <2>1, <2>2, <2>3, <2>4 DEF BootStep
<1>5. QED
  BY <1>3, <1>4, BootTypeInv DEF ClaimInv

LEMMA EnvironmentClaimInv ==
  ASSUME ClaimInv, Environment
  PROVE  ClaimInv'
<1>1. TypeInv'
  BY EnvironmentTypeInv DEF ClaimInv
<1>2. CASE Crash
  <2>1. \A p \in Requests : req'[p] = Idle
    BY <1>2 DEF Crash
  <2>2. AllShaped' /\ Quiet' /\ Fresh' /\ Erased' /\ ClaimHeld' /\ OneOwner'
    BY <2>1, IdleShaped DEF AllShaped, Quiet, Fresh, Drawn, Erased, ClaimHeld, OneOwner
  <2>3. Known'
    BY <1>2 DEF Crash, ForgetBoot, ClaimInv, Known, Exists
  <2>4. QED
    BY <1>1, <2>2, <2>3 DEF ClaimInv
<1>3. ASSUME NEW p \in Requests, DbFailure(p)
      PROVE  ClaimInv'
  BY <1>1, <1>3, DbFailureHarmless, HarmlessClaimInv
<1>4. ASSUME NEW s \in Servers,
             \/ \E c \in ContainerState : External(s, c)
             \/ \E call \in Effects : LateEffect(call, s) \/ LateDrop(call, s)
      PROVE  ClaimInv'
  <2>1. UNCHANGED <<row, used, req, boot, seen>>
    BY <1>4, Zenon DEF External, LateEffect, LateDrop
  <2>2. QED
    BY <1>1, <2>1, Zenon DEF ClaimInv, AllShaped, Quiet, Known, Fresh, Erased, ClaimHeld, OneOwner,
                      Exists, Matches
<1>5. QED
  BY <1>2, <1>3, <1>4 DEF Environment

LEMMA NextClaimInv ==
  ASSUME ClaimInv, [OrderlyNext]_vars
  PROVE  ClaimInv'
<1>1. CASE UNCHANGED vars
  <2>1. TypeInv'
    BY <1>1, NextTypeInv DEF ClaimInv
  <2>2. QED
    BY <1>1, <2>1, Zenon DEF vars, ClaimInv, AllShaped, Quiet, Known, Fresh, Erased, ClaimHeld,
                      OneOwner, Exists, Matches
<1>2. ASSUME NEW p \in Requests, OrderlyStep(p)
      PROVE  ClaimInv'
  <2>1. TypeInv'
    BY <1>2, HandlerTypeInv DEF ClaimInv, OrderlyStep, OrderlyUnwind, HandlerStep
  <2>2. QED
    BY <1>2, <2>1, HandlerHarmless, HarmlessClaimInv, Zenon
<1>3. QED
  BY <1>1, <1>2, ArrivalClaimInv, BootClaimInv, EnvironmentClaimInv DEF OrderlyNext

(* Ownership of a server is exclusive and never lost: of the requests of    *)
(* servers.service.ts that passed the same status test one wins the         *)
(* compare-and-swap, and the row stays as the winner left it until the      *)
(* winner settles it, in every behaviour in which the outer catch block of  *)
(* restartServer does not touch a row its restart no longer owns.           *)
THEOREM ClaimsAreExclusive == OrderlySpec => [](ClaimHeld /\ OneOwner)
<1>1. ClaimInv => ClaimHeld /\ OneOwner
  BY DEF ClaimInv
<1>2. QED
  BY <1>1, InitClaimInv, NextClaimInv, PTL DEF OrderlySpec

-----------------------------------------------------------------------------
(* Without restarts the proviso is not needed.                              *)

NoRestart == \A p \in Requests : req[p].op # "restart"

LEMMA NextNoRestart ==
  ASSUME "restart" \notin Ops, ClaimInv, NoRestart, [Next]_vars
  PROVE  ClaimInv' /\ NoRestart'
<1>1. \A p \in Requests : HandlerStep(p) => OrderlyStep(p)
  BY Zenon DEF HandlerStep, OrderlyStep, Unwind, NoRestart, ClaimInv, AllShaped, Shaped
<1>2. ClaimInv'
  BY <1>1, NextClaimInv DEF Next, OrderlyNext
<1>3. ASSUME NEW p \in Requests, HandlerStep(p) \/ DbFailure(p)
      PROVE  NoRestart'
  <2>1. PICK r : Harmless(p, r)
    BY <1>1, <1>3, HandlerHarmless, DbFailureHarmless, Zenon
  <2>2. Idle.op = "none"
    BY DEF Idle
  <2>3. QED
    BY <2>1, <2>2, Zenon DEF Harmless, NoRestart, ClaimInv, TypeInv, TypeOK
<1>4. ASSUME NEW p \in Requests, Arrival(p)
      PROVE  NoRestart'
  <2>1. PICK s \in Servers :
          \/ CreateServer(p, s) \/ StartServer(p, s) \/ StopServer(p, s)
          \/ RestartServer(p, s) \/ DeleteServer(p, s)
    BY <1>4 DEF Arrival
  <2>2. row[s].linked \in BOOLEAN
    BY DEF ClaimInv, TypeInv, TypeOK, Row
  <2>3. PICK o \in AllOps, step \in {"preflight", "claim"}, cid \in BOOLEAN :
          Begin(p, o, s, step, cid)
    BY <2>1, <2>2, Zenon
       DEF CreateServer, StartServer, StopServer, RestartServer, DeleteServer, AllOps
  <2>4. QED
    BY <2>3, Zenon DEF Begin, NoRestart, ClaimInv, TypeInv, TypeOK
<1>5. CASE BootStep \/ UNCHANGED vars
  <2>1. req' = req
    BY <1>5 DEF BootStep, BootRead, BootDecide, BootDone, BootWrite, BootInspect, BootLookup, vars
  <2>2. QED
    BY <1>2, <2>1 DEF NoRestart
<1>6. CASE Environment
  <2>1. CASE Crash
    BY <1>2, <2>1 DEF Crash, Idle, NoRestart
  <2>2. CASE req' = req
    BY <1>2, <2>2 DEF NoRestart
  <2>3. QED
    BY <1>2, <1>3, <1>6, <2>1, <2>2, Zenon DEF Environment, External, LateEffect, LateDrop
<1>7. QED
  BY <1>2, <1>3, <1>4, <1>5, <1>6 DEF Next

(* The same of the whole specification when clients never restart a server: *)
(* create, start, stop and delete alone keep every claim exclusive.         *)
THEOREM ClaimsAreExclusiveWithoutRestart ==
  ASSUME "restart" \notin Ops
  PROVE  Spec => [](ClaimHeld /\ OneOwner)
<1>1. Init => ClaimInv /\ NoRestart
  BY InitClaimInv DEF Init, Idle, NoRestart
<1>2. ClaimInv /\ NoRestart /\ [Next]_vars => ClaimInv' /\ NoRestart'
  BY NextNoRestart
<1>3. ClaimInv => ClaimHeld /\ OneOwner
  BY DEF ClaimInv
<1>4. QED
  BY <1>1, <1>2, <1>3, PTL DEF Spec

-----------------------------------------------------------------------------
(* What a request becomes, and what a daemon call does.                    *)

(* A request that becomes x becomes nothing else. *)
LEMMA OneTurn ==
  ASSUME ClaimInv, NEW p \in Requests, NEW r, Harmless(p, r),
         NEW x, req' = [req EXCEPT ![p] = x]
  PROVE  r = x
BY DEF Harmless, ClaimInv, TypeInv, TypeOK

(* A daemon call changes its own container only, and an unanswered one may  *)
(* be left behind.                                                          *)
LEMMA DockerFacts ==
  ASSUME TypeInv, NEW call \in Calls, NEW s \in Servers, NEW a, Docker(call, s, a)
  PROVE  /\ \A t \in Servers : t # s => ctr'[t] = ctr[t]
         /\ a = "ok" => ctr'[s] = Effect(call, ctr[s])
         /\ a \in {"notFound", "rejected"} => ctr'[s] = ctr[s]
         /\ ctr'[s] \in {ctr[s], Effect(call, ctr[s])}
         /\ a # "unavailable" => late' = late
         /\ late' \subseteq late \cup {<<call, s>>}
         /\ call \notin Effects => late' = late
         /\ call \notin Effects => ctr'[s] = ctr[s]
         /\ a \in Answers(call, ctr[s])
<1>1. ctr \in [Servers -> ContainerState]
  BY DEF TypeInv, TypeOK
<1>2. /\ Performed(call, s)[s] = Effect(call, ctr[s])
      /\ \A t \in Servers : t # s => Performed(call, s)[t] = ctr[t]
  BY <1>1 DEF Performed
<1>3. call \notin Effects => Effect(call, ctr[s]) = ctr[s]
  BY DEF Effect, Effects
<1>4. /\ a = "ok" => ctr' = Performed(call, s)
      /\ a \in {"notFound", "rejected"} => ctr' = ctr
      /\ ctr' \in {ctr, Performed(call, s)}
      /\ a # "unavailable" => late' = late
      /\ late' \subseteq late \cup {<<call, s>>}
      /\ call \notin Effects => late' = late
      /\ a \in Answers(call, ctr[s])
  BY DEF Docker
<1>5. QED
  BY <1>2, <1>3, <1>4

-----------------------------------------------------------------------------
(* The tracks.  That a row is erased only once its container is gone     *)
(* rests on what a delete has seen (ReliesGone) and on where an abandoned   *)
(* create can still make a container (RowsTracking).                        *)

(* No abandoned create on s may still be carried out. *)
NoLateCreate(s) == <<"create", s>> \notin late

(* The steps of a delete at which it relies on there being no container. *)
ReliesGone(r) ==
  \/ r.pc = "eraseAbsent"
  \/ r.pc = "erase" /\ r.held = "STOPPING"

(* The steps of a create that may still vouch for its container. *)
Hopeful(r) ==
  /\ r.op = "create" /\ r.held = "CREATING"
  /\ r.pc \in {"create", "attach", "start"} \/ (r.pc = "settle" /\ r.to # "ERROR")

Tracking(r) ==
  /\ ReliesGone(r) => ctr[r.srv] = "none"
  /\ Hopeful(r) => NoLateCreate(r.srv)
  /\ r.op \in {"start", "stop", "restart"} => r.cid = TRUE
  /\ r.held = "CREATING" => r.op = "create"
  /\ r.pc = "settle" /\ r.op \in {"create", "delete"} => r.to # "STOPPED"

AllTracking == \A p \in Requests : Tracking(req[p])

(* A create without a caller concerns a row that is being created, has      *)
(* failed or is gone; a row without a containerId that may be deleted has   *)
(* no container.                                                            *)
RowsTracking ==
  \A s \in Servers :
    /\ ~NoLateCreate(s) => s \in used /\ row[s].status \in {"CREATING", "ERROR", "ABSENT"}
    /\ row[s].status = "STOPPED" /\ row[s].linked = FALSE => ctr[s] = "none"

BootTracking ==
  boot \in {"inspecting", "writing"} =>
    \A s \in Servers : NoLateCreate(s) /\ (seen[s] = "gone" => ctr[s] = "none")

TrackInv == ClaimInv /\ AllTracking /\ RowsTracking /\ BootTracking

LEMMA IdleTracking == Tracking(Idle) /\ Tracking(Idle)'
BY Zenon DEF Tracking, ReliesGone, Hopeful, Idle

(* What a step of request p that becomes r leaves true of its server. *)
Traced(p, r) ==
  LET s == req[p].srv IN
  /\ \A t \in Servers : t # s => ctr'[t] = ctr[t]
  /\ \A t \in Servers : <<"create", t>> \in late' =>
                         <<"create", t>> \in late \/ (t = s /\ req[p].held # "none")
  /\ ctr'[s] # ctr[s] => req[p].held # "none"
  /\ <<"create", s>> \in late' => s \in used' /\ row'[s].status \in {"CREATING", "ERROR", "ABSENT"}
  /\ row'[s].status = "STOPPED" /\ row'[s].linked = FALSE => ctr'[s] = "none"
  /\ Tracking(r)'

LEMMA TracedTrack ==
  ASSUME TrackInv, ClaimInv', NEW p \in Requests, req[p].pc # "idle",
         NEW r, Harmless(p, r), Traced(p, r)
  PROVE  TrackInv'
<1> DEFINE s == req[p].srv
<1>1. /\ s \in Servers /\ req \in [Requests -> Request] /\ boot = "serving"
      /\ \A q \in Requests : req[q].pc # "idle" => req[q].srv \in Servers
  BY DEF TrackInv, ClaimInv, TypeInv, TypeOK, Located, Quiet
<1>2. /\ req'[p] = r /\ \A q \in Requests : q # p => req'[q] = req[q]
      /\ \A t \in Servers : t # s => row'[t] = row[t]
      /\ boot' = "serving" /\ used \subseteq used'
  BY <1>1, Zenon DEF Harmless
<1>3. RowsTracking'
  BY <1>1, <1>2, ZenonT(60) DEF Traced, TrackInv, RowsTracking, NoLateCreate
<1>4. ASSUME NEW q \in Requests, q # p
      PROVE  Tracking(req[q])'
  <2>1. PICK x : x = req[q] /\ req'[q] = x
    BY <1>2, <1>4
  <2>2. Tracking(x) /\ Shaped(x)
    BY <2>1, Zenon DEF TrackInv, AllTracking, ClaimInv, AllShaped
  <2>3. ReliesGone(x) \/ Hopeful(x) => x.held # "none" /\ x.srv \in Servers
    BY <1>1, <2>1, <2>2, Zenon DEF ReliesGone, Hopeful, Shaped
  <2>4. x.held # "none" /\ req[p].held # "none" => x.srv # s
    BY <1>4, <2>1, Zenon DEF TrackInv, ClaimInv, OneOwner
  <2>5. Tracking(x)'
    BY <2>2, <2>3, <2>4, Zenon DEF Traced, Tracking, ReliesGone, Hopeful, NoLateCreate
  <2>6. QED
    BY <2>1, <2>5, Zenon DEF Tracking, ReliesGone, Hopeful, NoLateCreate
<1>5. Tracking(req[p])'
  BY <1>2, Zenon DEF Traced, Tracking, ReliesGone, Hopeful, NoLateCreate
<1>6. AllTracking'
  BY <1>4, <1>5 DEF AllTracking
<1>7. BootTracking'
  BY <1>2 DEF BootTracking
<1>8. QED
  BY <1>3, <1>6, <1>7 DEF TrackInv

(* What the invariant tells request p about its server. *)
LEMMA Traces ==
  ASSUME TrackInv, NEW p \in Requests, req[p].pc # "idle"
  PROVE  LET s == req[p].srv IN
         /\ ClaimInv /\ TypeInv /\ Standing(p) /\ Tracking(req[p]) /\ Shaped(req[p])
         /\ ~NoLateCreate(s) => s \in used /\ row[s].status \in {"CREATING", "ERROR", "ABSENT"}
         /\ row[s].status = "STOPPED" /\ row[s].linked = FALSE => ctr[s] = "none"
         /\ s \in Servers /\ req[p] \in Request /\ row \in [Servers -> Row] /\ row[s] \in Row
<1>1. Standing(p)
  BY StandingHolds DEF TrackInv
<1>2. QED
  BY <1>1, Zenon DEF Standing, TrackInv, AllTracking, RowsTracking, ClaimInv

(* A step that touches no container. *)
LEMMA WriteTraced ==
  ASSUME TrackInv, NEW p \in Requests, req[p].pc # "idle", UNCHANGED <<ctr, late>>,
         NEW r, Tracking(r),
         LET s == req[p].srv IN
           /\ ~NoLateCreate(s) => s \in used' /\ row'[s].status \in {"CREATING", "ERROR", "ABSENT"}
           /\ row'[s].status = "STOPPED" /\ row'[s].linked = FALSE => ctr[s] = "none"
  PROVE  Traced(p, r)
<1>1. ctr' = ctr /\ late' = late
  OBVIOUS
<1>2. Tracking(r)'
  BY <1>1 DEF Tracking, NoLateCreate
<1>3. QED
  BY <1>1, <1>2, Zenon DEF Traced, NoLateCreate

LEMMA QuietTraced ==
  ASSUME TrackInv, NEW p \in Requests, req[p].pc # "idle", UNCHANGED <<row, used, ctr, late>>,
         NEW r, Harmless(p, r),
         \/ End(p)
         \/ \E h \in {req[p].held, "none"} : Throw(p, h)
         \/ SettleTo(p, "ERROR")
         \/ \E step \in {"admit", "commit", "save", "stop", "lookup"} : Goto(p, step)
  PROVE  Traced(p, r)
<1> DEFINE r0 == req[p]
<1>1. ClaimInv /\ r0 \in Request /\ Tracking(r0)
  BY Traces, Zenon
<1>2. ASSUME Tracking(r)
      PROVE  Traced(p, r)
  <2>1. row' = row /\ used' = used
    OBVIOUS
  <2>2. QED
    BY <1>2, <2>1, Traces, WriteTraced, Zenon
<1>3. ASSUME r.pc \in {"unwind", "settle", "admit", "commit", "save", "stop", "lookup"},
             r.op = r0.op, r.cid = r0.cid, r.held \in {r0.held, "none"},
             r.pc = "settle" => r.to = "ERROR"
      PROVE  Traced(p, r)
  <2>1. Tracking(r)
    BY <1>1, <1>3, Zenon DEF Tracking, ReliesGone, Hopeful
  <2>2. QED
    BY <1>2, <2>1
<1>4. CASE End(p)
  <2>1. r = Idle
    BY <1>1, <1>4, OneTurn, Zenon DEF End
  <2>2. QED
    BY <1>2, <2>1, IdleTracking, Zenon
<1>5. ASSUME NEW h \in {r0.held, "none"},
             req' = [req EXCEPT ![p] = [r0 EXCEPT !.pc = "unwind", !.held = h, !.to = "none"]]
      PROVE  Traced(p, r)
  <2>1. r = [r0 EXCEPT !.pc = "unwind", !.held = h, !.to = "none"]
    BY <1>1, <1>5, OneTurn, Zenon
  <2>2. r.pc = "unwind" /\ r.op = r0.op /\ r.cid = r0.cid /\ r.held \in {r0.held, "none"}
    BY <1>1, <2>1 DEF Request
  <2>3. QED
    BY <1>3, <2>2, Zenon
<1>6. CASE SettleTo(p, "ERROR")
  <2>1. r = [r0 EXCEPT !.pc = "settle", !.to = "ERROR"]
    BY <1>1, <1>6, OneTurn, Zenon DEF SettleTo
  <2>2. /\ r.pc = "settle" /\ r.to = "ERROR" /\ r.op = r0.op /\ r.cid = r0.cid
        /\ r.held \in {r0.held, "none"}
    BY <1>1, <2>1 DEF Request
  <2>3. QED
    BY <1>3, <2>2, Zenon
<1>7. ASSUME NEW step \in {"admit", "commit", "save", "stop", "lookup"}, Goto(p, step)
      PROVE  Traced(p, r)
  <2>1. r = [r0 EXCEPT !.pc = step]
    BY <1>1, <1>7, OneTurn, Zenon DEF Goto
  <2>2. r.pc = step /\ r.op = r0.op /\ r.cid = r0.cid /\ r.held \in {r0.held, "none"}
    BY <1>1, <2>1 DEF Request
  <2>3. QED
    BY <1>3, <2>2
<1>8. ASSUME NEW h \in {r0.held, "none"}, Throw(p, h)
      PROVE  Traced(p, r)
  BY <1>4, <1>5, <1>8, Zenon DEF Throw
<1>9. QED
  BY <1>4, <1>6, <1>7, <1>8

LEMMA AdmissionTraced ==
  ASSUME TrackInv, NEW p \in Requests, req[p].pc # "idle", NEW r, Harmless(p, r),
         \/ \E ok \in BOOLEAN : Preflight(p, ok) \/ InsertRow(p, ok) \/ WarnPlayers(p, ok)
         \/ Admit(p) \/ ClaimStart(p) \/ ClaimStopping(p)
  PROVE  Traced(p, r)
<1> DEFINE r0 == req[p]
           s == req[p].srv
<1>1. /\ ClaimInv /\ r0 \in Request /\ Tracking(r0) /\ Shaped(r0) /\ Standing(p)
      /\ s \in Servers /\ row \in [Servers -> Row]
      /\ ~NoLateCreate(s) => s \in used /\ row[s].status \in {"CREATING", "ERROR", "ABSENT"}
      /\ row[s].status = "STOPPED" /\ row[s].linked = FALSE => ctr[s] = "none"
  BY Traces, Zenon
<1>2. ASSUME NEW ok \in BOOLEAN, Preflight(p, ok) \/ WarnPlayers(p, ok) \/ Admit(p)
      PROVE  Traced(p, r)
  BY <1>2, QuietTraced, Zenon DEF Preflight, WarnPlayers, Admit
<1>3. ASSUME NEW ok \in BOOLEAN, InsertRow(p, ok)
      PROVE  Traced(p, r)
  <2>1. CASE ~ok
    BY <1>3, <2>1, QuietTraced DEF InsertRow
  <2>2. CASE ok
    <3>1. r = [r0 EXCEPT !.pc = "create", !.held = "CREATING"]
      BY <1>1, <1>3, <2>2, OneTurn DEF InsertRow
    <3>2. r.pc = "create" /\ r.srv = s /\ r.op = "create" /\ r0.held = "none"
      BY <1>1, <1>3, <3>1 DEF Request, InsertRow, Shaped
    <3>3. NoLateCreate(s)
      BY <1>1, <1>3, <3>2 DEF Standing, Drawn, InsertRow
    <3>4. Tracking(r)
      BY <3>2, <3>3, Zenon DEF Tracking, ReliesGone, Hopeful
    <3>5. row'[s].status = "CREATING" /\ UNCHANGED <<ctr, late>>
      BY <1>1, <1>3, <2>2 DEF InsertRow
    <3>6. QED
      BY <3>3, <3>4, <3>5, WriteTraced, Zenon
  <2>3. QED
    BY <2>1, <2>2
<1>4. CASE ClaimStart(p)
  <2> DEFINE from == IF r0.op = "restart" THEN "STOPPING" ELSE "STOPPED"
  <2>1. CASE ~Matches(r0, from)
    BY <1>4, <2>1, QuietTraced DEF ClaimStart
  <2>2. CASE Matches(r0, from)
    <3>1. r = [r0 EXCEPT !.pc = "start", !.held = "STARTING"]
      BY <1>1, <1>4, <2>2, OneTurn DEF ClaimStart
    <3>2. /\ r.pc = "start" /\ r.held = "STARTING" /\ r.op = r0.op /\ r.cid = r0.cid
      BY <1>1, <3>1 DEF Request
    <3>3. NoLateCreate(s)
      BY <1>1, <2>2, Zenon DEF Matches
    <3>4. Tracking(r)
      BY <1>1, <3>2, Zenon DEF Tracking, ReliesGone, Hopeful
    <3>5. row'[s].status = "STARTING" /\ UNCHANGED <<ctr, late>>
      BY <1>1, <1>4, <2>2 DEF ClaimStart, SetStatus, Row
    <3>6. QED
      BY <3>3, <3>4, <3>5, WriteTraced, Zenon
  <2>3. QED
    BY <2>1, <2>2
<1>5. CASE ClaimStopping(p)
  <2> DEFINE from == IF r0.op = "delete" THEN "STOPPED" ELSE "RUNNING"
             then == IF r0.op # "delete" THEN "say" ELSE IF r0.cid THEN "remove" ELSE "erase"
  <2>1. CASE ~Matches(r0, from)
    BY <1>5, <2>1, QuietTraced DEF ClaimStopping
  <2>2. CASE Matches(r0, from)
    <3>1. r = [r0 EXCEPT !.pc = then, !.held = "STOPPING"]
      BY <1>1, <1>5, <2>2, OneTurn DEF ClaimStopping
    <3>2. /\ r.pc = then /\ r.held = "STOPPING" /\ r.srv = s /\ r.op = r0.op /\ r.cid = r0.cid
      BY <1>1, <3>1 DEF Request
    <3>3. NoLateCreate(s)
      BY <1>1, <2>2, Zenon DEF Matches
    <3>4. then = "erase" => ctr[s] = "none"
      BY <1>1, <2>2, Zenon DEF Matches, Request
    <3>5. Tracking(r)
      BY <1>1, <3>2, <3>4, Zenon DEF Tracking, ReliesGone, Hopeful
    <3>6. row'[s].status = "STOPPING" /\ UNCHANGED <<ctr, late>>
      BY <1>1, <1>5, <2>2 DEF ClaimStopping, SetStatus, Row
    <3>7. QED
      BY <3>3, <3>5, <3>6, WriteTraced, Zenon
  <2>3. QED
    BY <2>1, <2>2
<1>6. QED
  BY <1>2, <1>3, <1>4, <1>5, Zenon

(* A daemon call of a request that holds its row. *)
LEMMA DockerTraced ==
  ASSUME TrackInv, NEW p \in Requests, req[p].pc # "idle", req[p].held # "none",
         UNCHANGED <<row, used>>, NEW call \in Calls, NEW a, Docker(call, req[p].srv, a),
         call = "create" => req[p].held = "CREATING", NEW r, Tracking(r)'
  PROVE  Traced(p, r)
<1> DEFINE s == req[p].srv
<1>1. /\ s \in Servers /\ row[s].status = req[p].held /\ req[p].held \in Transient
      /\ s \in used
  BY Traces, Zenon DEF Standing, Request, Row, Transient
<1>2. row[s].status # "STOPPED"
  BY <1>1 DEF Transient
<1>3. /\ \A t \in Servers : t # s => ctr'[t] = ctr[t]
      /\ late' \subseteq late \cup {<<call, s>>}
  BY <1>1, DockerFacts, Zenon DEF TrackInv, ClaimInv
<1>4. <<"create", s>> \in late' => row[s].status \in {"CREATING", "ERROR", "ABSENT"}
  BY <1>1, <1>3, Traces, Zenon DEF NoLateCreate
<1>5. QED
  BY <1>1, <1>2, <1>3, <1>4, Zenon DEF Traced

LEMMA DaemonTraced ==
  ASSUME TrackInv, NEW p \in Requests, req[p].pc # "idle", NEW r, Harmless(p, r),
         NEW a \in DaemonAnswers,
         \/ CreateContainer(p, a) \/ StartContainer(p, a) \/ StopContainer(p, a)
         \/ RemoveContainer(p, a) \/ LookupCreated(p, a) \/ InspectRemoved(p, a)
  PROVE  Traced(p, r)
<1> DEFINE r0 == req[p]
           s == req[p].srv
<1>1. /\ ClaimInv /\ TypeInv /\ r0 \in Request /\ Tracking(r0) /\ Shaped(r0) /\ s \in Servers
      /\ ctr[s] \in ContainerState
  BY Traces, Zenon DEF TypeInv, TypeOK
<1>2. UNCHANGED <<row, used>>
  BY DEF CreateContainer, StartContainer, StopContainer, RemoveContainer, LookupCreated,
         InspectRemoved
<1>3. ASSUME NEW call \in Calls, Docker(call, s, a), r0.held # "none",
             call = "create" => r0.held = "CREATING", Tracking(r)'
      PROVE  Traced(p, r)
  BY <1>2, <1>3, DockerTraced, Zenon
<1>4. ASSUME NEW step \in Steps, Goto(p, step)
      PROVE  r.pc = step /\ r.srv = s /\ r.op = r0.op /\ r.cid = r0.cid /\ r.held = r0.held
  <2>1. r = [r0 EXCEPT !.pc = step]
    BY <1>1, <1>4, OneTurn, Zenon DEF Goto
  <2>2. QED
    BY <1>1, <2>1 DEF Request
<1>5. ASSUME NEW st \in Status, SettleTo(p, st)
      PROVE  /\ r.pc = "settle" /\ r.to = st
             /\ r.srv = s /\ r.op = r0.op /\ r.cid = r0.cid /\ r.held = r0.held
  <2>1. r = [r0 EXCEPT !.pc = "settle", !.to = st]
    BY <1>1, <1>5, OneTurn, Zenon DEF SettleTo
  <2>2. QED
    BY <1>1, <2>1 DEF Request
<1>6. CASE CreateContainer(p, a)
  <2>1. Docker("create", s, a) /\ r0.pc = "create" /\ r0.held = "CREATING" /\ r0.op = "create"
    BY <1>1, <1>6, Zenon DEF CreateContainer, Shaped
  <2>2. /\ r.pc = IF a = "ok" THEN "attach" ELSE "lookup"
        /\ r.srv = s /\ r.op = "create"
    BY <1>4, <1>6, <2>1, Zenon DEF CreateContainer, Steps
  <2>3. NoLateCreate(s) /\ (a = "ok" => late' = late)
    BY <1>1, <2>1, DockerFacts, Zenon DEF Calls, Effects, Tracking, Hopeful
  <2>4. Tracking(r)'
    BY <2>2, <2>3, Zenon DEF Tracking, ReliesGone, Hopeful, NoLateCreate
  <2>5. QED
    BY <1>3, <2>1, <2>4, Zenon DEF Calls, Effects
<1>7. CASE StartContainer(p, a)
  <2>1. /\ Docker("start", s, a) /\ r0.pc = "start" /\ r0.held # "none" /\ "start" \in Calls
        /\ r0.op = "create" => r0.held = "CREATING"
        /\ r0.op \in {"create", "start", "restart"}
    BY <1>1, <1>7, Zenon DEF StartContainer, Shaped, Calls, Effects
  <2>2. /\ r.pc = "settle" /\ r.srv = s /\ r.op = r0.op /\ r.cid = r0.cid /\ r.held = r0.held
        /\ r0.op = "create" => r.to = IF a = "ok" THEN "RUNNING" ELSE "ERROR"
    BY <1>5, <1>7, Zenon DEF StartContainer, Status
  <2>3. (r0.op = "create" => NoLateCreate(s)) /\ (a = "ok" => late' = late)
    BY <1>1, <2>1, DockerFacts, Zenon DEF Tracking, Hopeful
  <2>4. Tracking(r)'
    BY <1>1, <2>1, <2>2, <2>3, Zenon DEF Tracking, ReliesGone, Hopeful, NoLateCreate
  <2>5. QED
    BY <1>3, <2>1, <2>4, Zenon
<1>8. CASE StopContainer(p, a)
  <2>1. /\ Docker("stop", s, a) /\ r0.held = "STOPPING" /\ "stop" \in Calls
        /\ r0.op \in {"stop", "restart"}
    BY <1>1, <1>8 DEF StopContainer, Shaped, Calls, Effects
  <2>2. /\ r.pc \in {"preflight", "settle"} /\ r.op = r0.op /\ r.cid = r0.cid /\ r.held = r0.held
    <3>1. CASE Goto(p, "preflight")
      BY <1>4, <3>1, Zenon DEF Steps
    <3>2. CASE SettleTo(p, CASE a \in {"ok", "notFound"} -> "STOPPED"
                             [] a = "unavailable" -> "ERROR"
                             [] OTHER -> "RUNNING")
      BY <1>5, <3>2 DEF Status
    <3>3. QED
      BY <1>8, <3>1, <3>2 DEF StopContainer
  <2>3. Tracking(r)'
    BY <1>1, <2>1, <2>2, Zenon DEF Tracking, ReliesGone, Hopeful
  <2>4. QED
    BY <1>3, <2>1, <2>3, Zenon
<1>9. CASE RemoveContainer(p, a)
  <2>1. /\ Docker("remove", s, a) /\ r0.held = "STOPPING" /\ "remove" \in Calls /\ r0.op = "delete"
    BY <1>1, <1>9, Zenon DEF RemoveContainer, Shaped, Calls, Effects
  <2>2. /\ r.pc = IF a = "ok" THEN "erase" ELSE "inspect"
        /\ r.srv = s /\ r.op = "delete" /\ r.held = "STOPPING"
    BY <1>4, <1>9, <2>1, Zenon DEF RemoveContainer, Steps
  <2>3. a = "ok" => ctr'[s] = "none"
    <3>1. a = "ok" => ctr'[s] = Effect("remove", ctr[s]) /\ a \in Answers("remove", ctr[s])
      BY <1>1, <2>1, DockerFacts, Zenon
    <3>2. QED
      BY <1>1, <3>1, Zenon DEF Effect, Answers, Statuses, LookAnswer, HandleDockerError, ContainerState
  <2>4. Tracking(r)'
    BY <2>2, <2>3, Zenon DEF Tracking, ReliesGone, Hopeful
  <2>5. QED
    BY <1>3, <2>1, <2>4, Zenon
<1>10. CASE LookupCreated(p, a)
  <2>1. /\ Docker("lookup", s, a) /\ r0.held = "CREATING" /\ "lookup" \in Calls /\ r0.op = "create"
    BY <1>1, <1>10, Zenon DEF LookupCreated, Shaped, Calls
  <2>2. r = Idle \/ (r.pc \in {"discard", "adopt"} /\ r.op = "create")
    <3>1. CASE End(p)
      BY <1>1, <3>1, OneTurn, Zenon DEF End
    <3>2. CASE \E step \in {"discard", "adopt"} : Goto(p, step)
      BY <1>4, <2>1, <3>2, Zenon DEF Steps
    <3>3. QED
      BY <1>10, <3>1, <3>2, Zenon DEF LookupCreated
  <2>3. Tracking(r)'
    BY <2>2, IdleTracking, Zenon DEF Tracking, ReliesGone, Hopeful
  <2>4. QED
    BY <1>3, <2>1, <2>3, Zenon
<1>11. CASE InspectRemoved(p, a)
  <2>1. /\ Docker("inspect", s, a) /\ r0.held = "STOPPING" /\ "inspect" \in Calls /\ r0.op = "delete"
    BY <1>1, <1>11 DEF InspectRemoved, Shaped, Calls
  <2>2. /\ r.op = "delete" /\ r.held = "STOPPING" /\ r.srv = s
        /\ \/ r.pc = "eraseStopped"
           \/ r.pc = "eraseAbsent" /\ a = "notFound"
           \/ r.pc = "settle" /\ r.to = "ERROR"
    <3>1. CASE Goto(p, "eraseStopped")
      BY <1>4, <2>1, <3>1, Zenon DEF Steps
    <3>2. CASE Goto(p, "eraseAbsent") /\ a = "notFound"
      BY <1>4, <2>1, <3>2, Zenon DEF Steps
    <3>3. CASE SettleTo(p, "ERROR")
      BY <1>5, <2>1, <3>3, Zenon DEF Status
    <3>4. QED
      BY <1>11, <3>1, <3>2, <3>3 DEF InspectRemoved
  <2>3. a = "notFound" => ctr'[s] = "none"
    <3>1. a = "notFound" => ctr'[s] = ctr[s] /\ a \in Answers("inspect", ctr[s])
      BY <1>1, <2>1, DockerFacts, Zenon
    <3>2. QED
      BY <3>1, Zenon DEF Answers, Statuses, LookAnswer, HandleDockerError
  <2>4. Tracking(r)'
    BY <2>2, <2>3 DEF Tracking, ReliesGone, Hopeful
  <2>5. QED
    BY <1>3, <2>1, <2>4, Zenon
<1>12. QED
  BY <1>6, <1>7, <1>8, <1>9, <1>10, <1>11, Zenon

LEMMA WritesTraced ==
  ASSUME TrackInv, NEW p \in Requests, req[p].pc # "idle", NEW r, Harmless(p, r),
         \/ AttachContainer(p) \/ AdoptContainer(p) \/ DiscardRow(p)
         \/ EraseRow(p) \/ Settle(p) \/ OrderlyUnwind(p)
  PROVE  Traced(p, r)
<1> DEFINE r0 == req[p]
           s == req[p].srv
<1>1. /\ ClaimInv /\ r0 \in Request /\ Tracking(r0) /\ Shaped(r0) /\ s \in Servers
      /\ row \in [Servers -> Row] /\ row[s] \in Row
      /\ r0.held # "none" => row[s].status = r0.held /\ row[s].linked = r0.cid
      /\ ~NoLateCreate(s) => s \in used /\ row[s].status \in {"CREATING", "ERROR", "ABSENT"}
      /\ row[s].status = "STOPPED" /\ row[s].linked = FALSE => ctr[s] = "none"
  BY Traces, Zenon DEF Standing
<1>2. /\ UNCHANGED <<used, ctr, late>> /\ used' = used
  BY DEF AttachContainer, AdoptContainer, DiscardRow, EraseRow, Settle, OrderlyUnwind, Unwind
<1>3. ASSUME Tracking(r), row'[s] = row[s] \/ row'[s].status \in {"CREATING", "ERROR", "ABSENT"}
      PROVE  Traced(p, r)
  <2>1. /\ ~NoLateCreate(s) => s \in used' /\ row'[s].status \in {"CREATING", "ERROR", "ABSENT"}
        /\ row'[s].status = "STOPPED" /\ row'[s].linked = FALSE => ctr[s] = "none"
    BY <1>1, <1>2, <1>3, Zenon
  <2>2. QED
    BY <1>2, <1>3, <2>1, WriteTraced, Zenon
<1>4. End(p) => Tracking(r)
  <2>1. End(p) => r = Idle
    BY <1>1, OneTurn, Zenon DEF End
  <2>2. QED
    BY <2>1, IdleTracking
<1>5. NoRow.status = "ABSENT"
  BY DEF NoRow
<1>6. CASE AttachContainer(p)
  <2>1. r0.pc = "attach" /\ r0.held = "CREATING" /\ r0.op = "create" /\ NoLateCreate(s)
    BY <1>1, <1>6 DEF AttachContainer, Shaped, Tracking, Hopeful
  <2>2. Matches(r0, "CREATING")
    BY <1>1, <2>1, Zenon DEF Matches
  <2>3. r = [r0 EXCEPT !.pc = "start", !.cid = TRUE]
    BY <1>1, <1>6, <2>2, OneTurn DEF AttachContainer
  <2>4. r.pc = "start" /\ r.srv = s /\ r.op = "create"
    BY <1>1, <2>1, <2>3 DEF Request
  <2>5. Tracking(r)
    BY <2>1, <2>4 DEF Tracking, ReliesGone, Hopeful
  <2>6. row'[s].status = "CREATING"
    BY <1>1, <1>6, <2>1, <2>2 DEF AttachContainer, Row
  <2>7. QED
    BY <1>3, <2>5, <2>6
<1>7. CASE AdoptContainer(p)
  <2>1. row'[s] = row[s] \/ row'[s].status = "ERROR"
    BY <1>1, <1>7, Zenon DEF AdoptContainer
  <2>2. QED
    BY <1>3, <1>4, <1>7, <2>1, Zenon DEF AdoptContainer
<1>8. CASE DiscardRow(p)
  <2>1. row'[s] = row[s] \/ row'[s].status = "ABSENT"
    BY <1>1, <1>5, <1>8, Zenon DEF DiscardRow, DeleteRow
  <2>2. QED
    BY <1>3, <1>4, <1>8, <2>1, Zenon DEF DiscardRow
<1>9. CASE EraseRow(p)
  <2>1. row'[s] = row[s] \/ row'[s].status = "ABSENT"
    BY <1>1, <1>5, <1>9 DEF EraseRow, DeleteRow
  <2>2. Tracking(r)
    <3>1. CASE End(p)
      BY <1>4, <3>1
    <3>2. CASE ~End(p)
      <4>1. r = [r0 EXCEPT !.pc = "erase", !.held = "none"]
        BY <1>1, <1>9, <3>2, OneTurn DEF EraseRow
      <4>2. r.pc = "erase" /\ r.op = "delete" /\ r.held = "none"
        BY <1>1, <1>9, <4>1 DEF EraseRow, Request, Shaped
      <4>3. QED
        BY <4>2 DEF Tracking, ReliesGone, Hopeful
    <3>3. QED
      BY <3>1, <3>2
  <2>3. QED
    BY <1>3, <2>1, <2>2, Zenon
<1>10. CASE Settle(p)
  <2>1. Matches(r0, r0.held) /\ r0.pc = "settle" /\ r0.held # "none" /\ r0.op \in AllOps
    BY <1>1, <1>10 DEF Settle, Shaped, Matches
  <2>2. row'[s].status = r0.to /\ row'[s].linked = r0.cid
    BY <1>1, <1>10, <2>1 DEF Settle, SetStatus, Row, Matches
  <2>3. Tracking(r)
    <3>1. CASE End(p)
      BY <1>4, <3>1
    <3>2. CASE ~End(p)
      <4>1. Throw(p, "none") /\ r0.op = "restart"
        BY <1>10, <2>1, <3>2 DEF Settle, Throw
      <4>2. r = [r0 EXCEPT !.pc = "unwind", !.held = "none", !.to = "none"]
        BY <1>1, <4>1, OneTurn DEF Throw
      <4>3. r.pc = "unwind" /\ r.held = "none" /\ r.op = r0.op /\ r.cid = r0.cid
        BY <1>1, <4>2 DEF Request
      <4>4. QED
        BY <1>1, <4>1, <4>3, Zenon DEF Tracking, ReliesGone, Hopeful
    <3>3. QED
      BY <3>1, <3>2
  <2>4. ~NoLateCreate(s) => s \in used' /\ r0.to = "ERROR"
    <3>1. ~NoLateCreate(s) => r0.held = "CREATING" /\ s \in used
      BY <1>1, <2>1, Zenon DEF Request, Transient
    <3>2. QED
      BY <1>1, <1>2, <2>1, <3>1, Zenon DEF Tracking, Hopeful
  <2>5. r0.to = "STOPPED" => r0.cid = TRUE
    BY <1>1, <2>1, Zenon DEF Tracking, AllOps
  <2>6. QED
    BY <1>2, <2>2, <2>3, <2>4, <2>5, WriteTraced, Zenon
<1>11. CASE OrderlyUnwind(p)
  <2>1. Tracking(r)
    BY <1>4, <1>11, Zenon DEF OrderlyUnwind, Unwind
  <2>2. CASE row' = row
    BY <1>3, <2>1, <2>2
  <2>3. CASE row' # row
    <3>1. r0.pc = "unwind" /\ Matches(r0, "STOPPING") /\ r0.op = "restart" /\ r0.cid = TRUE
      BY <1>1, <1>11, <2>3, Zenon DEF OrderlyUnwind, Unwind, Shaped, Tracking
    <3>2. NoLateCreate(s)
      BY <1>1, <3>1, Zenon DEF Matches
    <3>3. row'[s].linked = TRUE
      BY <1>1, <1>11, <3>1 DEF OrderlyUnwind, Unwind, SetStatus, Row, Matches
    <3>4. QED
      BY <1>2, <2>1, <3>2, <3>3, WriteTraced, Zenon
  <2>4. QED
    BY <2>2, <2>3
<1>12. QED
  BY <1>6, <1>7, <1>8, <1>9, <1>10, <1>11, Zenon

LEMMA StepTrack ==
  ASSUME TrackInv, ClaimInv', NEW p \in Requests, OrderlyStep(p) \/ DbFailure(p)
  PROVE  TrackInv'
<1>1. req[p].pc # "idle"
  BY Zenon
     DEF OrderlyStep, Advance, OrderlyUnwind, Preflight, InsertRow, WarnPlayers, Admit,
         ClaimStart, ClaimStopping, CreateContainer, StartContainer, StopContainer, RemoveContainer,
         LookupCreated, InspectRemoved, AttachContainer, AdoptContainer, DiscardRow, EraseRow,
         Settle, Unwind, DbFailure
<1>2. PICK r : Harmless(p, r)
  BY HandlerHarmless, DbFailureHarmless DEF TrackInv
<1>3. CASE DbFailure(p)
  <2>1. /\ UNCHANGED <<row, used, ctr, late>>
        /\ End(p) \/ SettleTo(p, "ERROR") \/ Throw(p, req[p].held)
    BY <1>3 DEF DbFailure
  <2>2. Traced(p, r)
    BY <1>1, <1>2, <2>1, QuietTraced
  <2>3. QED
    BY <1>1, <1>2, <2>2, TracedTrack
<1>4. CASE OrderlyStep(p)
  <2>1. Traced(p, r)
    BY <1>1, <1>2, <1>4, AdmissionTraced, DaemonTraced, WritesTraced, Zenon DEF OrderlyStep, Advance
  <2>2. QED
    BY <1>1, <1>2, <2>1, TracedTrack
<1>5. QED
  BY <1>3, <1>4

LEMMA ArrivalTrack ==
  ASSUME TrackInv, ClaimInv', NEW p \in Requests, Arrival(p)
  PROVE  TrackInv'
<1>1. PICK s \in Servers :
        \/ CreateServer(p, s) \/ StartServer(p, s) \/ StopServer(p, s)
        \/ RestartServer(p, s) \/ DeleteServer(p, s)
  BY DEF Arrival
<1>2. PICK o \in AllOps, step \in {"preflight", "claim"}, cid \in BOOLEAN :
        Begin(p, o, s, step, cid) /\ (o \in {"start", "stop", "restart"} => cid = TRUE)
  <2>1. row[s].linked \in BOOLEAN
    BY DEF TrackInv, ClaimInv, TypeInv, TypeOK, Row
  <2>2. QED
    BY <1>1, <2>1, Zenon
       DEF CreateServer, StartServer, StopServer, RestartServer, DeleteServer, AllOps
<1>3. PICK r : /\ r = [pc |-> step, op |-> o, srv |-> s, cid |-> cid, held |-> "none", to |-> "none"]
               /\ req' = [req EXCEPT ![p] = r]
  BY <1>2, Zenon DEF Begin
<1>4. /\ UNCHANGED <<row, used, ctr, late, boot, seen>>
      /\ req'[p] = r /\ \A q \in Requests : q # p => req'[q] = req[q]
  BY <1>2, <1>3, Zenon DEF Begin, TrackInv, ClaimInv, TypeInv, TypeOK
<1>5. Tracking(r)
  BY <1>2, <1>3 DEF Tracking, ReliesGone, Hopeful
<1>6. AllTracking'
  BY <1>4, <1>5 DEF TrackInv, AllTracking, Tracking, ReliesGone, Hopeful, NoLateCreate
<1>7. QED
  BY <1>4, <1>6, Zenon DEF TrackInv, RowsTracking, BootTracking, NoLateCreate

LEMMA BootTrack ==
  ASSUME TrackInv, ClaimInv', "straggler" \notin Perils, BootStep
  PROVE  TrackInv'
<1>1. boot # "serving" /\ req' = req
  BY DEF BootStep, BootRead, BootDecide, BootWrite, BootDone, BootInspect, BootLookup
<1>2. AllTracking'
  <2>1. \A p \in Requests : req'[p] = Idle
    BY <1>1, Zenon DEF TrackInv, ClaimInv, Quiet, AllShaped, Shaped
  <2>2. QED
    BY <2>1 DEF AllTracking, Tracking, ReliesGone, Hopeful, Idle
<1>3. /\ ctr \in [Servers -> ContainerState] /\ row \in [Servers -> Row]
      /\ seen \in [Servers -> Findings]
  BY DEF TrackInv, ClaimInv, TypeInv, TypeOK
<1>4. CASE BootRead
  <2>1. BootTracking'
    BY <1>4 DEF BootRead, BootTracking, NoLateCreate
  <2>2. QED
    BY <1>2, <1>4, <2>1 DEF BootRead, TrackInv, RowsTracking, NoLateCreate
<1>5. CASE BootDecide \/ BootDone
  <2>1. BootTracking'
    BY <1>5, Zenon DEF BootDecide, BootDone, BootTracking, TrackInv, NoLateCreate
  <2>2. QED
    BY <1>2, <1>5, <2>1 DEF BootDecide, BootDone, TrackInv, RowsTracking, NoLateCreate
<1>6. ASSUME NEW s \in Servers, BootWrite(s)
      PROVE  TrackInv'
  <2>1. late' = late /\ ctr' = ctr /\ used' = used /\ \A t \in Servers : NoLateCreate(t)
    BY <1>6 DEF BootWrite, TrackInv, BootTracking
  <2>2. BootTracking'
    BY <1>3, <1>6, <2>1, Zenon DEF BootWrite, TrackInv, BootTracking, NoLateCreate
  <2>3. /\ \A t \in Servers : t # s => row'[t] = row[t]
        /\ row'[s] = row[s] \/ (seen[s] # "gone" => row'[s].linked = TRUE)
    BY <1>3, <1>6, Zenon DEF BootWrite
  <2>4. seen[s] = "gone" => ctr[s] = "none"
    BY <1>6 DEF BootWrite, TrackInv, BootTracking
  <2>5. RowsTracking'
    BY <2>1, <2>3, <2>4, Zenon DEF TrackInv, RowsTracking, NoLateCreate
  <2>6. QED
    BY <1>2, <2>2, <2>5 DEF TrackInv
<1>7. ASSUME NEW s \in Servers, NEW a \in DaemonAnswers, BootInspect(s, a) \/ BootLookup(s, a)
      PROVE  TrackInv'
  <2>1. PICK call \in {"inspect", "lookup"} : Docker(call, s, a)
    BY <1>7 DEF BootInspect, BootLookup
  <2>2. late' = late /\ \A t \in Servers : ctr'[t] = ctr[t]
    BY <2>1, DockerFacts DEF TrackInv, ClaimInv, Calls, Effects
  <2>3. /\ row' = row /\ used' = used /\ boot' = boot /\ boot = "inspecting"
        /\ \A t \in Servers : t # s => seen'[t] = seen[t]
        /\ seen'[s] = "gone" => ctr[s] = "none"
    BY <1>3, <1>7 DEF BootInspect, BootLookup, Found
  <2>4. BootTracking'
    BY <2>2, <2>3, Zenon DEF TrackInv, BootTracking, NoLateCreate
  <2>5. QED
    BY <1>2, <2>2, <2>3, <2>4 DEF TrackInv, RowsTracking, NoLateCreate
<1>8. QED
  BY <1>4, <1>5, <1>6, <1>7 DEF BootStep

(* Something happens to the container of s, and only an abandoned create    *)
(* makes one where there was none.                                          *)
LEMMA ContainerTrack ==
  ASSUME TrackInv, ClaimInv', UNCHANGED <<row, used, req, boot, seen>>, late' \subseteq late,
         NEW s \in Servers, \A t \in Servers : t # s => ctr'[t] = ctr[t],
         ctr[s] = "none" => ctr'[s] = "none" \/ ~NoLateCreate(s)
  PROVE  TrackInv'
<1>1. RowsTracking' /\ BootTracking'
  BY DEF TrackInv, RowsTracking, BootTracking, NoLateCreate
<1>2. ASSUME NEW q \in Requests
      PROVE  Tracking(req[q])'
  <2>1. PICK x : x = req[q] /\ req'[q] = x
    OBVIOUS
  <2>2. Tracking(x) /\ Shaped(x) /\ (x.pc # "idle" => x.srv \in Servers)
    BY <2>1 DEF TrackInv, AllTracking, ClaimInv, AllShaped, TypeInv, Located
  <2>3. ReliesGone(x) => row[x.srv].status = "STOPPING" /\ x.srv \in Servers
    BY <2>1, <2>2, Zenon DEF ReliesGone, Shaped, TrackInv, ClaimInv, ClaimHeld, Matches
  <2>4. ReliesGone(x) => NoLateCreate(x.srv)
    BY <2>3, Zenon DEF TrackInv, RowsTracking
  <2>5. Tracking(x)'
    BY <2>2, <2>3, <2>4, Zenon DEF Tracking, ReliesGone, Hopeful, NoLateCreate
  <2>6. QED
    BY <2>1, <2>5 DEF Tracking, ReliesGone, Hopeful, NoLateCreate
<1>3. QED
  BY <1>1, <1>2 DEF TrackInv, AllTracking

LEMMA EnvironmentTrack ==
  ASSUME TrackInv, ClaimInv', Environment
  PROVE  TrackInv'
<1>1. CASE Crash
  <2>1. \A p \in Requests : req'[p] = Idle
    BY <1>1 DEF Crash
  <2>2. AllTracking' /\ BootTracking'
    BY <1>1, <2>1, Zenon DEF Crash, AllTracking, Tracking, ReliesGone, Hopeful, Idle, BootTracking
  <2>3. ASSUME NEW q \in Requests, req[q].pc = "create"
        PROVE  row[req[q].srv].status = "CREATING" /\ req[q].srv \in used
    <3>1. Standing(q) /\ req[q].held = "CREATING"
      BY <2>3, Traces, Zenon DEF Shaped
    <3>2. QED
      BY <3>1 DEF Standing
  <2>4. \A s : <<"create", s>> \in late' \ late =>
                \E q \in Requests : req[q].pc = "create" /\ req[q].srv = s
    BY <1>1 DEF Crash
  <2>5. row' = row /\ used' = used /\ ctr' = ctr
    BY <1>1 DEF Crash
  <2>6. RowsTracking'
    <3>1. ASSUME NEW s \in Servers, <<"create", s>> \in late'
          PROVE  s \in used /\ row[s].status \in {"CREATING", "ERROR", "ABSENT"}
      <4>1. CASE <<"create", s>> \in late
        BY <4>1 DEF TrackInv, RowsTracking, NoLateCreate
      <4>2. CASE <<"create", s>> \notin late
        BY <2>3, <2>4, <3>1, <4>2
      <4>3. QED
        BY <4>1, <4>2
    <3>2. QED
      BY <2>5, <3>1, Zenon DEF TrackInv, RowsTracking, NoLateCreate
  <2>7. QED
    BY <2>2, <2>6 DEF TrackInv
<1>2. ASSUME NEW p \in Requests, DbFailure(p)
      PROVE  TrackInv'
  BY <1>2, StepTrack
<1>3. ASSUME NEW s \in Servers, NEW call \in Effects, LateEffect(call, s) \/ LateDrop(call, s)
      PROVE  TrackInv'
  <2>1. /\ <<call, s>> \in late /\ late' \subseteq late
        /\ UNCHANGED <<row, used, req, boot, seen>>
        /\ \A t \in Servers : t # s => ctr'[t] = ctr[t]
        /\ ctr'[s] \in {ctr[s], Effect(call, ctr[s])}
    BY <1>3 DEF LateEffect, LateDrop, Performed, TrackInv, ClaimInv, TypeInv, TypeOK
  <2>2. ctr[s] = "none" => ctr'[s] = "none" \/ ~NoLateCreate(s)
    BY <2>1, Zenon DEF Effect, NoLateCreate
  <2>3. QED
    BY <2>1, <2>2, ContainerTrack
<1>4. ASSUME NEW s \in Servers, NEW c \in ContainerState, External(s, c)
      PROVE  TrackInv'
  <2>1. /\ ctr[s] # "none" /\ UNCHANGED <<row, used, req, boot, seen>> /\ late' \subseteq late
        /\ \A t \in Servers : t # s => ctr'[t] = ctr[t]
    BY <1>4 DEF External, TrackInv, ClaimInv, TypeInv, TypeOK
  <2>2. QED
    BY <2>1, ContainerTrack
<1>5. QED
  BY <1>1, <1>2, <1>3, <1>4 DEF Environment

LEMMA InitTrack == Init => TrackInv
BY InitClaimInv
   DEF Init, NoRow, TrackInv, AllTracking, Tracking, ReliesGone, Hopeful, Idle, RowsTracking,
       NoLateCreate, BootTracking

LEMMA NextTrack ==
  ASSUME "straggler" \notin Perils, TrackInv, [OrderlyNext]_vars
  PROVE  TrackInv'
<1>1. ClaimInv'
  BY NextClaimInv DEF TrackInv
<1>2. CASE UNCHANGED vars
  BY <1>1, <1>2, Zenon
     DEF vars, TrackInv, AllTracking, Tracking, ReliesGone, Hopeful, RowsTracking, NoLateCreate,
         BootTracking
<1>3. QED
  BY <1>1, <1>2, ArrivalTrack, StepTrack, BootTrack, EnvironmentTrack DEF OrderlyNext

-----------------------------------------------------------------------------
(* How a container is lost.                                                *)

(* A row that disappears was given up by a create or erased by a delete.    *)
LEMMA RowLost ==
  ASSUME TrackInv, NEW p \in Requests, OrderlyStep(p), NEW s \in Servers,
         Exists(s), ~Exists(s)'
  PROVE  /\ req[p].srv = s /\ ctr' = ctr
         /\ req[p].pc \in {"discard", "eraseStopped"} \/ ctr[s] = "none"
<1> DEFINE t == req[p].srv
<1>1. row \in [Servers -> Row] /\ row[s].status # "ABSENT" /\ row'[s].status = "ABSENT"
  BY DEF Exists, TrackInv, ClaimInv, TypeInv, TypeOK
<1>2. CASE DiscardRow(p)
  BY <1>1, <1>2, Zenon DEF DiscardRow, DeleteRow
<1>3. CASE EraseRow(p)
  <2>1. t = s /\ ctr' = ctr /\ req[p].pc \in {"eraseStopped", "eraseAbsent", "erase"}
    BY <1>1, <1>3 DEF EraseRow, DeleteRow
  <2>2. Tracking(req[p]) /\ Shaped(req[p])
    BY <2>1, Traces, Zenon
  <2>3. req[p].pc = "erase" => req[p].held # "none"
    BY <1>1, <2>1 DEF TrackInv, ClaimInv, Erased, Exists
  <2>4. QED
    BY <2>1, <2>2, <2>3, Zenon DEF Tracking, ReliesGone, Shaped
<1>4. CASE \E ok \in BOOLEAN : Preflight(p, ok) \/ InsertRow(p, ok) \/ WarnPlayers(p, ok)
  BY <1>1, <1>4 DEF Preflight, InsertRow, WarnPlayers
<1>5. CASE Admit(p) \/ ClaimStart(p) \/ ClaimStopping(p) \/ OrderlyUnwind(p)
  BY <1>1, <1>5 DEF Admit, ClaimStart, ClaimStopping, OrderlyUnwind, Unwind, SetStatus, Row
<1>6. CASE AttachContainer(p) \/ AdoptContainer(p)
  BY <1>1, <1>6 DEF AttachContainer, AdoptContainer, Row
<1>7. CASE Settle(p)
  <2>1. req[p].to \in Status
    BY <1>7 DEF Settle, TrackInv, ClaimInv, TypeInv, Located
  <2>2. QED
    BY <1>1, <1>7, <2>1 DEF Settle, SetStatus, Row, Status, Transient
<1>8. CASE \E a \in DaemonAnswers :
             \/ CreateContainer(p, a) \/ StartContainer(p, a) \/ StopContainer(p, a)
             \/ RemoveContainer(p, a) \/ LookupCreated(p, a) \/ InspectRemoved(p, a)
  BY <1>1, <1>8 DEF CreateContainer, StartContainer, StopContainer, RemoveContainer,
                    LookupCreated, InspectRemoved
<1>9. QED
  BY <1>2, <1>3, <1>4, <1>5, <1>6, <1>7, <1>8, Zenon DEF OrderlyStep, Advance

(* A container that a request makes has a row. *)
LEMMA ContainerMade ==
  ASSUME TrackInv, NEW p \in Requests, OrderlyStep(p), NEW s \in Servers,
         ctr[s] = "none", ctr'[s] # "none"
  PROVE  Exists(s)'
<1>1. PICK a \in DaemonAnswers :
        \/ CreateContainer(p, a) \/ StartContainer(p, a) \/ StopContainer(p, a)
        \/ RemoveContainer(p, a) \/ LookupCreated(p, a) \/ InspectRemoved(p, a)
  BY Zenon DEF OrderlyStep, Advance, OrderlyUnwind, Preflight, InsertRow, WarnPlayers, Admit, ClaimStart,
         ClaimStopping, AttachContainer, AdoptContainer, DiscardRow, EraseRow, Settle, Unwind
<1>2. req[p].pc # "idle" /\ row' = row
  BY <1>1 DEF CreateContainer, StartContainer, StopContainer, RemoveContainer, LookupCreated,
              InspectRemoved
<1>3. PICK call \in Calls : /\ Docker(call, req[p].srv, a)
                            /\ call = "create" => req[p].pc = "create"
  BY <1>1 DEF CreateContainer, StartContainer, StopContainer, RemoveContainer, LookupCreated,
              InspectRemoved, Calls, Effects
<1>4. /\ Standing(p) /\ Shaped(req[p]) /\ TypeInv /\ req[p].srv \in Servers
  BY <1>2, Traces, Zenon
<1>5. req[p].srv = s /\ call = "create"
  <2>1. /\ \A t \in Servers : t # req[p].srv => ctr'[t] = ctr[t]
        /\ ctr'[req[p].srv] \in {ctr[req[p].srv], Effect(call, ctr[req[p].srv])}
    BY <1>3, <1>4, DockerFacts, Zenon
  <2>2. QED
    BY <2>1, Zenon DEF Effect
<1>6. row[s].status = "CREATING"
  BY <1>3, <1>4, <1>5, Zenon DEF Standing, Shaped
<1>7. QED
  BY <1>2, <1>6 DEF Exists

(* How the panel comes to have a container that no row names: an abandoned  *)
(* create is carried out, a create gives up a row after it looked and found *)
(* nothing, or deleteServer erases the row of a container it has found      *)
(* stopped.  In servers.service.ts nothing else loses one, for any number   *)
(* of servers and requests and under every fault but a call that outlives   *)
(* its process and the next reconciliation, in the behaviours without a     *)
(* stale unwinding.                                                         *)
THEOREM TrackLostKnowingly ==
  ASSUME "straggler" \notin Perils
  PROVE  OrderlySpec => LosesTrackKnowingly
<1> DEFINE Lost(s) == ~Untracked(s) /\ Untracked(s)'
           Known3(s) == \/ <<"create", s>> \in late \ late'
                        \/ \E p \in Requests :
                             req[p].srv = s /\ req[p].pc \in {"discard", "eraseStopped"}
<1>1. ASSUME TrackInv, OrderlyNext, NEW s \in Servers, Lost(s)
      PROVE  Known3(s)
  <2>1. /\ ctr'[s] # "none" /\ ~Exists(s)'
        /\ ctr[s] = "none" \/ Exists(s)
    BY <1>1 DEF Untracked
  <2>2. ASSUME NEW p \in Requests, OrderlyStep(p)
        PROVE  Known3(s)
    BY <1>1, <2>1, <2>2, RowLost, ContainerMade, Zenon
  <2>3. ctr \in [Servers -> ContainerState] /\ row \in [Servers -> Row] /\ TypeInv
    BY <1>1 DEF TrackInv, ClaimInv, TypeInv, TypeOK
  <2>4. CASE \E p \in Requests : Arrival(p)
    <3>1. UNCHANGED <<row, ctr>>
      BY <2>4, Zenon DEF Arrival, CreateServer, StartServer, StopServer, RestartServer, DeleteServer, Begin
    <3>2. QED
      BY <2>1, <3>1 DEF Exists
  <2>5. CASE BootRead \/ BootDecide \/ BootDone \/ Crash \/ \E p \in Requests : DbFailure(p)
    <3>1. UNCHANGED <<row, ctr>>
      BY <2>5 DEF BootRead, BootDecide, BootDone, Crash, DbFailure
    <3>2. QED
      BY <2>1, <3>1 DEF Exists
  <2>6. CASE \E t \in Servers : BootWrite(t)
    <3>1. ctr' = ctr /\ (row[s].status # "ABSENT" => row'[s].status # "ABSENT")
      BY <2>3, <2>6 DEF BootWrite
    <3>2. QED
      BY <2>1, <3>1 DEF Exists
  <2>7. ASSUME NEW t \in Servers, NEW a \in DaemonAnswers, BootInspect(t, a) \/ BootLookup(t, a)
        PROVE  Known3(s)
    <3>1. PICK call \in {"inspect", "lookup"} : Docker(call, t, a)
      BY <2>7 DEF BootInspect, BootLookup
    <3>2. row' = row /\ \A u \in Servers : ctr'[u] = ctr[u]
      BY <2>3, <2>7, <3>1, DockerFacts DEF Calls, Effects, BootInspect, BootLookup
    <3>3. QED
      BY <2>1, <3>2, Zenon DEF Exists
  <2>8. ASSUME NEW t \in Servers, NEW c \in ContainerState, External(t, c)
        PROVE  Known3(s)
    BY <2>1, <2>3, <2>8 DEF External, Exists
  <2>9. ASSUME NEW t \in Servers, NEW call \in Effects, LateEffect(call, t) \/ LateDrop(call, t)
        PROVE  Known3(s)
    <3>1. /\ row' = row /\ <<call, t>> \in late \ late'
          /\ ctr'[s] # ctr[s] => t = s /\ ctr'[s] = Effect(call, ctr[s])
      BY <2>3, <2>9 DEF LateEffect, LateDrop, Performed
    <3>2. ctr[s] = "none" => call = "create" /\ t = s
      BY <2>1, <3>1 DEF Effect
    <3>3. QED
      BY <2>1, <3>1, <3>2 DEF Exists
  <2>10. QED
    BY <1>1, <2>2, <2>4, <2>5, <2>6, <2>7, <2>8, <2>9, Zenon DEF OrderlyNext, BootStep, Environment
<1>2. ASSUME TrackInv, OrderlyNext, NEW p \in Requests,
             req[p].pc = "lookup", req'[p].pc = "discard"
      PROVE  ctr[req[p].srv] = "none"
  <2>1. req \in [Requests -> Request] /\ req[p] \in Request
    BY <1>2 DEF TrackInv, ClaimInv, TypeInv, TypeOK
  <2>2. PICK q \in Requests : Arrival(q) \/ OrderlyStep(q) \/ DbFailure(q)
    <3>1. ~BootStep
      BY <1>2 DEF BootStep, BootRead, BootDecide, BootDone, BootWrite, BootInspect, BootLookup
    <3>2. ~Crash
      <4>1. ASSUME Crash PROVE FALSE
        <5>1. req'[p] = Idle
          BY <4>1 DEF Crash
        <5>2. QED
          BY <1>2, <5>1 DEF Idle
      <4>2. QED
        BY <4>1
    <3>3. ~\E s \in Servers :
             \/ \E c \in ContainerState : External(s, c)
             \/ \E call \in Effects : LateEffect(call, s) \/ LateDrop(call, s)
      BY <1>2, Zenon DEF External, LateEffect, LateDrop
    <3>4. QED
      BY <1>2, <3>1, <3>2, <3>3 DEF OrderlyNext, Environment
  <2>3. \E r : req' = [req EXCEPT ![q] = r]
    <3>1. CASE Arrival(q)
      BY <3>1, Zenon
         DEF Arrival, CreateServer, StartServer, StopServer, RestartServer, DeleteServer, Begin
    <3>2. CASE OrderlyStep(q) \/ DbFailure(q)
      <4>1. ClaimInv
        BY <1>2 DEF TrackInv
      <4>2. PICK r : Harmless(q, r)
        BY <3>2, <4>1, HandlerHarmless, DbFailureHarmless
      <4>3. QED
        BY <4>2, Zenon DEF Harmless
    <3>3. QED
      BY <2>2, <3>1, <3>2
  <2>4. q = p
    BY <1>2, <2>1, <2>3
  <2>5. PICK a \in DaemonAnswers : LookupCreated(p, a)
    <3>1. ~Arrival(p) /\ ~DbFailure(p)
      BY <1>2 DEF Arrival, CreateServer, StartServer, StopServer, RestartServer, DeleteServer,
                  Begin, DbFailure
    <3>2. QED
      BY <1>2, <2>2, <2>4, <3>1, Zenon
         DEF OrderlyStep, Advance, OrderlyUnwind, Preflight, InsertRow, WarnPlayers, Admit,
             ClaimStart, ClaimStopping, CreateContainer, StartContainer, StopContainer,
             RemoveContainer, InspectRemoved, AttachContainer, AdoptContainer, DiscardRow,
             EraseRow, Settle, Unwind
  <2>6. QED
    <3>1. CASE ctr[req[p].srv] # "none"
      <4>1. End(p) \/ Goto(p, "adopt")
        BY <2>5, <3>1 DEF LookupCreated
      <4>2. req'[p].pc \in {"idle", "adopt"}
        BY <2>1, <4>1 DEF End, Goto, Idle, Request
      <4>3. QED
        BY <1>2, <4>2
    <3>2. QED
      BY <3>1
<1>3. TrackInv /\ [OrderlyNext]_vars =>
        [/\ \A s \in Servers : Lost(s) => Known3(s)
         /\ \A p \in Requests :
              req[p].pc = "lookup" /\ req'[p].pc = "discard" => ctr[req[p].srv] = "none"]_vars
  BY <1>1, <1>2, Zenon
<1>4. TrackInv /\ [OrderlyNext]_vars => TrackInv'
  BY NextTrack
<1>5. QED
  BY <1>3, <1>4, InitTrack, PTL DEF OrderlySpec, LosesTrackKnowingly

-----------------------------------------------------------------------------
(* Sums of memory.  Total adds up Mem over a finite set, in an order that   *)
(* the fold chooses; that the order does not matter, and that a larger set  *)
(* has a larger sum, is shown with a smallest counterexample.               *)

(* The recursion in Total: the fold picks First(s) out of s. *)
First(s) == CHOOSE x \in s : TRUE
Sums(g, S) ==
  g = [s \in SUBSET S |-> IF s = {} THEN 0 ELSE Mem[First(s)] + g[s \ {First(s)}]]

LEMMA TotalUnfolds ==
  ASSUME NEW S
  PROVE  Total(S) = (CHOOSE g : Sums(g, S))[S]
BY DEF Total, MapThenSumSet, MapThenFoldSet, Sums, First

LEMMA FirstIn ==
  ASSUME NEW s, s # {}
  PROVE  First(s) \in s /\ s \ {First(s)} \subseteq s /\ s \ {First(s)} # s
BY DEF First

(* Any two solutions agree where both are defined. *)
LEMMA SumsAgree ==
  ASSUME NEW S \in SUBSET Servers, NEW T \in SUBSET Servers, NEW g, NEW h,
         Sums(g, S), Sums(h, T), NEW u \in SUBSET S, u \in SUBSET T
  PROVE  g[u] = h[u]
<1> DEFINE F == {v \in SUBSET Servers : v \subseteq S /\ v \subseteq T /\ g[v] # h[v]}
<1>1. SUFFICES ASSUME F # {} PROVE FALSE
  OBVIOUS
<1>2. PICK v \in F : \A w \in F : w \subseteq v => w = v
  <2>1. F \subseteq SUBSET Servers
    OBVIOUS
  <2> HIDE DEF F
  <2>2. QED
    BY <1>1, <2>1, ServersFinite
<1>3. CASE v = {}
  BY <1>2, <1>3 DEF Sums
<1>4. CASE v # {}
  <2>1. /\ v \ {First(v)} \notin F /\ v \ {First(v)} \in SUBSET S /\ v \ {First(v)} \in SUBSET T
    BY <1>2, <1>4, FirstIn
  <2>2. g[v \ {First(v)}] = h[v \ {First(v)}]
    BY <2>1
  <2>3. g[v] = Mem[First(v)] + g[v \ {First(v)}]
    BY <1>2, <1>4, Zenon DEF Sums
  <2>4. h[v] = Mem[First(v)] + h[v \ {First(v)}]
    BY <1>2, <1>4, Zenon DEF Sums
  <2>5. QED
    BY <1>2, <2>2, <2>3, <2>4
<1>5. QED
  BY <1>3, <1>4

LEMMA SumsExist ==
  ASSUME NEW S \in SUBSET Servers
  PROVE  \E g \in [SUBSET S -> Nat] : Sums(g, S)
<1> DEFINE solves(g, U) == g \in [SUBSET U -> Nat] /\ Sums(g, U)
           F == {T \in SUBSET Servers : ~\E g : solves(g, T)}
<1>1. SUFFICES ASSUME F # {} PROVE FALSE
  OBVIOUS
<1>2. PICK T \in F : \A U \in F : U \subseteq T => U = T
  <2>1. F \subseteq SUBSET Servers
    OBVIOUS
  <2> HIDE DEF F
  <2>2. QED
    BY <1>1, <2>1, ServersFinite
<1> DEFINE sum(U) == CHOOSE g : solves(g, U)
           rest(s) == s \ {First(s)}
           total == [s \in SUBSET T |->
                       IF s = {} THEN 0 ELSE Mem[First(s)] + sum(rest(s))[rest(s)]]
<1>3. ASSUME NEW U \in SUBSET T, U # T
      PROVE  sum(U) \in [SUBSET U -> Nat] /\ Sums(sum(U), U)
  <2>1. U \notin F /\ U \in SUBSET Servers
    BY <1>2, <1>3, Zenon
  <2>2. \E g : solves(g, U)
    BY <2>1, Zenon
  <2>3. solves(sum(U), U)
    <3> HIDE DEF solves
    <3>1. QED
      BY <2>2, Zenon
  <2>4. QED
    BY <2>3, Zenon
<1>4. ASSUME NEW s \in SUBSET T, s # {}
      PROVE  /\ First(s) \in Servers /\ Mem[First(s)] \in Nat
             /\ rest(s) \in SUBSET T /\ rest(s) # T
  BY <1>2, <1>4, FirstIn, LifecycleAssumption
<1> HIDE DEF sum
<1>5. total \in [SUBSET T -> Nat]
  <2>1. ASSUME NEW s \in SUBSET T, s # {} PROVE sum(rest(s))[rest(s)] \in Nat
    <3>1. PICK u : u = rest(s)
      BY Zenon
    <3>2. sum(u) \in [SUBSET u -> Nat]
      BY <1>3, <1>4, <2>1, <3>1, Zenon
    <3>3. QED
      BY <3>1, <3>2, Zenon
  <2>2. QED
    BY <1>4, <2>1
<1>6. ASSUME NEW s \in SUBSET T, s # {} PROVE total[rest(s)] = sum(rest(s))[rest(s)]
  <2> DEFINE u == rest(s)
  <2>1. u \in SUBSET T /\ u # T /\ sum(u) \in [SUBSET u -> Nat] /\ Sums(sum(u), u)
    BY <1>3, <1>4, <1>6, Zenon
  <2>2. CASE u = {}
    BY <2>1, <2>2, Zenon DEF Sums
  <2>3. CASE u # {}
    <3>1. /\ rest(u) \in SUBSET T /\ rest(u) # T /\ rest(u) \in SUBSET u
      BY <1>4, <2>1, <2>3
    <3>2. Sums(sum(rest(u)), rest(u))
      BY <1>3, <3>1, Zenon
    <3>3. sum(u)[rest(u)] = sum(rest(u))[rest(u)]
      BY <1>2, <2>1, <3>1, <3>2, SumsAgree
    <3>4. sum(u)[u] = Mem[First(u)] + sum(u)[rest(u)]
      BY <2>1, <2>3, Zenon DEF Sums
    <3>5. total[u] = Mem[First(u)] + sum(rest(u))[rest(u)]
      BY <2>1, <2>3, Zenon
    <3>6. QED
      BY <3>3, <3>4, <3>5, Zenon
  <2>4. QED
    BY <2>2, <2>3, Zenon
<1>7. Sums(total, T)
  <2>1. total = [s \in SUBSET T |-> IF s = {} THEN 0 ELSE Mem[First(s)] + total[rest(s)]]
    BY <1>6, Zenon
  <2>2. QED
    BY <2>1, Zenon DEF Sums
<1>8. QED
  BY <1>2, <1>5, <1>7, Zenon

LEMMA TotalOf ==
  ASSUME NEW S \in SUBSET Servers
  PROVE  /\ Total(S) \in Nat
         /\ S = {} => Total(S) = 0
         /\ S # {} => Total(S) = Mem[First(S)] + Total(S \ {First(S)})
<1> DEFINE sum(U) == CHOOSE g : Sums(g, U)
<1>1. ASSUME NEW U \in SUBSET Servers
      PROVE  Sums(sum(U), U) /\ Total(U) = sum(U)[U] /\ sum(U)[U] \in Nat
  <2>1. PICK g \in [SUBSET U -> Nat] : Sums(g, U)
    BY SumsExist, Zenon
  <2>2. Sums(sum(U), U)
    BY <2>1, Zenon
  <2>3. sum(U)[U] = g[U]
    BY <2>1, <2>2, SumsAgree
  <2>4. QED
    BY <2>1, <2>2, <2>3, TotalUnfolds
<1> HIDE DEF sum
<1>2. CASE S = {}
  BY <1>1, <1>2, Zenon DEF Sums
<1>3. CASE S # {}
  <2> DEFINE U == S \ {First(S)}
  <2>1. U \in SUBSET Servers /\ U \in SUBSET S
    OBVIOUS
  <2>2. sum(S)[U] = sum(U)[U]
    BY <1>1, <2>1, SumsAgree
  <2>3. sum(S)[S] = Mem[First(S)] + sum(S)[U]
    BY <1>1, <1>3, Zenon DEF Sums
  <2>4. QED
    BY <1>1, <1>3, <2>1, <2>2, <2>3, Zenon
<1>4. QED
  BY <1>2, <1>3

LEMMA TotalRemove ==
  ASSUME NEW S \in SUBSET Servers, NEW s \in S
  PROVE  Total(S) = Mem[s] + Total(S \ {s})
<1> DEFINE F == {T \in SUBSET Servers : \E t \in T : Total(T) # Mem[t] + Total(T \ {t})}
<1>1. SUFFICES ASSUME F # {} PROVE FALSE
  BY Zenon
<1>2. PICK T \in F : \A U \in F : U \subseteq T => U = T
  <2>1. F \subseteq SUBSET Servers
    OBVIOUS
  <2> HIDE DEF F
  <2>2. QED
    BY <1>1, <2>1, ServersFinite
<1>3. PICK t \in T : Total(T) # Mem[t] + Total(T \ {t})
  BY <1>2
<1> DEFINE f == First(T)
           U == T \ {f}
           V == T \ {t}
           W == T \ {t, f}
<1>4. f \in T /\ Total(T) = Mem[f] + Total(U)
  BY <1>2, <1>3, FirstIn, TotalOf
<1>5. f # t
  BY <1>3, <1>4
<1>6. U \notin F /\ V \notin F /\ U \in SUBSET Servers /\ V \in SUBSET Servers /\ W \in SUBSET Servers
  BY <1>2, <1>3, <1>4, Zenon
<1>7. Total(U) = Mem[t] + Total(W)
  <2>1. U \ {t} = W /\ t \in U
    BY <1>3, <1>5
  <2>2. QED
    BY <1>6, <2>1, Zenon
<1>8. Total(V) = Mem[f] + Total(W)
  <2>1. V \ {f} = W /\ f \in V
    BY <1>4, <1>5
  <2>2. QED
    BY <1>6, <2>1, Zenon
<1>9. Mem[t] \in Nat /\ Mem[f] \in Nat /\ Total(W) \in Nat
  BY <1>2, <1>3, <1>4, <1>6, LifecycleAssumption, TotalOf, Zenon
<1>10. QED
  BY <1>3, <1>4, <1>7, <1>8, <1>9

LEMMA TotalMonotone ==
  ASSUME NEW T \in SUBSET Servers, NEW S \in SUBSET T
  PROVE  Total(S) <= Total(T)
<1> DEFINE F == {U \in SUBSET Servers : S \subseteq U /\ ~(Total(S) <= Total(U))}
<1>1. SUFFICES ASSUME F # {} PROVE FALSE
  OBVIOUS
<1>2. PICK U \in F : \A V \in F : V \subseteq U => V = U
  <2>1. F \subseteq SUBSET Servers
    OBVIOUS
  <2> HIDE DEF F
  <2>2. QED
    BY <1>1, <2>1, ServersFinite
<1>3. Total(S) \in Nat /\ Total(U) \in Nat
  BY <1>2, TotalOf, Zenon
<1>4. PICK t \in U : t \notin S
  <2>1. U # S
    BY <1>2, <1>3
  <2>2. QED
    BY <1>2, <2>1
<1>5. U \ {t} \notin F /\ U \ {t} \in SUBSET Servers /\ S \subseteq U \ {t}
  BY <1>2, <1>4
<1>6. Total(U) = Mem[t] + Total(U \ {t}) /\ Mem[t] \in Nat /\ Total(U \ {t}) \in Nat
  BY <1>2, <1>4, <1>5, TotalRemove, TotalOf, LifecycleAssumption, Zenon
<1>7. QED
  BY <1>2, <1>3, <1>5, <1>6

LEMMA TotalAdd ==
  ASSUME NEW S \in SUBSET Servers, NEW s \in Servers
  PROVE  Total({s} \cup S) <= Mem[s] + Total(S)
<1> DEFINE T == {s} \cup S
           U == T \ {s}
<1>1. T \in SUBSET Servers /\ s \in T /\ U \in SUBSET S /\ U \in SUBSET Servers
  OBVIOUS
<1> HIDE DEF T
<1>2. Total(T) = Mem[s] + Total(U)
  BY <1>1, TotalRemove
<1> HIDE DEF U
<1>3. Total(U) <= Total(S)
  BY <1>1, TotalMonotone
<1>4. Mem[s] \in Nat /\ Total(U) \in Nat /\ Total(S) \in Nat
  BY <1>1, TotalOf, LifecycleAssumption, Zenon
<1>5. QED
  BY <1>2, <1>3, <1>4 DEF T

-----------------------------------------------------------------------------
(* What a step of a handler does to the table, seen by those who share its  *)
(* memory.                                                                  *)

(* A settling transition never claims. *)
Settling == \A p \in Requests : req[p].to \notin Transient

(* A step of request p that becomes r: rows appear, and rows become          *)
(* CREATING or STARTING, only under the advisory lock, and the lock is only  *)
(* taken by a request that is admitted.                                     *)
Orderly(p, r) ==
  LET s == req[p].srv
      locked == req[p].pc = "commit"
  IN
  /\ UNCHANGED <<allocatable, boot>>
  /\ \A t \in Servers : t # s => row'[t] = row[t]
  /\ r.to \notin Transient
  /\ r.pc = "commit" => /\ r.srv = s /\ r.op = req[p].op
                        /\ LockFree /\ Admissible(req[p]) /\ UNCHANGED <<row, ctr, late>>
  /\ \/ locked /\ req[p].op = "create"
     \/ used' = used /\ (row'[s].status # "ABSENT" => row[s].status # "ABSENT")
  /\ row'[s].status \in {"CREATING", "STARTING"} => locked \/ row'[s].status = row[s].status
  /\ row'[s].status = "STARTING" => row[s].status = "STARTING" \/ (locked /\ req[p].op # "create")

LEMMA HandlerOrderly ==
  ASSUME TypeInv, Settling, NEW p \in Requests, HandlerStep(p) \/ DbFailure(p)
  PROVE  req[p].pc # "idle" /\ \E r : req' = [req EXCEPT ![p] = r] /\ Orderly(p, r)
<1> DEFINE r0 == req[p]
           s == r0.srv
           Goal == req[p].pc # "idle" /\ \E r : req' = [req EXCEPT ![p] = r] /\ Orderly(p, r)
<1> SUFFICES Goal
  BY Zenon
<1>1. /\ r0 \in Request /\ r0.to \notin Transient /\ row \in [Servers -> Row]
      /\ r0.pc # "idle" => s \in Servers
  BY Zenon DEF TypeInv, TypeOK, Located, Settling
<1>2. ASSUME NEW r, req' = [req EXCEPT ![p] = r], r0.pc # "idle",
             row' = row, used' = used, boot' = boot, allocatable' = allocatable,
             r.to \notin Transient, r.pc # "commit"
      PROVE  Goal
  BY <1>2, Zenon DEF Orderly
<1>3. ASSUME r0.pc # "idle",
             row' = row, used' = used, boot' = boot, allocatable' = allocatable,
             \/ End(p)
             \/ \E h \in {r0.held, "none"} : Throw(p, h)
             \/ \E st \in Status \ Transient : SettleTo(p, st)
             \/ \E step \in Steps \ {"commit"} : Goto(p, step)
      PROVE  Goal
  <2>1. CASE req' = [req EXCEPT ![p] = Idle]
    <3>1. Idle.to \notin Transient /\ Idle.pc # "commit"
      BY DEF Idle, Transient
    <3>2. QED
      BY <1>2, <1>3, <2>1, <3>1, Zenon
  <2>2. CASE \E h \in {r0.held, "none"} :
               req' = [req EXCEPT ![p] = [r0 EXCEPT !.pc = "unwind", !.held = h, !.to = "none"]]
    <3>1. PICK h \in {r0.held, "none"} :
            req' = [req EXCEPT ![p] = [r0 EXCEPT !.pc = "unwind", !.held = h, !.to = "none"]]
      BY <2>2, Zenon
    <3>2. PICK k : k = [r0 EXCEPT !.pc = "unwind", !.held = h, !.to = "none"]
      BY Zenon
    <3>3. k.to \notin Transient /\ k.pc # "commit"
      BY <1>1, <3>1, <3>2 DEF Request, Transient
    <3>4. QED
      BY <1>2, <1>3, <3>1, <3>2, <3>3, Zenon
  <2>3. CASE \E st \in Status \ Transient :
               req' = [req EXCEPT ![p] = [r0 EXCEPT !.pc = "settle", !.to = st]]
    <3>1. PICK st \in Status \ Transient :
            req' = [req EXCEPT ![p] = [r0 EXCEPT !.pc = "settle", !.to = st]]
      BY <2>3, Zenon
    <3>2. PICK k : k = [r0 EXCEPT !.pc = "settle", !.to = st]
      BY Zenon
    <3>3. k.to \notin Transient /\ k.pc # "commit"
      BY <1>1, <3>1, <3>2 DEF Request
    <3>4. QED
      BY <1>2, <1>3, <3>1, <3>2, <3>3, Zenon
  <2>4. CASE \E step \in Steps \ {"commit"} : req' = [req EXCEPT ![p] = [r0 EXCEPT !.pc = step]]
    <3>1. PICK step \in Steps \ {"commit"} :
            req' = [req EXCEPT ![p] = [r0 EXCEPT !.pc = step]]
      BY <2>4, Zenon
    <3>2. PICK k : k = [r0 EXCEPT !.pc = step]
      BY Zenon
    <3>3. k.to \notin Transient /\ k.pc # "commit"
      BY <1>1, <3>1, <3>2 DEF Request
    <3>4. QED
      BY <1>2, <1>3, <3>1, <3>2, <3>3, Zenon
  <2>5. QED
    BY <1>3, <2>1, <2>2, <2>3, <2>4, Zenon DEF End, Throw, SettleTo, Goto
<1>4. {"ERROR", "STOPPED", "RUNNING"} \subseteq Status \ Transient
  BY DEF Status, Transient
<1>5. {"idle", "admit", "attach", "lookup", "save", "stop", "preflight", "erase", "inspect",
       "discard", "adopt", "eraseStopped", "eraseAbsent"} \subseteq Steps \ {"commit"}
  BY DEF Steps, Effects
<1> HIDE DEF Goal
<1>6. ASSUME NEW ok \in BOOLEAN, Preflight(p, ok) \/ WarnPlayers(p, ok) PROVE Goal
  <2>1. /\ r0.pc # "idle" /\ row' = row /\ used' = used /\ boot' = boot /\ allocatable' = allocatable
        /\ Throw(p, r0.held) \/ \E step \in Steps \ {"commit"} : Goto(p, step)
    BY <1>5, <1>6, Zenon DEF Preflight, WarnPlayers
  <2>2. QED
    BY <1>3, <2>1, Zenon
<1>7. CASE Admit(p)
  <2>1. CASE ~Admissible(r0)
    <3>1. /\ r0.pc # "idle" /\ row' = row /\ used' = used /\ boot' = boot
          /\ allocatable' = allocatable
          /\ \E h \in {r0.held, "none"} : Throw(p, h)
      BY <1>7, <2>1, Zenon DEF Admit
    <3>2. QED
      BY <1>3, <3>1, Zenon
  <2>2. CASE Admissible(r0)
    <3>1. PICK k : k = [r0 EXCEPT !.pc = "commit"] /\ req' = [req EXCEPT ![p] = k]
      BY <1>7, <2>2, Zenon DEF Admit, Goto
    <3>2. k.to \notin Transient /\ k.srv = s /\ k.op = r0.op
      BY <1>1, <3>1 DEF Request
    <3>3. Orderly(p, k)
      BY <1>7, <2>2, <3>2, Zenon DEF Admit, Orderly
    <3>4. QED
      BY <1>7, <3>1, <3>3, Zenon DEF Admit, Goal
  <2>3. QED
    BY <2>1, <2>2
<1>8. ASSUME NEW a \in DaemonAnswers,
             \/ CreateContainer(p, a) \/ StartContainer(p, a) \/ StopContainer(p, a)
             \/ RemoveContainer(p, a) \/ LookupCreated(p, a) \/ InspectRemoved(p, a)
      PROVE  Goal
  <2>1. /\ r0.pc # "idle" /\ row' = row /\ used' = used /\ boot' = boot /\ allocatable' = allocatable
        /\ \/ End(p)
           \/ \E st \in Status \ Transient : SettleTo(p, st)
           \/ \E step \in Steps \ {"commit"} : Goto(p, step)
    BY <1>4, <1>5, <1>8
       DEF CreateContainer, StartContainer, StopContainer, RemoveContainer, LookupCreated,
           InspectRemoved
  <2>2. QED
    BY <1>3, <2>1, Zenon
<1>9. CASE DbFailure(p)
  <2>1. /\ r0.pc # "idle" /\ row' = row /\ used' = used /\ boot' = boot /\ allocatable' = allocatable
        /\ \/ End(p)
           \/ \E h \in {r0.held, "none"} : Throw(p, h)
           \/ \E st \in Status \ Transient : SettleTo(p, st)
    BY <1>4, <1>9 DEF DbFailure
  <2>2. QED
    BY <1>3, <2>1, Zenon
<1>10. ASSUME NEW r, NEW w, req' = [req EXCEPT ![p] = r], row' = [row EXCEPT ![s] = w],
              used' = used, boot' = boot, allocatable' = allocatable, r0.pc # "idle",
              r.to \notin Transient, r.pc # "commit",
              w.status # "ABSENT" => row[s].status # "ABSENT",
              w.status \in {"CREATING", "STARTING"} => w.status = row[s].status
       PROVE  Goal
  <2>1. row'[s] = w /\ \A t \in Servers : t # s => row'[t] = row[t]
    BY <1>1, <1>10
  <2>2. Orderly(p, r)
    BY <1>10, <2>1, Zenon DEF Orderly
  <2>3. QED
    BY <1>10, <2>2, Zenon DEF Goal
<1>11. CASE \E ok \in BOOLEAN : InsertRow(p, ok)
  <2>1. /\ r0.pc = "commit" /\ r0.op = "create" /\ boot' = boot /\ allocatable' = allocatable
        /\ \/ /\ row' = [row EXCEPT ![s] = [status |-> "CREATING", linked |-> FALSE]]
              /\ req' = [req EXCEPT ![p] = [r0 EXCEPT !.pc = "create", !.held = "CREATING"]]
           \/ End(p) /\ row' = row
    BY <1>11, Zenon DEF InsertRow
  <2>2. CASE End(p) /\ row' = row
    <3>1. Orderly(p, Idle)
      BY <2>1, <2>2 DEF Orderly, Idle, Transient
    <3>2. QED
      BY <2>1, <2>2, <3>1, Zenon DEF End, Goal
  <2>3. CASE ~(End(p) /\ row' = row)
    <3>1. PICK k : /\ k = [r0 EXCEPT !.pc = "create", !.held = "CREATING"]
                   /\ req' = [req EXCEPT ![p] = k]
      BY <2>1, <2>3, Zenon
    <3>2. k.to \notin Transient /\ k.pc # "commit"
      BY <1>1, <3>1 DEF Request
    <3>3. row'[s].status = "CREATING" /\ \A t \in Servers : t # s => row'[t] = row[t]
      BY <1>1, <2>1, <2>3
    <3>4. Orderly(p, k)
      BY <2>1, <3>2, <3>3 DEF Orderly
    <3>5. QED
      BY <2>1, <3>1, <3>4, Zenon DEF Goal
  <2>4. QED
    BY <2>2, <2>3
<1>12. CASE ClaimStart(p)
  <2>1. /\ r0.pc = "commit" /\ r0.op # "create"
        /\ used' = used /\ boot' = boot /\ allocatable' = allocatable
        /\ \/ /\ \E st : Matches(r0, st) /\ st # "ABSENT" /\ SetStatus(s, "STARTING")
              /\ req' = [req EXCEPT ![p] = [r0 EXCEPT !.pc = "start", !.held = "STARTING"]]
           \/ (\E h \in {r0.held, "none"} : Throw(p, h)) /\ row' = row
    BY <1>12 DEF ClaimStart
  <2>2. CASE (\E h \in {r0.held, "none"} : Throw(p, h)) /\ row' = row
    BY <1>3, <2>1, <2>2, Zenon
  <2>3. CASE ~((\E h \in {r0.held, "none"} : Throw(p, h)) /\ row' = row)
    <3>1. PICK k : /\ k = [r0 EXCEPT !.pc = "start", !.held = "STARTING"]
                   /\ req' = [req EXCEPT ![p] = k]
      BY <2>1, <2>3, Zenon
    <3>2. k.to \notin Transient /\ k.pc # "commit"
      BY <1>1, <3>1 DEF Request
    <3>3. /\ row[s].status # "ABSENT" /\ row'[s].status = "STARTING"
          /\ \A t \in Servers : t # s => row'[t] = row[t]
      BY <1>1, <2>1, <2>3 DEF Matches, SetStatus, Row
    <3>4. Orderly(p, k)
      BY <2>1, <3>2, <3>3 DEF Orderly
    <3>5. QED
      BY <2>1, <3>1, <3>4, Zenon DEF Goal
  <2>4. QED
    BY <2>2, <2>3
<1>13. CASE ClaimStopping(p)
  <2>1. PICK then \in {"say", "remove", "erase"} :
          /\ r0.pc = "claim" /\ used' = used /\ boot' = boot /\ allocatable' = allocatable
          /\ \/ /\ \E st : Matches(r0, st) /\ st # "ABSENT" /\ SetStatus(s, "STOPPING")
                /\ req' = [req EXCEPT ![p] = [r0 EXCEPT !.pc = then, !.held = "STOPPING"]]
             \/ End(p) /\ row' = row
    BY <1>13, Zenon DEF ClaimStopping
  <2>2. CASE End(p) /\ row' = row
    BY <1>3, <2>1, <2>2, Zenon
  <2>3. CASE ~(End(p) /\ row' = row)
    <3>1. PICK k : /\ k = [r0 EXCEPT !.pc = then, !.held = "STOPPING"]
                   /\ req' = [req EXCEPT ![p] = k]
      BY <2>1, <2>3, Zenon
    <3>2. k.to \notin Transient /\ k.pc # "commit"
      BY <1>1, <2>1, <3>1 DEF Request
    <3>3. PICK w : /\ row' = [row EXCEPT ![s] = w]
                   /\ w = [row[s] EXCEPT !.status = "STOPPING"]
      BY <2>1, <2>3, Zenon DEF SetStatus
    <3>4. row[s].status # "ABSENT" /\ w.status = "STOPPING"
      BY <1>1, <2>1, <2>3, <3>3 DEF Matches, Row
    <3>5. QED
      BY <1>10, <2>1, <3>1, <3>2, <3>3, <3>4, Zenon
  <2>4. QED
    BY <2>2, <2>3
<1>14. CASE AttachContainer(p)
  <2>1. /\ r0.pc = "attach" /\ used' = used /\ boot' = boot /\ allocatable' = allocatable
        /\ \/ /\ Matches(r0, "CREATING") /\ row' = [row EXCEPT ![s] = [row[s] EXCEPT !.linked = TRUE]]
              /\ req' = [req EXCEPT ![p] = [r0 EXCEPT !.pc = "start", !.cid = TRUE]]
           \/ (\E step \in Steps \ {"commit"} : Goto(p, step)) /\ row' = row
    BY <1>5, <1>14 DEF AttachContainer
  <2>2. CASE (\E step \in Steps \ {"commit"} : Goto(p, step)) /\ row' = row
    BY <1>3, <2>1, <2>2, Zenon
  <2>3. CASE ~((\E step \in Steps \ {"commit"} : Goto(p, step)) /\ row' = row)
    <3>1. PICK k : /\ k = [r0 EXCEPT !.pc = "start", !.cid = TRUE]
                   /\ req' = [req EXCEPT ![p] = k]
      BY <2>1, <2>3, Zenon
    <3>2. k.to \notin Transient /\ k.pc # "commit"
      BY <1>1, <2>1, <3>1 DEF Request
    <3>3. PICK w : row' = [row EXCEPT ![s] = w] /\ w = [row[s] EXCEPT !.linked = TRUE]
      BY <2>1, <2>3, Zenon
    <3>4. w.status = row[s].status
      BY <1>1, <2>1, <3>3 DEF Row
    <3>5. QED
      BY <1>10, <2>1, <3>1, <3>2, <3>3, <3>4, Zenon
  <2>4. QED
    BY <2>2, <2>3
<1>15. CASE AdoptContainer(p) \/ DiscardRow(p) \/ EraseRow(p)
  <2>1. /\ r0.pc # "idle" /\ used' = used /\ boot' = boot /\ allocatable' = allocatable
        /\ \/ row' = row
           \/ /\ row[s].status \in Transient
              /\ \/ row' = [row EXCEPT ![s] = [status |-> "ERROR", linked |-> TRUE]]
                 \/ row' = [row EXCEPT ![s] = NoRow]
        /\ End(p) \/ req' = [req EXCEPT ![p] = [r0 EXCEPT !.pc = "erase", !.held = "none"]]
    BY <1>15 DEF AdoptContainer, DiscardRow, EraseRow, DeleteRow, Transient
  <2>2. PICK k : /\ k = Idle \/ k = [r0 EXCEPT !.pc = "erase", !.held = "none"]
                 /\ req' = [req EXCEPT ![p] = k]
    BY <2>1, Zenon DEF End
  <2>3. k.to \notin Transient /\ k.pc # "commit"
    <3>1. CASE k = Idle
      BY <3>1 DEF Idle, Transient
    <3>2. CASE k = [r0 EXCEPT !.pc = "erase", !.held = "none"]
      BY <1>1, <3>2 DEF Request
    <3>3. QED
      BY <2>2, <3>1, <3>2
  <2>4. CASE row' = row
    BY <1>2, <2>1, <2>2, <2>3, <2>4, Zenon DEF Goal
  <2>5. CASE row' # row
    <3>1. PICK w : /\ row' = [row EXCEPT ![s] = w]
                   /\ w = [status |-> "ERROR", linked |-> TRUE] \/ w = NoRow
      BY <2>1, <2>5, Zenon
    <3>2. /\ w.status # "ABSENT" => row[s].status # "ABSENT"
          /\ w.status \notin {"CREATING", "STARTING"}
      BY <2>1, <2>5, <3>1 DEF NoRow, Transient
    <3>3. QED
      BY <1>10, <2>1, <2>2, <2>3, <3>1, <3>2, Zenon
  <2>6. QED
    BY <2>4, <2>5
<1>16. CASE Settle(p) \/ Unwind(p)
  <2>1. /\ r0.pc # "idle" /\ used' = used /\ boot' = boot /\ allocatable' = allocatable
        /\ \/ row' = row
           \/ /\ Matches(r0, r0.held) \/ Matches(r0, "STOPPING")
              /\ SetStatus(s, r0.to) \/ SetStatus(s, "STOPPED")
        /\ \/ End(p)
           \/ \E h \in {r0.held, "none"} : Throw(p, h)
           \/ \E st \in Status \ Transient : SettleTo(p, st)
    BY <1>4, <1>16 DEF Settle, Unwind
  <2>2. CASE row' = row
    BY <1>3, <2>1, <2>2, Zenon
  <2>3. CASE row' # row
    <3>1. PICK w : /\ row' = [row EXCEPT ![s] = w]
                   /\ \E st \in {r0.to, "STOPPED"} : w = [row[s] EXCEPT !.status = st]
      BY <2>1, <2>3, Zenon DEF SetStatus
    <3>2. /\ row[s].status # "ABSENT"
          /\ w.status \notin {"CREATING", "STARTING"}
      BY <1>1, <2>1, <2>3, <3>1 DEF Matches, Row, Request, Transient
    <3>3. PICK k : /\ req' = [req EXCEPT ![p] = k]
                   /\ \/ k = Idle
                      \/ \E h \in {r0.held, "none"} :
                           k = [r0 EXCEPT !.pc = "unwind", !.held = h, !.to = "none"]
                      \/ \E st \in Status \ Transient : k = [r0 EXCEPT !.pc = "settle", !.to = st]
      BY <2>1, Zenon DEF End, Throw, SettleTo
    <3>4. k.to \notin Transient /\ k.pc # "commit"
      <4>1. CASE k = Idle
        BY <4>1 DEF Idle, Transient
      <4>2. ASSUME NEW h, k = [r0 EXCEPT !.pc = "unwind", !.held = h, !.to = "none"]
            PROVE  k.to = "none" /\ k.pc = "unwind"
        BY <1>1, <4>2 DEF Request
      <4>3. ASSUME NEW st, k = [r0 EXCEPT !.pc = "settle", !.to = st]
            PROVE  k.to = st /\ k.pc = "settle"
        BY <1>1, <4>3 DEF Request
      <4>4. "none" \notin Transient
        BY DEF Transient
      <4>5. QED
        BY <3>3, <4>1, <4>2, <4>3, <4>4, Zenon
    <3>5. QED
      BY <1>10, <2>1, <3>1, <3>2, <3>3, <3>4, Zenon
  <2>4. QED
    BY <2>2, <2>3
<1>17. QED
  BY <1>6, <1>7, <1>8, <1>9, <1>11, <1>12, <1>13, <1>14, <1>15, <1>16, Zenon
     DEF HandlerStep, Advance, Goal

-----------------------------------------------------------------------------
(* Admission of creates.                                                   *)

(* The advisory lock has one holder. *)
LockOne ==
  \A p, q \in Requests : req[p].pc = "commit" /\ req[q].pc = "commit" => p = q

(* As long as an admitted create holds the lock, its server fits beside all *)
(* servers that exist.                                                      *)
CreateAdmitted ==
  \A p \in Requests :
    req[p].pc = "commit" /\ req[p].op = "create" =>
      Total({req[p].srv} \cup {t \in Servers : Exists(t)}) <= allocatable

FitInv == TypeInv /\ Settling /\ Quiet /\ LockOne /\ CreateAdmitted

(* checkMemoryAdmission: the server fits beside those that were counted. *)
LEMMA AdmissibleFits ==
  ASSUME TypeInv, NEW r \in Request, r.srv \in Servers, Admissible(r)
  PROVE  Total({r.srv} \cup Counted(r)) <= allocatable
<1>1. /\ Counted(r) \in SUBSET Servers /\ allocatable \in Nat
      /\ Mem[r.srv] \in Nat /\ Mem[r.srv] # 0
  BY LifecycleAssumption DEF Counted, TypeInv, TypeOK
<1>2. PICK S \in SUBSET Servers : S = Counted(r)
  BY <1>1
<1>3. /\ Total(S) \in Nat /\ Total({r.srv} \cup S) \in Nat
      /\ Total({r.srv} \cup S) <= Mem[r.srv] + Total(S)
  BY <1>2, TotalOf, TotalAdd, Zenon
<1>4. Mem[r.srv] <= IF allocatable > Total(S) THEN allocatable - Total(S) ELSE 0
  BY <1>2 DEF Admissible
<1>5. QED
  BY <1>1, <1>2, <1>3, <1>4

LEMMA InitFit == Init => FitInv
BY InitTypeInv
   DEF Init, FitInv, Settling, Quiet, LockOne, CreateAdmitted, Idle, Transient

LEMMA HandlerFit ==
  ASSUME FitInv, TypeInv', NEW p \in Requests, HandlerStep(p) \/ DbFailure(p)
  PROVE  /\ FitInv'
         /\ used' # used => Total({t \in Servers : row'[t].status # "ABSENT"}) <= allocatable
<1>1. PICK r : req' = [req EXCEPT ![p] = r] /\ Orderly(p, r) /\ req[p].pc # "idle"
  BY HandlerOrderly, Zenon DEF FitInv
<1> DEFINE s == req[p].srv
<1>2. /\ req'[p] = r /\ \A q \in Requests : q # p => req'[q] = req[q]
      /\ s \in Servers /\ req[p] \in Request /\ boot = "serving" /\ boot' = "serving"
      /\ allocatable' = allocatable /\ allocatable \in Nat
  BY <1>1, LifecycleAssumption DEF FitInv, TypeInv, TypeOK, Located, Orderly, Quiet
<1>3. Settling' /\ Quiet'
  BY <1>1, <1>2, Zenon DEF FitInv, Settling, Quiet, Orderly
<1>4. LockOne'
  BY <1>1, <1>2, Zenon DEF FitInv, LockOne, LockFree, Orderly
<1> DEFINE old == {t \in Servers : Exists(t)}
           new == {t \in Servers : row'[t].status # "ABSENT"}
<1>5. old \in SUBSET Servers /\ new \in SUBSET Servers
  OBVIOUS
<1>6. CASE req[p].pc = "commit" /\ req[p].op = "create"
  <2>1. new \subseteq {s} \cup old
    BY <1>1, Zenon DEF Orderly, Exists
  <2>2. Total({s} \cup old) <= allocatable
    BY <1>6, Zenon DEF FitInv, CreateAdmitted
  <2>3. Total(new) <= allocatable
    <3>1. {s} \cup old \in SUBSET Servers
      BY <1>2
    <3> HIDE DEF old, new
    <3>2. Total(new) <= Total({s} \cup old) /\ Total(new) \in Nat /\ Total({s} \cup old) \in Nat
      BY <1>5, <2>1, <3>1, TotalMonotone, TotalOf, Zenon
    <3>3. QED
      BY <1>2, <2>2, <3>2
  <2>4. \A q \in Requests : req'[q].pc # "commit"
    BY <1>1, <1>2, <1>6 DEF FitInv, LockOne, LockFree, Orderly
  <2>5. CreateAdmitted'
    BY <2>4 DEF CreateAdmitted
  <2>6. QED
    BY <1>3, <1>4, <2>3, <2>5, Zenon DEF FitInv
<1>7. CASE ~(req[p].pc = "commit" /\ req[p].op = "create")
  <2>1. used' = used /\ new \subseteq old
    BY <1>1, <1>7, Zenon DEF Orderly, Exists
  <2>2. ASSUME NEW q \in Requests, req'[q].pc = "commit", req'[q].op = "create"
        PROVE  Total({req'[q].srv} \cup new) <= allocatable
    <3>1. req'[q].srv \in Servers
      BY <2>2 DEF TypeInv, Located
    <3>2. PICK u \in Servers : u = req'[q].srv
      BY <3>1
    <3>3. Total({u} \cup old) <= allocatable
      <4>1. CASE q # p
        BY <1>2, <2>2, <3>2, <4>1 DEF FitInv, CreateAdmitted
      <4>2. CASE q = p
        <5>1. Admissible(req[p]) /\ u = s /\ req[p].op = "create"
          BY <1>1, <1>2, <2>2, <3>2, <4>2, ZenonT(60) DEF Orderly
        <5>2. Counted(req[p]) = old
          BY <5>1 DEF Counted
        <5>3. QED
          BY <1>2, <5>1, <5>2, AdmissibleFits DEF FitInv
      <4>3. QED
        BY <4>1, <4>2
    <3>4. /\ {u} \cup new \subseteq {u} \cup old
          /\ {u} \cup old \in SUBSET Servers /\ {u} \cup new \in SUBSET Servers
      BY <2>1
    <3> HIDE DEF old, new
    <3>5. /\ Total({u} \cup new) <= Total({u} \cup old)
          /\ Total({u} \cup new) \in Nat /\ Total({u} \cup old) \in Nat
      BY <3>4, TotalMonotone, TotalOf, Zenon
    <3>6. QED
      BY <1>2, <3>2, <3>3, <3>5
  <2>3. CreateAdmitted'
    BY <1>2, <2>2 DEF CreateAdmitted, Exists
  <2>4. QED
    BY <1>3, <1>4, <2>1, <2>3 DEF FitInv
<1>8. QED
  BY <1>6, <1>7

LEMMA NextFit ==
  ASSUME FitInv, TypeInv', [Next]_vars
  PROVE  /\ FitInv'
         /\ used' # used => Total({t \in Servers : row'[t].status # "ABSENT"}) <= allocatable
<1>1. CASE UNCHANGED vars
  BY <1>1, Zenon DEF vars, FitInv, Settling, Quiet, LockOne, CreateAdmitted, Exists
<1>2. ASSUME NEW p \in Requests, Arrival(p)
      PROVE  FitInv' /\ used' = used
  <2>1. PICK r : /\ req' = [req EXCEPT ![p] = r] /\ r.to = "none" /\ r.pc \in {"preflight", "claim"}
                 /\ boot = "serving" /\ UNCHANGED <<row, used, boot, allocatable>>
    BY <1>2, Zenon
       DEF Arrival, CreateServer, StartServer, StopServer, RestartServer, DeleteServer, Begin
  <2>2. req'[p] = r /\ \A q \in Requests : q # p => req'[q] = req[q]
    BY <2>1 DEF FitInv, TypeInv, TypeOK
  <2>3. QED
    BY <2>1, <2>2 DEF FitInv, Settling, Quiet, LockOne, CreateAdmitted, Exists, Transient
<1>3. CASE BootStep \/ Crash
  <2>1. \A p \in Requests : req'[p].pc = "idle" /\ req'[p].to \notin Transient
    BY <1>3
       DEF BootStep, BootRead, BootDecide, BootDone, BootWrite, BootInspect, BootLookup, Crash,
           Idle,
                FitInv, Quiet, Settling, Transient
  <2>2. used' = used
    BY <1>3 DEF BootStep, BootRead, BootDecide, BootDone, BootWrite, BootInspect, BootLookup, Crash
  <2>3. QED
    BY <2>1, <2>2, Zenon DEF FitInv, Settling, Quiet, LockOne, CreateAdmitted
<1>4. ASSUME NEW s \in Servers,
             \/ \E c \in ContainerState : External(s, c)
             \/ \E call \in Effects : LateEffect(call, s) \/ LateDrop(call, s)
      PROVE  FitInv' /\ used' = used
  <2>1. UNCHANGED <<row, used, req, boot, allocatable>>
    BY <1>4, Zenon DEF External, LateEffect, LateDrop
  <2>2. QED
    BY <2>1 DEF FitInv, Settling, Quiet, LockOne, CreateAdmitted, Exists
<1>5. QED
  BY <1>1, <1>2, <1>3, <1>4, HandlerFit, Zenon DEF Next, Environment

(* Admission of creates holds for every number of servers and requests,     *)
(* whatever goes wrong: right after an insert all rows of the table fit     *)
(* together in what the host may allocate.  It rests on the advisory lock   *)
(* being held from the allocation query to the insert.                      *)
THEOREM CreatesFitHost == Spec => CreateFitsHost
<1> DEFINE Fits == used' # used => Total({t \in Servers : row'[t].status # "ABSENT"}) <= allocatable
<1>1. FitInv /\ TypeInv' /\ [Next]_vars => FitInv' /\ [Fits]_vars
  BY NextFit
<1>2. FitInv => TypeInv
  BY DEF FitInv
<1> HIDE DEF Fits
<1>3. QED
  BY <1>1, <1>2, InitFit, NextTypeInv, PTL DEF Spec, CreateFitsHost, Fits
=============================================================================
