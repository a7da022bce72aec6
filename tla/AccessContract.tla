---------------------------- MODULE AccessContract ----------------------------
(***************************************************************************)
(* What the access endpoints promise (docs/access-control.md, "All state    *)
(* transitions are race-safe"): requesting, approving and revoking a user's *)
(* access to a server are atomic.  A call takes effect at one moment        *)
(* between its arrival and its answer, at most once, and the answer tells   *)
(* what it found there; a call that is refused changes nothing.  Deleting a *)
(* server withdraws all access to it.                                       *)
(*                                                                         *)
(* An approval without a request is an assignment on a PRIVATE server and   *)
(* "not found" on a REQUEST server, as docs/access-control.md and the test  *)
(* "returns 404 when a REQUEST server has no pending row to approve" of     *)
(* server-access.service.spec.ts have it.  The endpoint table of SPEC.md    *)
(* promises a "direct APPROVED insert (PRIVATE/REQUEST)" instead, which the *)
(* code does not do.                                                        *)
(***************************************************************************)
CONSTANTS Servers, Users, Requests, NoServer, NoUser

VARIABLES
  accessType,  \* the accessType column: [Servers -> AccessTypes]
  access,      \* the server_access table: [Servers -> [Users -> AccessStatus]]
  call         \* [Requests -> Call]

vars == <<accessType, access, call>>

AccessTypes == {"OPEN", "REQUEST", "PRIVATE"}
AccessStatus == {"none", "PENDING", "APPROVED"}
Ops == {"request", "approve", "revoke"}

NoCall == [state |-> "idle", op |-> "none", srv |-> NoServer, user |-> NoUser, ans |-> "none"]

Init ==
  /\ accessType \in [Servers -> AccessTypes]
  /\ access = [s \in Servers |-> [u \in Users |-> "none"]]
  /\ call = [p \in Requests |-> NoCall]

(* What a call may do to the row it names, and what it then answers.  An    *)
(* approval that keeps losing races may give up, but says only what it saw. *)
Outcome(op, type, row) ==
  CASE op = "request" /\ row = "none" /\ type = "REQUEST" -> {<<"PENDING", "created">>}
    [] op = "request" /\ row = "PENDING" -> {<<"PENDING", "alreadyPending">>}
    [] op \in {"request", "approve"} /\ row = "APPROVED" -> {<<"APPROVED", "alreadyApproved">>}
    [] op = "approve" /\ row = "PENDING" -> {<<"APPROVED", "approved">>, <<"PENDING", "stillPending">>}
    [] op = "approve" /\ row = "none" ->
         {<<"none", "notFound">>} \cup (IF type = "PRIVATE" THEN {<<"APPROVED", "approved">>} ELSE {})
    [] op = "revoke" /\ row # "none" -> {<<"none", "revoked">>}
    [] op = "revoke" /\ row = "none" -> {<<"none", "notFound">>}
    [] OTHER -> {}

Refusals == {"serverNotFound", "open", "admin", "retry", "error"}

Answer(p, ans) ==
  call' = [call EXCEPT ![p] = [state |-> "answered", op |-> @.op, srv |-> @.srv, user |-> @.user,
                               ans |-> ans]]

Call(p, op, s, u) ==
  /\ call[p] = NoCall
  /\ call' = [call EXCEPT ![p] = [state |-> "pending", op |-> op, srv |-> s, user |-> u,
                                  ans |-> "none"]]
  /\ UNCHANGED <<accessType, access>>

TakeEffect(p) ==
  LET c == call[p] IN
  /\ c.state = "pending"
  /\ \E o \in Outcome(c.op, accessType[c.srv], access[c.srv][c.user]) :
       /\ access' = [access EXCEPT ![c.srv] = [@ EXCEPT ![c.user] = o[1]]]
       /\ Answer(p, o[2])
  /\ UNCHANGED accessType

Refuse(p, ans) ==
  /\ call[p].state = "pending"
  /\ Answer(p, ans)
  /\ UNCHANGED <<accessType, access>>

Return(p) ==
  /\ call[p].state = "answered"
  /\ call' = [call EXCEPT ![p] = NoCall]
  /\ UNCHANGED <<accessType, access>>

Withdraw(s) ==
  /\ access' = [access EXCEPT ![s] = [u \in Users |-> "none"]]
  /\ UNCHANGED <<accessType, call>>

Next ==
  \/ \E p \in Requests :
       \/ \E op \in Ops, s \in Servers, u \in Users : Call(p, op, s, u)
       \/ TakeEffect(p) \/ Return(p)
       \/ \E ans \in Refusals : Refuse(p, ans)
  \/ \E s \in Servers : Withdraw(s)

Spec == Init /\ [][Next]_vars
=============================================================================
