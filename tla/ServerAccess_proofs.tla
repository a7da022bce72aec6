------------------------- MODULE ServerAccess_proofs -------------------------
(***************************************************************************)
(* ServerAccess implements AccessContract, its answers are founded on what  *)
(* was true while the request ran, and its retries run out: for any         *)
(* servers, users and requests and any number of retries.                   *)
(***************************************************************************)
EXTENDS ServerAccess, TLAPS

(* What each step of a request knows: which operations come to it, and what *)
(* the accessType, which never changes, was found to be.                    *)
Fits(op, s, pc) ==
  /\ pc = "load" => op \in {"request", "mine", "approve", "revoke"}
  /\ pc \in {"insert", "reload"} => op = "request"
  /\ pc \in {"target", "update", "assign", "reread"} => op = "approve"
  /\ pc = "find" => op \in {"request", "mine", "approve"}
  /\ pc = "delete" => op = "revoke"
  /\ pc \in {"permit", "visible"} => op = "operate"
  /\ op = "request" /\ pc \in {"insert", "find", "reload"} => accessType[s] = "REQUEST"
  /\ op = "approve" /\ pc \in {"update", "find", "assign", "reread"} => accessType[s] # "OPEN"
  /\ pc = "assign" => accessType[s] = "PRIVATE"

Sound(r) ==
  /\ r \in Request
  /\ r.pc = "idle" => r = Idle
  /\ r.pc # "idle" => r.srv \in Servers /\ r.user \in Users
  /\ r.pc \notin {"idle", "done"} => r.ans = "none"
  /\ Fits(r.op, r.srv, r.pc)

Inv ==
  /\ accessType \in [Servers -> AccessTypes]
  /\ access \in [Servers -> [Users -> AccessStatus]]
  /\ req \in [Requests -> Request]
  /\ \A p \in Requests : Sound(req[p])

LEMMA IdleSound == Sound(Idle) /\ Idle \in Request
BY AccessAssumption DEF Sound, Fits, Idle, Request, Steps, Ops, Roles, Answers

LEMMA InitInv == Init => Inv
BY IdleSound DEF Init, Inv, AccessStatus

(* A step of one request, to a state that is sound. *)
LEMMA StepInv ==
  ASSUME Inv, NEW p \in Requests, NEW r, Sound(r), req' = [req EXCEPT ![p] = r],
         accessType' = accessType, access' \in [Servers -> [Users -> AccessStatus]]
  PROVE  Inv'
<1>1. req' \in [Requests -> Request]
  BY DEF Inv, Sound
<1>2. ASSUME NEW q \in Requests PROVE Sound(req'[q]) /\ (Sound(req[q]))'
  <2>1. Sound(req'[q])
    <3>1. CASE q = p
      BY <3>1 DEF Inv
    <3>2. CASE q # p
      BY <3>2 DEF Inv
    <3>3. QED
      BY <3>1, <3>2
  <2>2. QED
    BY <2>1 DEF Sound, Fits
<1>3. QED
  BY <1>1, <1>2 DEF Inv

(* What a step of one request does to the calls of the contract. *)
LEMMA CallStep ==
  ASSUME Inv, NEW p \in Requests, NEW r, req' = [req EXCEPT ![p] = r]
  PROVE  /\ Calls' = [Calls EXCEPT ![p] = CallOf(r)]
         /\ Calls[p] = CallOf(req[p])
         /\ CallOf(r) = CallOf(req[p]) => Calls' = Calls
BY Zenon DEF Inv, Calls

-----------------------------------------------------------------------------
(* A step of the contract, or none. *)
Simulates == Contract!Next \/ UNCHANGED <<accessType, access, Calls>>

Writes == {"request", "approve", "revoke"}

(* The outcomes the handlers use. *)
LEMMA Outcomes ==
  /\ <<"PENDING", "created">> \in Contract!Outcome("request", "REQUEST", "none")
  /\ \A type \in AccessTypes :
       /\ <<"PENDING", "alreadyPending">> \in Contract!Outcome("request", type, "PENDING")
       /\ <<"APPROVED", "alreadyApproved">> \in Contract!Outcome("request", type, "APPROVED")
       /\ <<"APPROVED", "alreadyApproved">> \in Contract!Outcome("approve", type, "APPROVED")
       /\ <<"APPROVED", "approved">> \in Contract!Outcome("approve", type, "PENDING")
       /\ <<"PENDING", "stillPending">> \in Contract!Outcome("approve", type, "PENDING")
       /\ <<"none", "notFound">> \in Contract!Outcome("approve", type, "none")
       /\ <<"none", "notFound">> \in Contract!Outcome("revoke", type, "none")
       /\ <<"none", "revoked">> \in Contract!Outcome("revoke", type, "PENDING")
       /\ <<"none", "revoked">> \in Contract!Outcome("revoke", type, "APPROVED")
  /\ <<"APPROVED", "approved">> \in Contract!Outcome("approve", "PRIVATE", "none")
BY DEF Contract!Outcome, AccessTypes

(* A request that goes on to another step. *)
LEMMA MoveStep ==
  ASSUME Inv, NEW p \in Requests, NEW r, Sound(r), req' = [req EXCEPT ![p] = r],
         UNCHANGED <<accessType, access>>,
         r.op = req[p].op, r.srv = req[p].srv, r.user = req[p].user, r.ans = req[p].ans,
         r.pc # "done", req[p].pc # "done"
  PROVE  Inv' /\ Simulates
<1>1. Inv'
  BY StepInv, Zenon DEF Inv
<1>2. CallOf(r) = CallOf(req[p])
  BY DEF CallOf
<1>3. QED
  BY <1>1, <1>2, CallStep, Zenon DEF Simulates

(* The record of a request that is answered. *)
LEMMA AnswerSound ==
  ASSUME NEW r, Sound(r), r.pc \notin {"idle", "done"}, NEW ans \in Answers
  PROVE  LET q == [r EXCEPT !.pc = "done", !.ans = ans] IN
         /\ Sound(q)
         /\ r.op \in Writes =>
              /\ CallOf(r) = [state |-> "pending", op |-> r.op, srv |-> r.srv, user |-> r.user,
                              ans |-> "none"]
              /\ CallOf(q) = [state |-> "answered", op |-> r.op, srv |-> r.srv, user |-> r.user,
                              ans |-> ans]
         /\ r.op \notin Writes => CallOf(q) = CallOf(r)
<1> DEFINE q == [r EXCEPT !.pc = "done", !.ans = ans]
<1>1. r \in Request /\ r.ans = "none"
  BY DEF Sound
<1>2. q \in Request /\ q.pc = "done" /\ q.ans = ans /\ q.op = r.op /\ q.srv = r.srv /\ q.user = r.user
  BY <1>1, Zenon DEF Request, Steps, Answers
<1> HIDE DEF q
<1>3. Sound(q)
  BY <1>2 DEF Sound, Fits
<1>4. r.op \in Writes =>
        /\ CallOf(r) = [state |-> "pending", op |-> r.op, srv |-> r.srv, user |-> r.user, ans |-> "none"]
        /\ CallOf(q) = [state |-> "answered", op |-> r.op, srv |-> r.srv, user |-> r.user, ans |-> ans]
  BY <1>1, <1>2 DEF CallOf, Writes
<1>5. r.op \notin Writes => CallOf(q) = CallOf(r)
  BY <1>2 DEF CallOf, Writes
<1>6. QED
  BY <1>3, <1>4, <1>5 DEF q

(* An answer that goes with an outcome of the contract. *)
LEMMA EffectStep ==
  ASSUME Inv, NEW p \in Requests, req[p].pc \notin {"idle", "done"}, req[p].op \in Writes,
         NEW st \in AccessStatus, NEW ans \in Answers,
         <<st, ans>> \in Contract!Outcome(req[p].op, accessType[req[p].srv],
                                          access[req[p].srv][req[p].user]),
         SetAccess(req[p].srv, req[p].user, st), Answer(p, ans), accessType' = accessType
  PROVE  Inv' /\ Simulates
<1> DEFINE r == req[p]
           q == [r EXCEPT !.pc = "done", !.ans = ans]
<1>1. Sound(r) /\ r.srv \in Servers /\ r.user \in Users
  BY DEF Inv, Sound
<1>2. Sound(q)
      /\ CallOf(q) = [state |-> "answered", op |-> r.op, srv |-> r.srv, user |-> r.user, ans |-> ans]
      /\ CallOf(r) = [state |-> "pending", op |-> r.op, srv |-> r.srv, user |-> r.user, ans |-> "none"]
  BY <1>1, AnswerSound, Zenon
<1>3. req' = [req EXCEPT ![p] = q]
  BY DEF Answer
<1>4. access' \in [Servers -> [Users -> AccessStatus]]
  BY <1>1 DEF Inv, SetAccess
<1>5. Inv'
  BY <1>2, <1>3, <1>4, StepInv, Zenon
<1>6. Calls[p] = CallOf(r) /\ Calls' = [Calls EXCEPT ![p] = CallOf(q)]
  BY <1>3, CallStep, Zenon
<1>7. Calls[p].state = "pending" /\ Calls[p].op = r.op /\ Calls[p].srv = r.srv /\ Calls[p].user = r.user
  BY <1>2, <1>6
<1>8. Contract!Answer(p, ans)
  <2> HIDE DEF q, r
  <2>1. QED
    BY <1>2, <1>6, <1>7 DEF Contract!Answer
<1>9. Contract!TakeEffect(p)
  <2> DEFINE o == <<st, ans>>
  <2>1. o[1] = st /\ o[2] = ans
    OBVIOUS
  <2>2. o \in Contract!Outcome(Calls[p].op, accessType[Calls[p].srv], access[Calls[p].srv][Calls[p].user])
    BY <1>7
  <2>3. access' = [access EXCEPT ![Calls[p].srv] = [@ EXCEPT ![Calls[p].user] = o[1]]]
    BY <1>7, <2>1 DEF SetAccess
  <2>4. Contract!Answer(p, o[2])
    BY <1>8, <2>1
  <2> HIDE DEF o
  <2>5. QED
    BY <1>7, <2>2, <2>3, <2>4, Zenon DEF Contract!TakeEffect
<1>10. QED
  BY <1>5, <1>9 DEF Simulates, Contract!Next

(* An answer that tells what the row is and leaves it. *)
LEMMA ReportStep ==
  ASSUME Inv, NEW p \in Requests, req[p].pc \notin {"idle", "done"}, req[p].op \in Writes,
         NEW ans \in Answers,
         <<access[req[p].srv][req[p].user], ans>>
           \in Contract!Outcome(req[p].op, accessType[req[p].srv], access[req[p].srv][req[p].user]),
         Answer(p, ans), UNCHANGED <<accessType, access>>
  PROVE  Inv' /\ Simulates
<1> DEFINE s == req[p].srv
           u == req[p].user
           st == access[s][u]
<1>1. s \in Servers /\ u \in Users
  BY DEF Inv, Sound
<1>2. st \in AccessStatus
  BY <1>1 DEF Inv
<1>3. SetAccess(s, u, st)
  <2> HIDE DEF s, u
  <2>1. [access[s] EXCEPT ![u] = access[s][u]] = access[s]
    BY <1>1 DEF Inv
  <2>2. [access EXCEPT ![s] = access[s]] = access
    BY <1>1 DEF Inv
  <2>3. QED
    BY <2>1, <2>2 DEF SetAccess
<1>4. accessType' = accessType
  OBVIOUS
<1> HIDE DEF st
<1>5. <<st, ans>> \in Contract!Outcome(req[p].op, accessType[s], access[s][u])
  BY DEF st
<1>6. QED
  BY <1>2, <1>3, <1>4, <1>5, EffectStep

(* A refusal, and an answer of an operation that only reads. *)
LEMMA RefuseStep ==
  ASSUME Inv, NEW p \in Requests, req[p].pc \notin {"idle", "done"}, NEW ans \in Answers,
         ans \in Contract!Refusals \/ req[p].op \notin Writes,
         Answer(p, ans), UNCHANGED <<accessType, access>>
  PROVE  Inv' /\ Simulates
<1> DEFINE r == req[p]
           q == [r EXCEPT !.pc = "done", !.ans = ans]
<1>1. Sound(r)
  BY DEF Inv
<1>2. req' = [req EXCEPT ![p] = q]
  BY DEF Answer
<1>3. Sound(q)
  BY <1>1, AnswerSound, Zenon
<1>4. Inv'
  BY <1>2, <1>3, StepInv, Zenon DEF Inv
<1>5. /\ Calls[p] = CallOf(r) /\ Calls' = [Calls EXCEPT ![p] = CallOf(q)]
      /\ CallOf(q) = CallOf(r) => Calls' = Calls
  BY <1>2, CallStep, Zenon
<1>6. CASE r.op \notin Writes
  <2>1. CallOf(q) = CallOf(r)
    BY <1>1, <1>6, AnswerSound, Zenon
  <2>2. Calls' = Calls
    BY <1>5, <2>1
  <2>3. QED
    BY <1>4, <2>2 DEF Simulates
<1>7. CASE r.op \in Writes
  <2>1. /\ CallOf(q) = [state |-> "answered", op |-> r.op, srv |-> r.srv, user |-> r.user, ans |-> ans]
        /\ CallOf(r) = [state |-> "pending", op |-> r.op, srv |-> r.srv, user |-> r.user, ans |-> "none"]
    BY <1>1, <1>7, AnswerSound, Zenon
  <2>2. ans \in Contract!Refusals
    BY <1>7
  <2> HIDE DEF q, r
  <2>3. Contract!Refuse(p, ans)
    BY <1>5, <2>1 DEF Contract!Refuse, Contract!Answer
  <2>4. QED
    BY <1>4, <2>2, <2>3 DEF Simulates, Contract!Next
<1>8. QED
  BY <1>6, <1>7

(* A request that is answered is forgotten. *)
LEMMA ReturnStep ==
  ASSUME Inv, NEW p \in Requests, Return(p)
  PROVE  Inv' /\ Simulates
<1> DEFINE r == req[p]
<1>1. Sound(r) /\ r \in Request /\ r.pc = "done"
  BY DEF Inv, Return
<1>2. req' = [req EXCEPT ![p] = Idle] /\ UNCHANGED <<accessType, access>>
  BY DEF Return, Tables
<1>3. Inv'
  BY <1>2, IdleSound, StepInv, Zenon DEF Inv
<1>4. /\ Calls[p] = CallOf(r) /\ Calls' = [Calls EXCEPT ![p] = CallOf(Idle)]
      /\ CallOf(Idle) = CallOf(r) => Calls' = Calls
  BY <1>2, CallStep, Zenon
<1>5. CallOf(Idle) = Contract!NoCall
  BY DEF CallOf, Idle, Contract!NoCall
<1>6. CASE r.op \in Writes
  <2>1. CallOf(r).state = "answered"
    BY <1>1, <1>6 DEF CallOf, Writes
  <2>2. Contract!Return(p)
    BY <1>2, <1>4, <1>5, <2>1 DEF Contract!Return
  <2>3. QED
    BY <1>3, <2>2 DEF Simulates, Contract!Next
<1>7. CASE r.op \notin Writes
  <2>1. CallOf(r) = CallOf(Idle)
    BY <1>7 DEF CallOf, Writes, Idle
  <2>2. QED
    BY <1>2, <1>3, <1>4, <2>1 DEF Simulates
<1>8. QED
  BY <1>6, <1>7

-----------------------------------------------------------------------------
(* The handlers                                                            *)

LEMMA GotoStep ==
  ASSUME Inv, NEW p \in Requests, req[p].pc \notin {"idle", "done"},
         NEW step \in Steps \ {"idle", "done"}, Fits(req[p].op, req[p].srv, step),
         Goto(p, step), UNCHANGED <<accessType, access>>
  PROVE  Inv' /\ Simulates
<1> DEFINE q == [req[p] EXCEPT !.pc = step]
<1>1. Sound(req[p]) /\ req[p] \in Request
  BY DEF Inv, Sound
<1>2. /\ q \in Request /\ q.pc = step /\ q.op = req[p].op /\ q.srv = req[p].srv
      /\ q.user = req[p].user /\ q.ans = req[p].ans
  BY <1>1 DEF Request
<1>3. req' = [req EXCEPT ![p] = q]
  BY DEF Goto
<1> HIDE DEF q
<1>4. Sound(q)
  BY <1>1, <1>2 DEF Sound
<1>5. QED
  BY <1>2, <1>3, <1>4, MoveStep, Zenon

LEMMA RetryStep ==
  ASSUME Inv, NEW p \in Requests, req[p].pc \notin {"idle", "done"},
         req[p].attempt < MaxRetries,
         NEW step \in Steps \ {"idle", "done"}, Fits(req[p].op, req[p].srv, step),
         Retry(p, step), UNCHANGED <<accessType, access>>
  PROVE  Inv' /\ Simulates
<1> DEFINE q == [req[p] EXCEPT !.pc = step, !.attempt = req[p].attempt + 1]
<1>1. Sound(req[p]) /\ req[p] \in Request
  BY DEF Inv, Sound
<1>2. req[p].attempt + 1 \in 0..MaxRetries
  BY <1>1, AccessAssumption DEF Request
<1>3. /\ q \in Request /\ q.pc = step /\ q.op = req[p].op /\ q.srv = req[p].srv
      /\ q.user = req[p].user /\ q.ans = req[p].ans
  BY <1>1, <1>2, Zenon DEF Request
<1>4. req' = [req EXCEPT ![p] = q]
  BY DEF Retry
<1> HIDE DEF q
<1>5. Sound(q)
  BY <1>1, <1>3 DEF Sound
<1>6. QED
  BY <1>3, <1>4, <1>5, MoveStep, Zenon

(* What is known of a request about to take a step. *)
LEMMA Known ==
  ASSUME Inv, NEW p \in Requests, req[p].pc \notin {"idle", "done"}
  PROVE  /\ req[p].srv \in Servers /\ req[p].user \in Users
         /\ Fits(req[p].op, req[p].srv, req[p].pc)
         /\ accessType[req[p].srv] \in AccessTypes
         /\ access[req[p].srv][req[p].user] \in AccessStatus
         /\ req[p].attempt < MaxRetries <=> ~(req[p].attempt >= MaxRetries)
<1>1. req[p].attempt \in 0..MaxRetries
  BY DEF Inv, Request
<1>2. req[p].attempt < MaxRetries <=> ~(req[p].attempt >= MaxRetries)
  BY <1>1, AccessAssumption
<1>3. QED
  BY <1>2 DEF Inv, Sound

LEMMA LoadServerStep ==
  ASSUME Inv, NEW p \in Requests, LoadServer(p)
  PROVE  Inv' /\ Simulates
<1> DEFINE r == req[p]
           type == accessType[r.srv]
<1>1. r.pc = "load" /\ UNCHANGED <<accessType, access>>
  BY DEF LoadServer, Tables
<1>2. type \in AccessTypes /\ r.op \in {"request", "mine", "approve", "revoke"}
  BY <1>1, Known DEF Fits
<1>3. CASE Answer(p, "serverNotFound") \/ Answer(p, "open")
  BY <1>1, <1>3, RefuseStep DEF Contract!Refusals, Answers
<1>4. CASE r.op = "mine" /\ Answer(p, "notFound")
  BY <1>1, <1>4, RefuseStep DEF Writes, Answers
<1>5. CASE r.op = "request" /\ type = "REQUEST" /\ Goto(p, "insert")
  BY <1>1, <1>5, GotoStep DEF Fits, Steps
<1>6. CASE r.op = "mine" /\ Goto(p, "find")
  BY <1>1, <1>6, GotoStep DEF Fits, Steps
<1>7. CASE r.op = "approve" /\ Goto(p, "target")
  BY <1>1, <1>7, GotoStep DEF Fits, Steps
<1>8. CASE r.op = "revoke" /\ Goto(p, "delete")
  BY <1>1, <1>8, GotoStep DEF Fits, Steps
<1>9. QED
  BY <1>2, <1>3, <1>4, <1>5, <1>6, <1>7, <1>8 DEF LoadServer, AccessTypes

LEMMA LoadTargetUserStep ==
  ASSUME Inv, NEW p \in Requests, LoadTargetUser(p)
  PROVE  Inv' /\ Simulates
<1>1. req[p].pc = "target" /\ UNCHANGED <<accessType, access>>
  BY DEF LoadTargetUser, Tables
<1>2. req[p].op = "approve"
  BY <1>1, Known DEF Fits
<1>3. CASE Answer(p, "admin") \/ Answer(p, "open")
  BY <1>1, <1>3, RefuseStep DEF Contract!Refusals, Answers
<1>4. CASE accessType[req[p].srv] # "OPEN" /\ Goto(p, "update")
  BY <1>1, <1>2, <1>4, GotoStep DEF Fits, Steps
<1>5. QED
  BY <1>3, <1>4 DEF LoadTargetUser

LEMMA TryInsertPendingStep ==
  ASSUME Inv, NEW p \in Requests, TryInsertPending(p)
  PROVE  Inv' /\ Simulates
<1> DEFINE r == req[p]
<1>1. r.pc = "insert" /\ accessType' = accessType
  BY DEF TryInsertPending, InsertRow
<1>2. r.op = "request" /\ accessType[r.srv] = "REQUEST"
  BY <1>1, Known DEF Fits
<1>3. CASE Answer(p, "error") /\ UNCHANGED access
  BY <1>1, <1>3, RefuseStep DEF Contract!Refusals, Answers
<1>4. CASE access[r.srv][r.user] = "none" /\ SetAccess(r.srv, r.user, "PENDING") /\ Answer(p, "created")
  BY <1>1, <1>2, <1>4, Outcomes, EffectStep, Zenon DEF Writes, AccessStatus, Answers
<1>5. CASE Goto(p, "find") /\ UNCHANGED access
  BY <1>1, <1>2, <1>5, GotoStep DEF Fits, Steps
<1>6. QED
  BY <1>3, <1>4, <1>5 DEF TryInsertPending, InsertRow

LEMMA TryInsertApprovedStep ==
  ASSUME Inv, NEW p \in Requests, TryInsertApproved(p)
  PROVE  Inv' /\ Simulates
<1> DEFINE r == req[p]
<1>1. r.pc = "assign" /\ accessType' = accessType
  BY DEF TryInsertApproved, InsertRow
<1>2. /\ r.op = "approve" /\ accessType[r.srv] = "PRIVATE"
      /\ r.attempt < MaxRetries <=> ~(r.attempt >= MaxRetries)
  BY <1>1, Known DEF Fits
<1>3. CASE Answer(p, "error") /\ UNCHANGED access
  BY <1>1, <1>3, RefuseStep DEF Contract!Refusals, Answers
<1>4. CASE access[r.srv][r.user] = "none" /\ SetAccess(r.srv, r.user, "APPROVED") /\ Answer(p, "approved")
  BY <1>1, <1>2, <1>4, Outcomes, EffectStep, Zenon DEF Writes, AccessStatus, Answers
<1>5. CASE Goto(p, "reread") /\ UNCHANGED access
  BY <1>1, <1>2, <1>5, GotoStep DEF Fits, Steps
<1>6. CASE r.attempt < MaxRetries /\ Retry(p, "update") /\ UNCHANGED access
  BY <1>1, <1>2, <1>6, RetryStep DEF Fits, Steps
<1>7. QED
  BY <1>2, <1>3, <1>4, <1>5, <1>6 DEF TryInsertApproved, InsertRow

LEMMA TryApprovePendingStep ==
  ASSUME Inv, NEW p \in Requests, TryApprovePending(p)
  PROVE  Inv' /\ Simulates
<1> DEFINE r == req[p]
<1>1. r.pc = "update" /\ accessType' = accessType
  BY DEF TryApprovePending
<1>2. r.op = "approve" /\ accessType[r.srv] # "OPEN" /\ accessType[r.srv] \in AccessTypes
  BY <1>1, Known DEF Fits
<1>3. CASE access[r.srv][r.user] = "PENDING" /\ SetAccess(r.srv, r.user, "APPROVED") /\ Answer(p, "approved")
  BY <1>1, <1>2, <1>3, Outcomes, EffectStep, Zenon DEF Writes, AccessStatus, Answers
<1>4. CASE Goto(p, "find") /\ UNCHANGED access
  BY <1>1, <1>2, <1>4, GotoStep DEF Fits, Steps
<1>5. QED
  BY <1>3, <1>4 DEF TryApprovePending

LEMMA FindOwnAccessStep ==
  ASSUME Inv, NEW p \in Requests, FindOwnAccess(p)
  PROVE  Inv' /\ Simulates
<1> DEFINE r == req[p]
           row == access[r.srv][r.user]
<1>1. r.pc = "find" /\ r.op \in {"request", "mine"} /\ UNCHANGED <<accessType, access>>
  BY DEF FindOwnAccess, Tables
<1>2. /\ r.op = "request" => accessType[r.srv] = "REQUEST"
      /\ accessType[r.srv] \in AccessTypes
  BY <1>1, Known DEF Fits
<1>3. CASE r.op = "mine"
  <2>1. Answer(p, IF row = "none" THEN "notFound" ELSE "shown")
    BY <1>3 DEF FindOwnAccess
  <2>2. QED
    <3> DEFINE ans == IF row = "none" THEN "notFound" ELSE "shown"
    <3>1. ans \in Answers
      BY DEF Answers
    <3>2. r.op \notin Writes
      BY <1>3 DEF Writes
    <3> HIDE DEF ans
    <3>3. Answer(p, ans)
      BY <2>1 DEF ans
    <3>4. QED
      BY <1>1, <3>1, <3>2, <3>3, RefuseStep
<1>4. CASE r.op = "request" /\ row = "PENDING"
  <2>1. Answer(p, "alreadyPending")
    BY <1>4 DEF FindOwnAccess
  <2>2. QED
    BY <1>1, <1>2, <1>4, <2>1, Outcomes, ReportStep, Zenon DEF Writes, Answers
<1>5. CASE r.op = "request" /\ row = "APPROVED"
  <2>1. Answer(p, "alreadyApproved")
    BY <1>5 DEF FindOwnAccess
  <2>2. QED
    BY <1>1, <1>2, <1>5, <2>1, Outcomes, ReportStep, Zenon DEF Writes, Answers
<1>6. CASE r.op = "request" /\ row \notin {"PENDING", "APPROVED"}
  <2>1. Goto(p, "reload")
    BY <1>6 DEF FindOwnAccess
  <2>2. QED
    BY <1>1, <1>2, <1>6, <2>1, GotoStep DEF Fits, Steps
<1>7. QED
  BY <1>1, <1>3, <1>4, <1>5, <1>6

LEMMA ReloadServerStep ==
  ASSUME Inv, NEW p \in Requests, ReloadServer(p)
  PROVE  Inv' /\ Simulates
<1> DEFINE r == req[p]
           requests == server[r.srv] = "live" /\ accessType[r.srv] = "REQUEST"
<1>1. r.pc = "reload" /\ UNCHANGED <<accessType, access>>
  BY DEF ReloadServer, Tables
<1>2. /\ r.op = "request" /\ accessType[r.srv] = "REQUEST"
      /\ r.attempt < MaxRetries <=> ~(r.attempt >= MaxRetries)
  BY <1>1, Known DEF Fits
<1>3. CASE ~requests
  <2>1. Answer(p, "serverNotFound")
    BY <1>3 DEF ReloadServer
  <2>2. QED
    BY <1>1, <2>1, RefuseStep DEF Contract!Refusals, Answers
<1>4. CASE requests /\ r.attempt >= MaxRetries
  <2>1. Answer(p, "retry")
    BY <1>4 DEF ReloadServer
  <2>2. QED
    BY <1>1, <2>1, RefuseStep DEF Contract!Refusals, Answers
<1>5. CASE requests /\ r.attempt < MaxRetries
  <2>1. Retry(p, "insert")
    BY <1>2, <1>5 DEF ReloadServer
  <2>2. QED
    BY <1>1, <1>2, <1>5, <2>1, RetryStep DEF Fits, Steps
<1>6. QED
  BY <1>2, <1>3, <1>4, <1>5

LEMMA FindForApprovalStep ==
  ASSUME Inv, NEW p \in Requests, FindForApproval(p)
  PROVE  Inv' /\ Simulates
<1> DEFINE r == req[p]
           row == access[r.srv][r.user]
           type == accessType[r.srv]
<1>1. r.pc = "find" /\ r.op = "approve" /\ UNCHANGED <<accessType, access>>
  BY DEF FindForApproval, Tables
<1>2. /\ type \in AccessTypes /\ type # "OPEN" /\ row \in AccessStatus
      /\ r.attempt < MaxRetries <=> ~(r.attempt >= MaxRetries)
  BY <1>1, Known DEF Fits
<1>3. CASE row = "APPROVED"
  <2>1. Answer(p, "alreadyApproved")
    BY <1>3 DEF FindForApproval
  <2>2. QED
    BY <1>1, <1>2, <1>3, <2>1, Outcomes, ReportStep, Zenon DEF Writes, Answers
<1>4. CASE row = "PENDING" /\ r.attempt >= MaxRetries
  <2>1. Answer(p, "stillPending")
    BY <1>2, <1>4 DEF FindForApproval
  <2>2. QED
    BY <1>1, <1>2, <1>4, <2>1, Outcomes, ReportStep, Zenon DEF Writes, Answers
<1>5. CASE row = "PENDING" /\ r.attempt < MaxRetries
  <2>1. Retry(p, "update")
    BY <1>2, <1>5 DEF FindForApproval
  <2>2. QED
    BY <1>1, <1>2, <1>5, <2>1, RetryStep DEF Fits, Steps
<1>6. CASE row = "none" /\ type = "REQUEST"
  <2>1. Answer(p, "notFound")
    BY <1>6 DEF FindForApproval
  <2>2. QED
    BY <1>1, <1>2, <1>6, <2>1, Outcomes, ReportStep, Zenon DEF Writes, Answers
<1>7. CASE row = "none" /\ type = "PRIVATE"
  <2>1. Goto(p, "assign")
    BY <1>7 DEF FindForApproval
  <2>2. QED
    BY <1>1, <1>7, <2>1, GotoStep DEF Fits, Steps
<1>8. QED
  BY <1>2, <1>3, <1>4, <1>5, <1>6, <1>7 DEF AccessTypes, AccessStatus

LEMMA RereadAccessStep ==
  ASSUME Inv, NEW p \in Requests, RereadAccess(p)
  PROVE  Inv' /\ Simulates
<1> DEFINE r == req[p]
           row == access[r.srv][r.user]
           ans == CASE row = "APPROVED" -> "alreadyApproved"
                    [] row = "PENDING" -> "stillPending"
                    [] OTHER -> "notFound"
<1>1. r.pc = "reread" /\ Answer(p, ans) /\ UNCHANGED <<accessType, access>>
  BY DEF RereadAccess, Tables
<1>2. r.op = "approve" /\ accessType[r.srv] \in AccessTypes /\ row \in AccessStatus
  BY <1>1, Known DEF Fits
<1>3. /\ row = "APPROVED" => ans = "alreadyApproved"
      /\ row = "PENDING" => ans = "stillPending"
      /\ row = "none" => ans = "notFound"
  OBVIOUS
<1> HIDE DEF ans
<1>4. ans \in Answers /\ <<row, ans>> \in Contract!Outcome("approve", accessType[r.srv], row)
  BY <1>2, <1>3, Outcomes DEF Answers, AccessStatus
<1>5. QED
  BY <1>1, <1>2, <1>4, ReportStep DEF Writes

LEMMA DeleteAccessStep ==
  ASSUME Inv, NEW p \in Requests, DeleteAccess(p)
  PROVE  Inv' /\ Simulates
<1> DEFINE r == req[p]
           row == access[r.srv][r.user]
           ans == IF row = "none" THEN "notFound" ELSE "revoked"
<1>1. /\ r.pc = "delete" /\ Answer(p, ans) /\ SetAccess(r.srv, r.user, "none")
      /\ accessType' = accessType
  BY DEF DeleteAccess
<1>2. r.op = "revoke" /\ accessType[r.srv] \in AccessTypes /\ row \in AccessStatus
  BY <1>1, Known DEF Fits
<1>3. (row = "none" /\ ans = "notFound") \/ (row # "none" /\ ans = "revoked")
  OBVIOUS
<1> HIDE DEF ans
<1>4. ans \in Answers /\ <<"none", ans>> \in Contract!Outcome("revoke", accessType[r.srv], row)
  BY <1>2, <1>3, Outcomes DEF Answers, AccessStatus
<1>5. QED
  BY <1>1, <1>2, <1>4, EffectStep DEF Writes, AccessStatus

LEMMA GuardSteps ==
  ASSUME Inv, NEW p \in Requests, PermissionsGuard(p) \/ LoadVisibleServer(p)
  PROVE  Inv' /\ Simulates
<1>1. req[p].pc \in {"permit", "visible"} /\ UNCHANGED <<accessType, access>>
  BY DEF PermissionsGuard, LoadVisibleServer, Tables
<1>2. req[p].op = "operate"
  BY <1>1, Known DEF Fits
<1>3. CASE Goto(p, "visible")
  BY <1>1, <1>2, <1>3, GotoStep DEF Fits, Steps
<1>4. CASE \E ans \in Answers : Answer(p, ans)
  BY <1>1, <1>2, <1>4, RefuseStep DEF Writes
<1>5. PermissionsGuard(p) => Goto(p, "visible") \/ Answer(p, "forbidden")
  BY DEF PermissionsGuard
<1>6. LoadVisibleServer(p) => \E ans \in Answers : Answer(p, ans)
  <2> DEFINE ans == IF Visible(req[p].srv, req[p].user, req[p].role) THEN "admitted" ELSE "serverNotFound"
  <2>1. ans \in Answers
    BY DEF Answers
  <2>2. LoadVisibleServer(p) => Answer(p, ans)
    BY DEF LoadVisibleServer
  <2> HIDE DEF ans
  <2>3. QED
    BY <2>1, <2>2
<1>7. "forbidden" \in Answers
  BY DEF Answers
<1>8. QED
  BY <1>3, <1>4, <1>5, <1>6, <1>7

LEMMA DbFailureStep ==
  ASSUME Inv, NEW p \in Requests, DbFailure(p)
  PROVE  Inv' /\ Simulates
<1> DEFINE ans == IF req[p].pc = "reload" /\ req[p].attempt >= MaxRetries THEN "serverNotFound" ELSE "error"
<1>1. req[p].pc \notin {"idle", "done"} /\ Answer(p, ans) /\ UNCHANGED <<accessType, access>>
  BY DEF DbFailure, Tables
<1>2. ans \in Answers /\ ans \in Contract!Refusals
  BY DEF Answers, Contract!Refusals
<1> HIDE DEF ans
<1>3. QED
  BY <1>1, <1>2, RefuseStep

(* A request arrives. *)
LEMMA BeginStep ==
  ASSUME Inv, NEW p \in Requests, NEW s \in Servers, NEW u \in Users, NEW op \in Ops,
         NEW r \in Roles, NEW step \in {"load", "permit"}, Fits(op, s, step), op # "none",
         Begin(p, op, s, u, r, step)
  PROVE  Inv' /\ Simulates
<1> DEFINE q == [Idle EXCEPT !.pc = step, !.op = op, !.srv = s, !.user = u, !.role = r]
<1>1. req[p].pc = "idle" /\ req' = [req EXCEPT ![p] = q] /\ UNCHANGED <<accessType, access>>
  BY DEF Begin, Tables
<1>2. /\ q \in Request /\ q.pc = step /\ q.op = op /\ q.srv = s /\ q.user = u /\ q.ans = "none"
  BY IdleSound, Zenon DEF Idle, Request, Steps, Answers
<1> HIDE DEF q
<1>3. Sound(q)
  BY <1>2 DEF Sound
<1>4. Inv'
  BY <1>1, <1>3, StepInv, Zenon DEF Inv
<1>5. req[p] = Idle
  BY <1>1 DEF Inv, Sound
<1>6. CallOf(Idle) = Contract!NoCall
  BY DEF CallOf, Idle, Contract!NoCall
<1>7. /\ Calls[p] = Contract!NoCall /\ Calls' = [Calls EXCEPT ![p] = CallOf(q)]
      /\ CallOf(q) = Contract!NoCall => Calls' = Calls
  BY <1>1, <1>5, <1>6, CallStep, Zenon
<1>8. CASE op \in Writes
  <2>1. CallOf(q) = [state |-> "pending", op |-> op, srv |-> s, user |-> u, ans |-> "none"]
    BY <1>2, <1>8 DEF CallOf, Writes
  <2>2. Contract!Call(p, op, s, u)
    BY <1>1, <1>7, <2>1 DEF Contract!Call
  <2>3. QED
    BY <1>4, <1>8, <2>2 DEF Simulates, Contract!Next, Contract!Ops, Writes
<1>9. CASE op \notin Writes
  <2>1. CallOf(q) = Contract!NoCall
    BY <1>2, <1>9 DEF CallOf, Writes, Contract!NoCall
  <2>2. QED
    BY <1>1, <1>4, <1>7, <2>1 DEF Simulates
<1>10. QED
  BY <1>8, <1>9

LEMMA ArrivalStep ==
  ASSUME Inv, NEW p \in Requests, NEW s \in Servers, NEW u \in Users, Arrival(p, s, u),
         role[u] \in Roles
  PROVE  Inv' /\ Simulates
<1>1. /\ \A op \in {"request", "mine", "approve", "revoke"} : Fits(op, s, "load")
      /\ Fits("operate", s, "permit")
  BY DEF Fits
<1>2. "USER" \in Roles /\ {"request", "mine", "approve", "revoke", "operate"} \subseteq Ops
  BY DEF Roles, Ops
<1>3. CASE \E op \in {"request", "mine", "approve", "revoke"} : Begin(p, op, s, u, "USER", "load")
  BY <1>1, <1>2, <1>3, BeginStep
<1>4. CASE Begin(p, "operate", s, u, role[u], "permit")
  BY <1>1, <1>2, <1>4, BeginStep
<1>5. QED
  BY <1>3, <1>4 DEF Arrival, RequestAccess, GetMyAccessRequest, ApproveAccess, RevokeAccess,
                    OperateServer

LEMMA EnvironmentStep ==
  ASSUME Inv, Environment
  PROVE  Inv' /\ Simulates
<1>1. req' = req /\ accessType' = accessType
  BY DEF Environment, CreateServer, FinishServer, EraseServer, UpdateRole, GrantModPermission,
         RevokeModPermission
<1>2. Calls' = Calls
  BY <1>1 DEF Calls
<1>3. access' = access \/ \E s \in Servers : access' = [access EXCEPT ![s] = [u \in Users |-> "none"]]
  BY DEF Environment, CreateServer, FinishServer, EraseServer, UpdateRole, GrantModPermission,
         RevokeModPermission
<1>4. access' \in [Servers -> [Users -> AccessStatus]]
  BY <1>3 DEF Inv, AccessStatus
<1>5. Inv'
  BY <1>1, <1>4 DEF Inv, Sound, Fits
<1>6. Simulates
  BY <1>1, <1>2, <1>3 DEF Simulates, Contract!Next, Contract!Withdraw
<1>7. QED
  BY <1>5, <1>6

-----------------------------------------------------------------------------
(* The refinement                                                          *)

RolesTyped == role \in [Users -> Roles]

LEMMA RolesStay == RolesTyped /\ Next => RolesTyped'
<1> SUFFICES ASSUME RolesTyped, Next PROVE RolesTyped'
  OBVIOUS
<1>1. CASE role' = role
  BY <1>1 DEF RolesTyped
<1>2. CASE \E u \in Users, r \in Roles : UpdateRole(u, r)
  BY <1>2 DEF RolesTyped, UpdateRole
<1>3. ASSUME NEW p \in Requests, HandlerStep(p) PROVE role' = role
  BY <1>3, Zenon DEF HandlerStep, LoadServer, LoadTargetUser, TryInsertPending, InsertRow, FindOwnAccess,
              ReloadServer, TryApprovePending, FindForApproval, TryInsertApproved, RereadAccess,
              DeleteAccess, PermissionsGuard, LoadVisibleServer, DbFailure, Return, Tables
<1>4. ASSUME NEW p \in Requests, NEW s \in Servers, NEW u \in Users, Arrival(p, s, u)
      PROVE  role' = role
  BY <1>4 DEF Arrival, RequestAccess, GetMyAccessRequest, ApproveAccess, RevokeAccess,
              OperateServer, Begin, Tables
<1>5. CASE Environment
  BY <1>1, <1>2, <1>5 DEF Environment, CreateServer, FinishServer, EraseServer,
                          GrantModPermission, RevokeModPermission
<1>6. QED
  BY <1>1, <1>3, <1>4, <1>5 DEF Next

LEMMA StepSimulates == Inv /\ RolesTyped /\ Next => Inv' /\ Simulates
<1> SUFFICES ASSUME Inv, RolesTyped, Next PROVE Inv' /\ Simulates
  OBVIOUS
<1>1. ASSUME NEW p \in Requests, HandlerStep(p) PROVE Inv' /\ Simulates
  BY <1>1, LoadServerStep, LoadTargetUserStep, TryInsertPendingStep, FindOwnAccessStep,
     ReloadServerStep, TryApprovePendingStep, FindForApprovalStep, TryInsertApprovedStep,
     RereadAccessStep, DeleteAccessStep, GuardSteps, DbFailureStep, ReturnStep
     DEF HandlerStep
<1>2. ASSUME NEW p \in Requests, NEW s \in Servers, NEW u \in Users, Arrival(p, s, u)
      PROVE  Inv' /\ Simulates
  BY <1>2, ArrivalStep DEF RolesTyped
<1>3. QED
  BY <1>1, <1>2, EnvironmentStep DEF Next

LEMMA SpecInv == Spec => [](Inv /\ RolesTyped)
<1>1. Init => Inv /\ RolesTyped
  BY InitInv DEF Init, RolesTyped, Roles
<1>2. Inv /\ RolesTyped /\ [Next]_vars => (Inv /\ RolesTyped)'
  <2>1. ASSUME Inv, RolesTyped, UNCHANGED vars PROVE (Inv /\ RolesTyped)'
    BY <2>1 DEF vars, Inv, RolesTyped, Sound, Fits
  <2>2. QED
    BY <2>1, RolesStay, StepSimulates
<1>3. QED
  BY <1>1, <1>2, PTL DEF Spec

(* However the statements of requestAccess, approveAccess and revokeAccess   *)
(* interleave with one another, with deletions and with database failures,  *)
(* each call looks as if it had happened at one moment: for any servers,    *)
(* users and requests in flight, and any MAX_RACE_RETRIES, the service      *)
(* implements AccessContract.                                               *)
THEOREM AccessIsAtomic == Spec => AtomicContract
<1>1. Init => Contract!Init
  <2>1. CallOf(Idle) = Contract!NoCall
    BY DEF CallOf, Idle, Contract!NoCall
  <2>2. QED
    BY <2>1 DEF Init, Contract!Init, Calls, AccessTypes, Contract!AccessTypes
<1>2. Inv /\ RolesTyped /\ [Next]_vars => [Contract!Next]_(Contract!vars)
  <2>1. ASSUME UNCHANGED vars PROVE UNCHANGED Contract!vars
    BY <2>1 DEF vars, Contract!vars, Calls
  <2>2. ASSUME Simulates PROVE [Contract!Next]_(Contract!vars)
    BY <2>2 DEF Simulates, Contract!vars
  <2>3. QED
    BY <2>1, <2>2, StepSimulates
<1>3. QED
  BY <1>1, <1>2, SpecInv, PTL DEF Spec, AtomicContract, Contract!Spec

-----------------------------------------------------------------------------
(* What has been seen                                                      *)

(* What the answer of a request, and the step it has come to, say of what   *)
(* was true since it arrived.                                               *)
Told(r, seen) ==
  /\ r.pc = "visible" /\ r.role = "MOD" => "granted" \in seen
  /\ r.ans = "admitted" => "visible" \in seen /\ (r.role = "MOD" => "granted" \in seen)
  /\ r.op = "operate" /\ r.ans = "serverNotFound" => "hidden" \in seen
  /\ r.op = "request" /\ ( \/ r.ans \in {"open", "alreadyApproved"}
                           \/ r.ans = "serverNotFound" /\ r.attempt < MaxRetries )
       => "unrequestable" \in seen

Knows ==
  /\ saw \in [Requests -> SUBSET Facts]
  /\ \A p \in Requests : Told(req[p], saw[p])

LEMMA FactTyped == \A r : Fact(r) \subseteq Facts
BY DEF Fact, Facts

LEMMA IdleTold == Told(Idle, {})
BY DEF Told, Idle

LEMMA ToldMore ==
  ASSUME NEW r, NEW seen, NEW more, seen \subseteq more, Told(r, seen)
  PROVE  Told(r, more)
BY DEF Told

(* The facts that Observe adds for a request that goes on. *)
LEMMA Observed ==
  ASSUME Knows, Observe, NEW p \in Requests, req'[p].pc # "idle"
  PROVE  /\ saw[p] \subseteq saw'[p]
         /\ req'[p].op = "request" /\ ~(Requestable(req[p].srv, req[p].user))' => "unrequestable" \in saw'[p]
         /\ req'[p].op = "operate" =>
              /\ (Visible(req[p].srv, req[p].user, req[p].role))' => "visible" \in saw'[p]
              /\ ~(Visible(req[p].srv, req[p].user, req[p].role))' => "hidden" \in saw'[p]
              /\ grants'[req'[p].user] \cap {Global, req'[p].srv} # {} => "granted" \in saw'[p]
<1>1. saw'[p] = saw[p] \cup Fact(req[p])'
  BY DEF Observe
<1>2. QED
  BY <1>1 DEF Fact

(* A step that is told truly of the request that takes it. *)
LEMMA KnowsStep ==
  ASSUME Knows, Observe, NEW p \in Requests,
         \A q \in Requests \ {p} : req'[q] = req[q],
         req'[p].pc # "idle" => Told(req'[p], saw'[p]),
         \A q \in Requests : req'[q].pc = "idle" => req'[q] = Idle
  PROVE  Knows'
<1>1. saw' \in [Requests -> SUBSET Facts]
  <2>1. ASSUME NEW q \in Requests
        PROVE  (IF req'[q].pc = "idle" THEN {} ELSE saw[q] \cup Fact(req[q])') \in SUBSET Facts
    BY FactTyped DEF Knows, Fact, Facts
  <2>2. QED
    BY <2>1 DEF Observe
<1>2. ASSUME NEW q \in Requests PROVE Told(req'[q], saw'[q])
  <2>1. CASE req'[q].pc = "idle"
    BY <2>1, IdleTold DEF Observe
  <2>2. CASE req'[q].pc # "idle" /\ q = p
    BY <2>2
  <2>3. CASE req'[q].pc # "idle" /\ q # p
    <3>1. Told(req[q], saw[q]) /\ req'[q] = req[q] /\ saw[q] \subseteq saw'[q]
      BY <2>3, Observed DEF Knows
    <3>2. QED
      BY <3>1, ToldMore
  <2>4. QED
    BY <2>1, <2>2, <2>3
<1>3. QED
  BY <1>1, <1>2 DEF Knows, Told

(* The three ways a request goes on. *)
LEMMA GotoTold ==
  ASSUME Inv, Inv', Knows, Observe, NEW p \in Requests, NEW step, step # "idle", Goto(p, step),
         req[p].ans = "none", step = "visible" /\ req[p].role = "MOD" => "granted" \in saw'[p]
  PROVE  Knows'
<1>1. /\ req'[p].pc = step /\ req'[p].ans = "none" /\ req'[p].role = req[p].role
      /\ \A q \in Requests \ {p} : req'[q] = req[q]
  BY DEF Inv, Goto, Request
<1>2. Told(req'[p], saw'[p])
  BY <1>1 DEF Told
<1>3. \A q \in Requests : req'[q].pc = "idle" => req'[q] = Idle
  BY DEF Inv, Sound
<1>4. QED
  BY <1>1, <1>2, <1>3, KnowsStep

LEMMA RetryTold ==
  ASSUME Inv, Inv', Knows, Observe, NEW p \in Requests, NEW step, step \notin {"idle", "visible"},
         Retry(p, step), req[p].ans = "none"
  PROVE  Knows'
<1>1. /\ req'[p].pc = step /\ req'[p].ans = "none"
      /\ \A q \in Requests \ {p} : req'[q] = req[q]
  BY DEF Inv, Retry, Request
<1>2. Told(req'[p], saw'[p])
  BY <1>1 DEF Told
<1>3. \A q \in Requests : req'[q].pc = "idle" => req'[q] = Idle
  BY DEF Inv, Sound
<1>4. QED
  BY <1>1, <1>2, <1>3, KnowsStep

LEMMA AnswerTold ==
  ASSUME Inv, Inv', Knows, Observe, NEW p \in Requests, NEW ans, Answer(p, ans),
         Told([req[p] EXCEPT !.pc = "done", !.ans = ans], saw'[p])
  PROVE  Knows'
<1>1. /\ req'[p] = [req[p] EXCEPT !.pc = "done", !.ans = ans] /\ req'[p].pc # "idle"
      /\ \A q \in Requests \ {p} : req'[q] = req[q]
  BY DEF Inv, Answer, Request
<1>2. \A q \in Requests : req'[q].pc = "idle" => req'[q] = Idle
  BY DEF Inv, Sound
<1>3. QED
  BY <1>1, <1>2, KnowsStep

(* An answer says nothing of what was seen, unless it is one of these. *)
LEMMA PlainAnswerTold ==
  ASSUME Inv, Inv', Knows, Observe, NEW p \in Requests, NEW ans, Answer(p, ans),
         \/ ans \notin {"admitted", "serverNotFound", "open", "alreadyApproved"}
         \/ req[p].op \notin {"request", "operate"} /\ ans # "admitted"
         \/ req[p].op = "request" /\ ans = "serverNotFound" /\ ~(req[p].attempt < MaxRetries)
         \/ req[p].op = "request" /\ ans # "admitted" /\ "unrequestable" \in saw'[p]
  PROVE  Knows'
<1>1. Told([req[p] EXCEPT !.pc = "done", !.ans = ans], saw'[p])
  BY DEF Told, Inv, Request
<1>2. QED
  BY <1>1, AnswerTold, Zenon

(* The statements of the handlers, for a request that has no answer yet. *)
LEMMA HandlerKnows ==
  ASSUME Inv, Inv', Knows, NEW p \in Requests, HandlerStep(p), Observe
  PROVE  Knows'
<1> DEFINE r == req[p]
<1>1. /\ r \in Request /\ Sound(r)
      /\ r.pc \notin {"idle", "done"} => r.ans = "none"
  BY DEF Inv, Sound
<1>2. ASSUME NEW ans, Answer(p, ans)
      PROVE  /\ req'[p].op = r.op /\ req'[p].srv = r.srv /\ req'[p].user = r.user
             /\ req'[p].role = r.role /\ req'[p].pc = "done"
  BY <1>2 DEF Answer, Inv, Request
<1>3. ASSUME NEW step, Goto(p, step)
      PROVE  /\ req'[p].op = r.op /\ req'[p].srv = r.srv /\ req'[p].user = r.user
             /\ req'[p].role = r.role /\ req'[p].pc = step
  BY <1>3 DEF Goto, Inv, Request
<1>4. ASSUME NEW ans, Answer(p, ans), UNCHANGED Tables, r.op = "request", ~Requestable(r.srv, r.user),
             ans # "admitted"
      PROVE  Knows'
  <2>1. "unrequestable" \in saw'[p]
    BY <1>2, <1>4, Observed DEF Requestable, Tables
  <2>2. QED
    BY <1>4, <2>1, PlainAnswerTold
<1>5. CASE LoadServer(p)
  <2>1. r.pc = "load" /\ r.op \in {"request", "mine", "approve", "revoke"} /\ UNCHANGED Tables
    BY <1>1, <1>5 DEF LoadServer, Sound, Fits
  <2>2. CASE r.op = "request" /\ ~Requestable(r.srv, r.user)
    <3>1. \/ \E ans \in {"serverNotFound", "open"} : Answer(p, ans)
          \/ Goto(p, "insert")
      BY <1>5, <2>2 DEF LoadServer
    <3>2. QED
      BY <1>1, <1>4, <2>1, <2>2, <3>1, GotoTold
  <2>3. CASE r.op = "request" /\ Requestable(r.srv, r.user)
    <3>1. Goto(p, "insert")
      BY <1>5, <2>3 DEF LoadServer, Requestable
    <3>2. QED
      BY <1>1, <2>1, <3>1, GotoTold
  <2>4. CASE r.op # "request"
    <3>1. \/ \E ans \in {"serverNotFound", "notFound"} : Answer(p, ans)
          \/ \E step \in {"find", "target", "delete"} : Goto(p, step)
      BY <1>5, <2>4 DEF LoadServer
    <3>2. QED
      BY <1>1, <2>1, <2>4, <3>1, GotoTold, PlainAnswerTold
  <2>5. QED
    BY <2>2, <2>3, <2>4
<1>6. CASE LoadTargetUser(p) \/ FindForApproval(p) \/ RereadAccess(p)
  <2>1. /\ r.op = "approve" /\ r.pc \notin {"idle", "done"}
        /\ \/ \E ans \in Answers \ {"admitted"} : Answer(p, ans)
           \/ \E step \in {"update", "assign"} : Goto(p, step)
           \/ Retry(p, "update")
    BY <1>1, <1>6 DEF LoadTargetUser, FindForApproval, RereadAccess, Sound, Fits, Answers
  <2>2. QED
    BY <1>1, <2>1, GotoTold, RetryTold, PlainAnswerTold
<1>7. CASE TryInsertPending(p) \/ TryInsertApproved(p) \/ TryApprovePending(p) \/ DeleteAccess(p)
  <2>1. /\ r.pc \notin {"idle", "done"}
        /\ \/ \E ans \in {"error", "created", "approved", "revoked", "notFound"} : Answer(p, ans)
           \/ \E step \in {"find", "reread"} : Goto(p, step)
           \/ Retry(p, "update")
    BY <1>7 DEF TryInsertPending, TryInsertApproved, InsertRow, TryApprovePending, DeleteAccess
  <2>2. QED
    BY <1>1, <2>1, GotoTold, RetryTold, PlainAnswerTold
<1>8. CASE FindOwnAccess(p)
  <2>1. r.pc = "find" /\ UNCHANGED Tables
    BY <1>8 DEF FindOwnAccess
  <2>2. \/ \E ans \in {"notFound", "shown", "alreadyPending"} : Answer(p, ans)
        \/ r.op = "request" /\ access[r.srv][r.user] = "APPROVED" /\ Answer(p, "alreadyApproved")
        \/ Goto(p, "reload")
    BY <1>8 DEF FindOwnAccess
  <2>3. QED
    BY <1>1, <1>4, <2>1, <2>2, GotoTold, PlainAnswerTold DEF Requestable
<1>9. CASE ReloadServer(p)
  <2>1. r.pc = "reload" /\ r.op = "request" /\ UNCHANGED Tables
    BY <1>1, <1>9 DEF ReloadServer, Sound, Fits
  <2>2. \/ ~Requestable(r.srv, r.user) /\ Answer(p, "serverNotFound")
        \/ Answer(p, "retry")
        \/ Retry(p, "insert")
    BY <1>9 DEF ReloadServer, Requestable
  <2>3. QED
    BY <1>1, <1>4, <2>1, <2>2, RetryTold, PlainAnswerTold
<1>10. CASE PermissionsGuard(p)
  <2>1. r.pc = "permit" /\ r.op = "operate" /\ UNCHANGED Tables
    BY <1>1, <1>10 DEF PermissionsGuard, Sound, Fits
  <2>2. \/ /\ r.role = "ADMIN" \/ grants[r.user] \cap {Global, r.srv} # {}
           /\ Goto(p, "visible")
        \/ Answer(p, "forbidden")
    BY <1>10 DEF PermissionsGuard
  <2>3. CASE Goto(p, "visible") /\ (r.role = "ADMIN" \/ grants[r.user] \cap {Global, r.srv} # {})
    <3>1. r.role = "MOD" => "granted" \in saw'[p]
      BY <1>3, <2>1, <2>3, Observed DEF Tables
    <3>2. QED
      BY <1>1, <2>1, <2>3, <3>1, GotoTold
  <2>4. QED
    BY <2>2, <2>3, PlainAnswerTold
<1>11. CASE LoadVisibleServer(p)
  <2>1. r.pc = "visible" /\ r.op = "operate" /\ UNCHANGED Tables
    BY <1>1, <1>11 DEF LoadVisibleServer, Sound, Fits
  <2>2. PICK ans \in {"admitted", "serverNotFound"} :
          Answer(p, ans) /\ (ans = "admitted" <=> Visible(r.srv, r.user, r.role))
    BY <1>11 DEF LoadVisibleServer
  <2>3. /\ ans = "admitted" => "visible" \in saw'[p]
        /\ ans = "serverNotFound" => "hidden" \in saw'[p]
        /\ saw[p] \subseteq saw'[p]
    BY <1>2, <2>1, <2>2, Observed DEF Visible, Tables
  <2>4. r.role = "MOD" => "granted" \in saw'[p]
    BY <2>1, <2>3 DEF Knows, Told
  <2>5. Told([r EXCEPT !.pc = "done", !.ans = ans], saw'[p])
    BY <1>1, <2>1, <2>2, <2>3, <2>4 DEF Told, Request
  <2>6. QED
    BY <2>2, <2>5, AnswerTold, Zenon
<1>12. CASE DbFailure(p)
  <2>1. \/ r.pc = "reload" /\ r.attempt >= MaxRetries /\ Answer(p, "serverNotFound")
        \/ Answer(p, "error")
    BY <1>12 DEF DbFailure
  <2>2. CASE r.pc = "reload" /\ r.attempt >= MaxRetries /\ Answer(p, "serverNotFound")
    <3>1. r.op = "request" /\ ~(r.attempt < MaxRetries)
      BY <1>1, <2>2, AccessAssumption DEF Sound, Fits, Request
    <3>2. QED
      BY <2>2, <3>1, PlainAnswerTold
  <2>3. QED
    BY <2>1, <2>2, PlainAnswerTold
<1>13. CASE Return(p)
  <2>1. req' = [req EXCEPT ![p] = Idle]
    BY <1>13 DEF Return
  <2>2. /\ \A q \in Requests \ {p} : req'[q] = req[q]
        /\ req'[p].pc = "idle"
        /\ \A q \in Requests : req'[q].pc = "idle" => req'[q] = Idle
    BY <2>1 DEF Inv, Sound, Idle
  <2>3. QED
    BY <2>2, KnowsStep
<1>14. QED
  BY <1>5, <1>6, <1>7, <1>8, <1>9, <1>10, <1>11, <1>12, <1>13 DEF HandlerStep

LEMMA ArrivalKnows ==
  ASSUME Inv, Inv', Knows, Observe, NEW p \in Requests, NEW s \in Servers, NEW u \in Users, Arrival(p, s, u)
  PROVE  Knows'
<1>1. PICK op, rl, step : (step = "load" \/ step = "permit") /\ Begin(p, op, s, u, rl, step)
  BY Zenon DEF Arrival, RequestAccess, GetMyAccessRequest, ApproveAccess, RevokeAccess, OperateServer
<1>2. /\ req'[p].pc = step /\ req'[p].ans = "none"
      /\ \A q \in Requests \ {p} : req'[q] = req[q]
  BY <1>1 DEF Begin, Inv, Idle
<1>3. Told(req'[p], saw'[p])
  BY <1>1, <1>2 DEF Told
<1>4. \A q \in Requests : req'[q].pc = "idle" => req'[q] = Idle
  BY DEF Inv, Sound
<1>5. QED
  BY <1>2, <1>3, <1>4, KnowsStep

LEMMA EnvironmentKnows ==
  ASSUME Inv, Inv', Knows, Observe, Environment
  PROVE  Knows'
<1>1. req' = req
  BY DEF Environment, CreateServer, FinishServer, EraseServer, UpdateRole, GrantModPermission,
         RevokeModPermission
<1>2. saw' \in [Requests -> SUBSET Facts]
  <2>1. ASSUME NEW q \in Requests
        PROVE  (IF req'[q].pc = "idle" THEN {} ELSE saw[q] \cup Fact(req[q])') \in SUBSET Facts
    BY DEF Knows, Fact, Facts
  <2>2. QED
    BY <2>1 DEF Observe
<1>3. ASSUME NEW q \in Requests PROVE Told(req'[q], saw'[q])
  <2>1. CASE req'[q].pc = "idle"
    BY <1>1, <2>1, IdleTold DEF Observe, Inv, Sound
  <2>2. CASE req'[q].pc # "idle"
    BY <1>1, <2>2, Observed, ToldMore DEF Knows
  <2>3. QED
    BY <2>1, <2>2
<1>4. QED
  BY <1>2, <1>3 DEF Knows, Told

LEMMA SpecKnows == Spec => []Knows
<1>1. Init => Knows
  BY IdleTold DEF Init, Knows
<1>2. Inv /\ Inv' /\ Knows /\ [Next]_vars => Knows'
  <2>1. ASSUME Knows, UNCHANGED vars PROVE Knows'
    BY <2>1 DEF vars, Knows, Told
  <2>2. QED
    BY <2>1, HandlerKnows, ArrivalKnows, EnvironmentKnows DEF Next
<1>3. QED
  BY <1>1, <1>2, SpecInv, PTL DEF Spec

(* A lifecycle operation is admitted, for any servers, users, scopes and     *)
(* requests in flight, only if the server was visible and a moderator had   *)
(* a grant that covers it at some moment since the request arrived, however *)
(* role changes, grants, approvals and deletions fall between               *)
(* PermissionsGuard and loadVisibleServer.                                  *)
THEOREM OperatesEntitled == Spec => []OperatesOnlyEntitled
<1>1. Knows => OperatesOnlyEntitled
  BY DEF Knows, Told, OperatesOnlyEntitled
<1>2. QED
  BY <1>1, SpecKnows, PTL

(* A server that listRequestableServers offers all along is not refused by  *)
(* requestAccess, whichever of its loads and retries races with approvals   *)
(* and deletions.                                                           *)
THEOREM RequestableIsHonoured == Spec => []RequestableHonoured
<1>1. ASSUME Knows PROVE RequestableHonoured
  <2>1. SUFFICES ASSUME NEW p \in Requests, req[p].op = "request",
                        \/ req[p].ans \in {"open", "alreadyApproved"}
                        \/ req[p].ans = "serverNotFound" /\ req[p].attempt < MaxRetries
                 PROVE  "unrequestable" \in saw[p]
    BY Zenon DEF RequestableHonoured
  <2>2. Told(req[p], saw[p])
    BY <1>1 DEF Knows
  <2>3. QED
    BY <2>1, <2>2, Zenon DEF Told
<1>2. QED
  BY <1>1, SpecKnows, PTL

-----------------------------------------------------------------------------
(* The tables                                                              *)

(* A request past its load of the server has found it finished. *)
Loaded(r) ==
  r.pc \in {"target", "insert", "find", "reload", "update", "assign", "reread", "delete"}
    => server[r.srv] \in {"live", "deleted"}

TablesInv ==
  /\ server \in [Servers -> ServerStates]
  /\ grants \in [Users -> SUBSET Scopes]
  /\ \A s \in Servers, u \in Users :
       /\ access[s][u] # "none" => server[s] = "live"
       /\ s \in grants[u] => server[s] \in {"CREATING", "live"}
  /\ \A p \in Requests : Loaded(req[p])

(* A step of one request that changes no table but server_access, where it  *)
(* leaves a row only of a finished server.                                  *)
LEMMA TablesStep ==
  ASSUME Inv, TablesInv, NEW p \in Requests, UNCHANGED <<server, grants>>,
         \A q \in Requests \ {p} : req'[q] = req[q],
         Loaded(req'[p]),
         \A s \in Servers, u \in Users :
           access'[s][u] = access[s][u] \/ access'[s][u] = "none" \/ server[s] = "live"
  PROVE  TablesInv'
<1>1. ASSUME NEW q \in Requests PROVE Loaded(req[q])'
  <2>1. Loaded(req'[q])
    BY DEF TablesInv
  <2>2. QED
    BY <2>1 DEF Loaded
<1>2. QED
  BY <1>1 DEF TablesInv

LEMMA SetAccessRow ==
  ASSUME Inv, NEW s \in Servers, NEW u \in Users, NEW st, SetAccess(s, u, st)
  PROVE  \A t \in Servers, v \in Users :
           access'[t][v] = access[t][v] \/ (t = s /\ v = u /\ access'[t][v] = st)
BY DEF SetAccess, Inv

LEMMA HandlerTables ==
  ASSUME Inv, TablesInv, NEW p \in Requests, HandlerStep(p)
  PROVE  TablesInv'
<1> DEFINE r == req[p]
           Finished == server[r.srv] \in {"live", "deleted"}
<1>1. /\ r \in Request /\ Sound(r) /\ Loaded(r)
      /\ r.pc # "idle" => r.srv \in Servers /\ r.user \in Users
  BY DEF Inv, Sound, TablesInv
<1>2. ASSUME NEW ans, Answer(p, ans)
      PROVE  Loaded(req'[p]) /\ \A q \in Requests \ {p} : req'[q] = req[q]
  BY <1>2 DEF Answer, Inv, Request, Loaded
<1>3. ASSUME NEW step, Finished, Goto(p, step) \/ Retry(p, step)
      PROVE  Loaded(req'[p]) /\ \A q \in Requests \ {p} : req'[q] = req[q]
  BY <1>3, ZenonT(60) DEF Goto, Retry, Inv, Request, Loaded
<1>4. CASE LoadServer(p)
  <2>1. /\ UNCHANGED Tables
        /\ (\E ans : Answer(p, ans)) \/ (Finished /\ \E step : Goto(p, step))
    BY <1>4, Zenon DEF LoadServer
  <2>2. QED
    BY <1>2, <1>3, <2>1, TablesStep DEF Tables
<1>5. CASE \/ LoadTargetUser(p) \/ FindOwnAccess(p) \/ ReloadServer(p) \/ FindForApproval(p)
           \/ RereadAccess(p)
  <2>1. r.pc \in {"target", "find", "reload", "reread"} /\ UNCHANGED Tables
    BY <1>5 DEF LoadTargetUser, FindOwnAccess, ReloadServer, FindForApproval, RereadAccess
  <2>2. Finished
    BY <1>1, <2>1 DEF Loaded
  <2>3. (\E ans : Answer(p, ans)) \/ (\E step : Goto(p, step) \/ Retry(p, step))
    BY <1>5, Zenon DEF LoadTargetUser, FindOwnAccess, ReloadServer, FindForApproval, RereadAccess
  <2>4. QED
    BY <1>2, <1>3, <2>1, <2>2, <2>3, TablesStep DEF Tables
<1>6. CASE PermissionsGuard(p)
  <2>1. UNCHANGED Tables /\ (Answer(p, "forbidden") \/ Goto(p, "visible"))
    BY <1>6 DEF PermissionsGuard
  <2>2. ASSUME Goto(p, "visible")
        PROVE  Loaded(req'[p]) /\ \A q \in Requests \ {p} : req'[q] = req[q]
    BY <2>2 DEF Goto, Inv, Request, Loaded
  <2>3. QED
    BY <1>2, <2>1, <2>2, TablesStep DEF Tables
<1>7. CASE LoadVisibleServer(p) \/ DbFailure(p)
  <2>1. UNCHANGED Tables /\ \E ans : Answer(p, ans)
    BY <1>7, Zenon DEF LoadVisibleServer, DbFailure
  <2>2. QED
    BY <1>2, <2>1, TablesStep DEF Tables
<1>8. CASE Return(p)
  <2>1. req' = [req EXCEPT ![p] = Idle] /\ UNCHANGED Tables
    BY <1>8 DEF Return
  <2>2. Loaded(req'[p]) /\ \A q \in Requests \ {p} : req'[q] = req[q]
    BY <2>1 DEF Inv, Idle, Loaded
  <2>3. QED
    BY <2>1, <2>2, TablesStep DEF Tables
<1>9. CASE TryInsertPending(p) \/ TryInsertApproved(p)
  <2>1. r.pc \in {"insert", "assign"} /\ UNCHANGED <<server, grants>>
    BY <1>9 DEF TryInsertPending, TryInsertApproved, InsertRow
  <2>2. Finished /\ r.pc # "idle"
    BY <1>1, <2>1 DEF Loaded
  <2>3. CASE access' = access /\ ((\E ans : Answer(p, ans)) \/ (\E next : Goto(p, next) \/ Retry(p, next)))
    BY <1>2, <1>3, <2>1, <2>2, <2>3, TablesStep
  <2>4. CASE server[r.srv] # "deleted" /\ \E st, won : SetAccess(r.srv, r.user, st) /\ Answer(p, won)
    <3>1. PICK s \in Servers, u \in Users : s = r.srv /\ u = r.user
      BY <1>1, <2>2
    <3>2. \A t \in Servers, v \in Users : access'[t][v] = access[t][v] \/ t = s
      BY <2>4, <3>1, SetAccessRow
    <3>3. server[s] = "live"
      BY <2>2, <2>4, <3>1
    <3>4. QED
      BY <1>2, <2>1, <2>4, <3>2, <3>3, TablesStep
  <2>5. QED
    BY <1>9, <2>3, <2>4, Zenon DEF TryInsertPending, TryInsertApproved, InsertRow
<1>10. CASE TryApprovePending(p)
  <2>1. r.pc = "update" /\ Finished /\ r.srv \in Servers /\ r.user \in Users /\ UNCHANGED <<server, grants>>
    BY <1>1, <1>10 DEF TryApprovePending, Loaded
  <2>2. CASE access' = access /\ Goto(p, "find")
    BY <1>3, <2>1, <2>2, TablesStep
  <2>3. CASE /\ access[r.srv][r.user] = "PENDING" /\ SetAccess(r.srv, r.user, "APPROVED")
             /\ Answer(p, "approved")
    <3>1. \A t \in Servers, v \in Users : access'[t][v] = access[t][v] \/ t = r.srv
      BY <2>1, <2>3, SetAccessRow
    <3>2. server[r.srv] = "live"
      BY <2>1, <2>3 DEF TablesInv
    <3>3. QED
      BY <1>2, <2>1, <2>3, <3>1, <3>2, TablesStep
  <2>4. QED
    BY <1>10, <2>2, <2>3 DEF TryApprovePending
<1>11. CASE DeleteAccess(p)
  <2>1. /\ r.srv \in Servers /\ r.user \in Users /\ UNCHANGED <<server, grants>>
        /\ SetAccess(r.srv, r.user, "none") /\ \E ans : Answer(p, ans)
    BY <1>1, <1>11 DEF DeleteAccess
  <2>2. \A t \in Servers, v \in Users : access'[t][v] = access[t][v] \/ access'[t][v] = "none"
    BY <2>1, SetAccessRow
  <2>3. QED
    BY <1>2, <2>1, <2>2, TablesStep
<1>12. QED
  BY <1>4, <1>5, <1>6, <1>7, <1>8, <1>9, <1>10, <1>11 DEF HandlerStep

LEMMA ArrivalTables ==
  ASSUME Inv, TablesInv, NEW p \in Requests, NEW s \in Servers, NEW u \in Users, Arrival(p, s, u)
  PROVE  TablesInv'
<1>1. PICK op, rl, step : (step = "load" \/ step = "permit") /\ Begin(p, op, s, u, rl, step)
  BY Zenon DEF Arrival, RequestAccess, GetMyAccessRequest, ApproveAccess, RevokeAccess, OperateServer
<1>2. /\ req'[p].pc = step /\ UNCHANGED Tables
      /\ \A q \in Requests \ {p} : req'[q] = req[q]
  BY <1>1 DEF Begin, Inv, Idle
<1>3. Loaded(req'[p])
  BY <1>1, <1>2 DEF Loaded
<1>4. QED
  BY <1>2, <1>3, TablesStep DEF Tables

LEMMA EnvironmentTables ==
  ASSUME Inv, TablesInv, Environment
  PROVE  TablesInv'
<1>1. req' = req
  BY DEF Environment, CreateServer, FinishServer, EraseServer, UpdateRole, GrantModPermission,
         RevokeModPermission
<1>2. ASSUME NEW s \in Servers, CreateServer(s) PROVE TablesInv'
  BY <1>1, <1>2 DEF CreateServer, TablesInv, Loaded, Inv, Request, ServerStates
<1>3. ASSUME NEW s \in Servers, FinishServer(s) PROVE TablesInv'
  BY <1>1, <1>3 DEF FinishServer, TablesInv, Loaded, Inv, Request, ServerStates
<1>4. ASSUME NEW s \in Servers, EraseServer(s) PROVE TablesInv'
  <2>1. /\ server' = [server EXCEPT ![s] = "deleted"]
        /\ access' = [access EXCEPT ![s] = [u \in Users |-> "none"]]
        /\ grants' = [u \in Users |-> grants[u] \ {s}]
    BY <1>4 DEF EraseServer
  <2>2. server' \in [Servers -> ServerStates] /\ grants' \in [Users -> SUBSET Scopes]
    BY <2>1 DEF TablesInv, ServerStates
  <2>3. ASSUME NEW t \in Servers, NEW u \in Users
        PROVE  /\ access'[t][u] # "none" => server'[t] = "live"
               /\ t \in grants'[u] => server'[t] \in {"CREATING", "live"}
    <3>1. CASE t = s
      BY <2>1, <3>1 DEF Inv, TablesInv
    <3>2. CASE t # s
      BY <2>1, <3>2 DEF Inv, TablesInv
    <3>3. QED
      BY <3>1, <3>2
  <2>4. ASSUME NEW p \in Requests PROVE Loaded(req[p])'
    BY <1>1, <2>1 DEF TablesInv, Loaded, Inv, Sound
  <2>5. QED
    BY <2>2, <2>3, <2>4 DEF TablesInv
<1>5. ASSUME UNCHANGED <<server, access>>, grants' \in [Users -> SUBSET Scopes],
             \A u \in Users, t \in Servers :
               t \in grants'[u] => t \in grants[u] \/ server[t] \in {"CREATING", "live"}
      PROVE  TablesInv'
  BY <1>1, <1>5 DEF TablesInv, Loaded
<1>6. ASSUME NEW u \in Users, NEW rl \in Roles, UpdateRole(u, rl) PROVE TablesInv'
  BY <1>5, <1>6 DEF UpdateRole, TablesInv
<1>7. ASSUME NEW u \in Users, NEW scope \in Scopes, GrantModPermission(u, scope) PROVE TablesInv'
  <2>1. grants' = [grants EXCEPT ![u] = grants[u] \cup {scope}] /\ UNCHANGED <<server, access>>
    BY <1>7 DEF GrantModPermission
  <2>2. scope \in Servers => server[scope] \in {"CREATING", "live"}
    BY <1>7 DEF GrantModPermission
  <2>3. grants' \in [Users -> SUBSET Scopes]
    BY <2>1 DEF TablesInv
  <2>4. QED
    BY <1>5, <2>1, <2>2, <2>3 DEF TablesInv
<1>8. ASSUME NEW u \in Users, NEW scope \in Scopes, RevokeModPermission(u, scope) PROVE TablesInv'
  BY <1>5, <1>8 DEF RevokeModPermission, TablesInv
<1>9. QED
  BY <1>2, <1>3, <1>4, <1>6, <1>7, <1>8 DEF Environment

(* The tables keep their types and their foreign keys: a row of             *)
(* server_access only of a finished server, which rests on every handler    *)
(* having loaded the server before it inserts, and a grant only of a server *)
(* that has a row.                                                          *)
THEOREM TypeCorrect == Spec => []TypeOK
<1>1. Init => TablesInv
  BY DEF Init, TablesInv, Loaded, Idle, ServerStates
<1>2. Inv /\ TablesInv /\ [Next]_vars => TablesInv'
  <2>1. ASSUME TablesInv, UNCHANGED vars PROVE TablesInv'
    BY <2>1 DEF vars, TablesInv, Loaded
  <2>2. QED
    BY <2>1, HandlerTables, ArrivalTables, EnvironmentTables DEF Next
<1>3. Inv /\ TablesInv /\ RolesTyped /\ Knows => TypeOK
  BY DEF Inv, TablesInv, RolesTyped, Knows, TypeOK
<1>4. QED
  BY <1>1, <1>2, <1>3, SpecInv, SpecKnows, PTL DEF Spec

-----------------------------------------------------------------------------
(* The safety half of CallsEnd: no call can go on for ever                  *)

(* What is left of a request: the retries, and how far the statement it is  *)
(* at lies from the answer.                                                 *)
Distance(pc) ==
  CASE pc \in {"load", "permit"} -> 7
    [] pc = "target" -> 6
    [] pc \in {"insert", "update", "visible", "delete"} -> 5
    [] pc = "find" -> 4
    [] pc \in {"reload", "assign"} -> 3
    [] pc = "reread" -> 2
    [] OTHER -> 1

Rank(r) == IF r.pc = "idle" THEN 0 ELSE 8 * (MaxRetries - r.attempt) + Distance(r.pc)

(* Every statement of a handler lowers the rank of its request, a natural   *)
(* number, and nobody else moves the request.                               *)
Lowers(p) == Rank(req'[p]) < Rank(req[p])

RetriesRunOut ==
  \A p \in Requests :
    /\ Rank(req[p]) \in 0..(8 * MaxRetries + 7)
    /\ req[p].pc # "idle" /\ req'[p] # req[p] => Lowers(p)

LEMMA RankTyped == \A r \in Request : Rank(r) \in 0..(8 * MaxRetries + 7)
<1>1. ASSUME NEW r \in Request PROVE Rank(r) \in 0..(8 * MaxRetries + 7)
  <2>1. r.attempt \in 0..MaxRetries /\ MaxRetries \in Nat
    BY AccessAssumption DEF Request
  <2>2. Distance(r.pc) \in 1..7
    BY DEF Distance
  <2>3. QED
    BY <2>1, <2>2 DEF Rank
<1>2. QED
  BY <1>1

(* The three ways a handler moves on, and its return. *)
LEMMA GotoLowers ==
  ASSUME NEW p \in Requests, req[p] \in Request, req \in [Requests -> Request], NEW step,
         Goto(p, step), step # "idle", req[p].pc # "idle",
         Distance(step) < Distance(req[p].pc)
  PROVE  Lowers(p)
<1>1. req'[p].pc = step /\ req'[p].attempt = req[p].attempt
  BY DEF Goto, Request
<1>2. req[p].attempt \in 0..MaxRetries /\ MaxRetries \in Nat
  BY AccessAssumption DEF Request
<1>3. Distance(step) \in 1..7 /\ Distance(req[p].pc) \in 1..7
  BY DEF Distance
<1>4. QED
  BY <1>1, <1>2, <1>3 DEF Lowers, Rank

LEMMA AnswerLowers ==
  ASSUME NEW p \in Requests, req[p] \in Request, req \in [Requests -> Request], NEW ans,
         Answer(p, ans), req[p].pc \notin {"idle", "done"}
  PROVE  Lowers(p)
<1>1. req'[p].pc = "done" /\ req'[p].attempt = req[p].attempt
  BY DEF Answer, Request
<1>2. req[p].attempt \in 0..MaxRetries /\ MaxRetries \in Nat
  BY AccessAssumption DEF Request
<1>3. Distance("done") = 1
  BY DEF Distance
<1>4. Distance(req[p].pc) \in 2..7
  BY DEF Distance, Request, Steps
<1>5. QED
  BY <1>1, <1>2, <1>3, <1>4 DEF Lowers, Rank

LEMMA RetryLowers ==
  ASSUME NEW p \in Requests, req[p] \in Request, req \in [Requests -> Request], NEW step,
         Retry(p, step), step # "idle", req[p].pc # "idle", req[p].attempt < MaxRetries
  PROVE  Lowers(p)
<1>1. req'[p].pc = step /\ req'[p].attempt = req[p].attempt + 1
  BY DEF Retry, Request
<1>2. req[p].attempt \in 0..MaxRetries /\ MaxRetries \in Nat
  BY AccessAssumption DEF Request
<1>3. Distance(step) \in 1..7 /\ Distance(req[p].pc) \in 1..7
  BY DEF Distance
<1>4. QED
  BY <1>1, <1>2, <1>3 DEF Lowers, Rank

LEMMA HandlerLowers ==
  ASSUME Inv, NEW p \in Requests, HandlerStep(p)
  PROVE  Lowers(p)
<1> DEFINE r == req[p]
<1>1. r \in Request /\ Sound(r) /\ req \in [Requests -> Request]
  BY DEF Inv
<1>2. ASSUME NEW ans, Answer(p, ans), r.pc \notin {"idle", "done"} PROVE Lowers(p)
  BY <1>1, <1>2, AnswerLowers
<1>3. ASSUME NEW step, Goto(p, step), step # "idle", r.pc # "idle",
             Distance(step) < Distance(r.pc)
      PROVE  Lowers(p)
  BY <1>1, <1>3, GotoLowers
<1>4. ASSUME NEW step, Retry(p, step), step # "idle", r.pc # "idle", ~(r.attempt >= MaxRetries)
      PROVE  Lowers(p)
  BY <1>1, <1>4, AccessAssumption, RetryLowers DEF Request
<1>5. CASE LoadServer(p)
  <2>1. r.pc = "load"
    BY <1>5 DEF LoadServer
  <2>2. \/ \E ans : Answer(p, ans)
        \/ \E step \in {"insert", "find", "target", "delete"} : Goto(p, step)
    BY <1>5 DEF LoadServer
  <2>3. \A step \in {"insert", "find", "target", "delete"} :
          step # "idle" /\ Distance(step) < Distance("load")
    BY DEF Distance
  <2>4. QED
    BY <1>2, <1>3, <2>1, <2>2, <2>3
<1>6. CASE LoadTargetUser(p)
  <2>1. r.pc = "target" /\ (Goto(p, "update") \/ \E ans : Answer(p, ans))
    BY <1>6 DEF LoadTargetUser
  <2>2. Distance("update") < Distance("target")
    BY DEF Distance
  <2>3. QED
    BY <1>2, <1>3, <2>1, <2>2
<1>7. CASE TryInsertPending(p)
  <2>1. r.pc = "insert" /\ (Goto(p, "find") \/ \E ans : Answer(p, ans))
    BY <1>7 DEF TryInsertPending, InsertRow
  <2>2. Distance("find") < Distance("insert")
    BY DEF Distance
  <2>3. QED
    BY <1>2, <1>3, <2>1, <2>2
<1>8. CASE FindOwnAccess(p)
  <2>1. r.pc = "find" /\ (Goto(p, "reload") \/ \E ans : Answer(p, ans))
    BY <1>8 DEF FindOwnAccess
  <2>2. Distance("reload") < Distance("find")
    BY DEF Distance
  <2>3. QED
    BY <1>2, <1>3, <2>1, <2>2
<1>9. CASE ReloadServer(p)
  <2>1. r.pc = "reload"
    BY <1>9 DEF ReloadServer
  <2>2. \/ \E ans : Answer(p, ans)
        \/ ~(r.attempt >= MaxRetries) /\ Retry(p, "insert")
    BY <1>9 DEF ReloadServer
  <2>3. QED
    BY <1>2, <1>4, <2>1, <2>2
<1>10. CASE TryApprovePending(p)
  <2>1. r.pc = "update" /\ (Goto(p, "find") \/ \E ans : Answer(p, ans))
    BY <1>10 DEF TryApprovePending
  <2>2. Distance("find") < Distance("update")
    BY DEF Distance
  <2>3. QED
    BY <1>2, <1>3, <2>1, <2>2
<1>11. CASE FindForApproval(p)
  <2>1. r.pc = "find" /\ (r.attempt < MaxRetries <=> ~(r.attempt >= MaxRetries))
    BY <1>11, Known DEF FindForApproval
  <2>2. \/ \E ans : Answer(p, ans)
        \/ r.attempt < MaxRetries /\ Retry(p, "update")
        \/ Goto(p, "assign")
    BY <1>11 DEF FindForApproval
  <2>3. Distance("assign") < Distance("find")
    BY DEF Distance
  <2>4. QED
    BY <1>2, <1>3, <1>4, <2>1, <2>2, <2>3
<1>12. CASE TryInsertApproved(p)
  <2>1. r.pc = "assign"
    BY <1>12 DEF TryInsertApproved, InsertRow
  <2>2. \/ \E ans : Answer(p, ans)
        \/ Goto(p, "reread")
        \/ ~(r.attempt >= MaxRetries) /\ Retry(p, "update")
    BY <1>12 DEF TryInsertApproved, InsertRow
  <2>3. Distance("reread") < Distance("assign")
    BY DEF Distance
  <2>4. QED
    BY <1>2, <1>3, <1>4, <2>1, <2>2, <2>3
<1>13. CASE RereadAccess(p) \/ DeleteAccess(p) \/ LoadVisibleServer(p) \/ DbFailure(p)
  <2>1. r.pc \notin {"idle", "done"}
    BY <1>13 DEF RereadAccess, DeleteAccess, LoadVisibleServer, DbFailure
  <2>2. \E ans : Answer(p, ans)
    BY <1>13 DEF RereadAccess, DeleteAccess, LoadVisibleServer, DbFailure
  <2>3. QED
    BY <1>2, <2>1, <2>2
<1>14. CASE PermissionsGuard(p)
  <2>1. r.pc = "permit" /\ (Goto(p, "visible") \/ \E ans : Answer(p, ans))
    BY <1>14 DEF PermissionsGuard
  <2>2. Distance("visible") < Distance("permit")
    BY DEF Distance
  <2>3. QED
    BY <1>2, <1>3, <2>1, <2>2
<1>15. CASE Return(p)
  <2>1. r.pc = "done" /\ req'[p].pc = "idle"
    BY <1>1, <1>15 DEF Return, Idle
  <2>2. Rank(r) > 0
    BY <1>1, <2>1, AccessAssumption DEF Rank, Distance, Request
  <2>3. QED
    BY <2>1, <2>2 DEF Lowers, Rank
<1>16. QED
  BY <1>5, <1>6, <1>7, <1>8, <1>9, <1>10, <1>11, <1>12, <1>13, <1>14, <1>15 DEF HandlerStep

LEMMA OthersStay ==
  ASSUME Inv, NEW p \in Requests, NEW q \in Requests, q # p, HandlerStep(q)
  PROVE  req'[p] = req[p]
<1>1. ASSUME NEW ans, Answer(q, ans) PROVE req'[p] = req[p]
  BY <1>1 DEF Answer, Inv
<1>2. ASSUME NEW step, Goto(q, step) PROVE req'[p] = req[p]
  BY <1>2 DEF Goto, Inv
<1>3. ASSUME NEW step, Retry(q, step) PROVE req'[p] = req[p]
  BY <1>3 DEF Retry, Inv
<1>4. \/ \E ans : Answer(q, ans)
      \/ \E step : Goto(q, step)
      \/ \E step : Retry(q, step)
      \/ Return(q)
  <2>1. CASE LoadServer(q) \/ LoadTargetUser(q) \/ TryInsertPending(q)
    BY <2>1 DEF LoadServer, LoadTargetUser, TryInsertPending, InsertRow
  <2>2. CASE FindOwnAccess(q) \/ ReloadServer(q) \/ TryApprovePending(q)
    BY <2>2 DEF FindOwnAccess, ReloadServer, TryApprovePending
  <2>3. CASE FindForApproval(q) \/ TryInsertApproved(q) \/ RereadAccess(q)
    BY <2>3, SMTT(30) DEF FindForApproval, TryInsertApproved, InsertRow, RereadAccess
  <2>4. CASE DeleteAccess(q) \/ PermissionsGuard(q) \/ LoadVisibleServer(q) \/ DbFailure(q)
    BY <2>4 DEF DeleteAccess, PermissionsGuard, LoadVisibleServer, DbFailure
  <2>5. QED
    BY <2>1, <2>2, <2>3, <2>4 DEF HandlerStep
<1>5. QED
  BY <1>1, <1>2, <1>3, <1>4 DEF Return, Inv

(* However the other requests, the administrators and the servers change    *)
(* the rows under them, the retry loops of requestAccess and approveAccess  *)
(* run out: every statement a call makes lowers a number that starts at     *)
(* most at 8 * MaxRetries + 7 and cannot fall below zero.  What is left of  *)
(* CallsEnd is that the next statement is made, which is fairness.          *)
THEOREM CallsAreBounded == Spec => [][RetriesRunOut]_vars
<1>1. ASSUME Inv, Next PROVE RetriesRunOut
  <2>1. ASSUME NEW p \in Requests PROVE Rank(req[p]) \in 0..(8 * MaxRetries + 7)
    BY <1>1, RankTyped DEF Inv
  <2>2. ASSUME NEW p \in Requests, req[p].pc # "idle", req'[p] # req[p] PROVE Lowers(p)
    <3>1. ASSUME NEW q \in Requests, HandlerStep(q) PROVE Lowers(p)
      <4>1. CASE q = p
        BY <1>1, <3>1, <4>1, HandlerLowers
      <4>2. CASE q # p
        BY <1>1, <2>2, <3>1, <4>2, OthersStay
      <4>3. QED
        BY <4>1, <4>2
    <3>2. ASSUME NEW q \in Requests, NEW s \in Servers, NEW u \in Users, Arrival(q, s, u)
          PROVE  Lowers(p)
      BY <1>1, <2>2, <3>2 DEF Arrival, RequestAccess, GetMyAccessRequest, ApproveAccess,
         RevokeAccess, OperateServer, Begin, Inv
    <3>3. ASSUME Environment PROVE Lowers(p)
      BY <2>2, <3>3 DEF Environment, CreateServer, FinishServer, EraseServer, UpdateRole,
         GrantModPermission, RevokeModPermission
    <3>4. QED
      BY <1>1, <3>1, <3>2, <3>3 DEF Next
  <2>3. QED
    BY <2>1, <2>2 DEF RetriesRunOut
<1>2. QED
  BY <1>1, SpecInv, PTL DEF Spec
=============================================================================
