------------------------------- MODULE Gateway -------------------------------
(***************************************************************************)
(* The realtime gateway: EventsGateway (events.gateway.ts) admits sockets   *)
(* of administrators and broadcasts host metrics to them, and               *)
(* SocketReservationService (socket-reservation.service.ts) limits the      *)
(* connections that have not authenticated yet.                             *)
(*                                                                         *)
(* Everything runs on one event loop: a callback is one step, and steps of  *)
(* different sockets, timers and the poll interleave at every `await`.      *)
(* Socket.IO runs handleDisconnect inside the call that disconnects a       *)
(* socket; the transport below it is told to close in the same step and has *)
(* closed some time later.  An Engine.IO connection carries at most one     *)
(* namespace socket at a time and the two share an element of Conns, which  *)
(* is used again once nothing refers to the old connection any more.        *)
(***************************************************************************)
EXTENDS Naturals, FiniteSets

CONSTANTS
  Conns,  \* Engine.IO connections
  Cap     \* PENDING_CAP

ASSUME GatewayAssumption == IsFiniteSet(Conns) /\ Cap \in Nat \ {0}

VARIABLES
  conn,        \* [Conns -> Connection]
  room,        \* the sockets in ADMIN_ROOM
  adminCount,  \* EventsGateway.adminCount
  poll,        \* its polling state
  tick,        \* the tick in flight
  live,        \* onModuleDestroy has not run
  eligible,    \* whose account is an ACTIVE ADMIN, now, in the database
  barred       \* who was not when the last check before a broadcast began, nor since

vars == <<conn, room, adminCount, poll, tick, live, eligible, barred>>

(* `raw`: the transport; `resv`: its reservation, and `window` the timer of *)
(* the reservation; `phase`: the namespace socket and its authState.status, *)
(* `deadline` the timer of its authState; `verify`: the verification of its *)
(* token, which goes on when the socket is gone; `listening`: the auth      *)
(* listener is on; `principal`: data.principal is set, and with it the      *)
(* expiry timer.  `admitted` is history: the transport has carried an       *)
(* authenticated socket.                                                    *)
Connection ==
  [raw : {"closed", "open", "closing"}, resv : {"none", "held", "claimed"}, window : BOOLEAN,
   phase : {"none", "PENDING", "VERIFYING", "AUTHENTICATED"}, deadline : BOOLEAN,
   verify : {"none", "reading", "eligible", "ineligible", "rejected"},
   listening : BOOLEAN, principal : BOOLEAN, admitted : BOOLEAN]
NoConnection ==
  [raw |-> "closed", resv |-> "none", window |-> FALSE, phase |-> "none", deadline |-> FALSE,
   verify |-> "none", listening |-> FALSE, principal |-> FALSE, admitted |-> FALSE]

(* `stale`: pollGeneration has moved on since the tick in flight began;     *)
(* `soon`: the zero timer of the last tick is armed.                        *)
Poll == [interval : BOOLEAN, cache : BOOLEAN, pendingImmediate : BOOLEAN,
         stale : BOOLEAN, soon : BOOLEAN]
Tick == [pc : {"idle", "first", "collect", "second"}, todo : SUBSET Conns]
NoTick == [pc |-> "idle", todo |-> {}]

Init ==
  /\ conn = [c \in Conns |-> NoConnection]
  /\ room = {} /\ adminCount = 0
  /\ poll = [interval |-> FALSE, cache |-> FALSE, pendingImmediate |-> FALSE,
             stale |-> FALSE, soon |-> FALSE]
  /\ tick = NoTick /\ live = TRUE
  /\ eligible \in SUBSET Conns
  /\ barred = {}

-----------------------------------------------------------------------------
(* Reservations                                                            *)

Reservations == {c \in Conns : conn[c].resv # "none"}

(* Mutant: a connection too many is let in. *)
RoomForOneMore == Cardinality(Reservations) <= Cap

RoomForReservation == Cardinality(Reservations) < Cap

(* reserve: a transport connects and gets its admission window, or, when    *)
(* there is no room, is told to close.                                      *)
Reserve(c) ==
  /\ conn[c].raw = "closed" /\ conn[c].verify = "none" /\ c \notin tick.todo
  /\ conn' = [conn EXCEPT ![c] =
       IF RoomForReservation
       THEN [NoConnection EXCEPT !.raw = "open", !.resv = "held", !.window = TRUE]
       ELSE [NoConnection EXCEPT !.raw = "closing"]]
  /\ UNCHANGED <<room, adminCount, poll, tick, live, eligible, barred>>

(* claim: once, and the timer stays armed. *)
Claim(r) == [r EXCEPT !.resv = "claimed"]

(* release; closing the transport is up to the caller. *)
Release(r) == [r EXCEPT !.resv = "none", !.window = FALSE]

(* Engine.IO's close: from now on packets are ignored. *)
CloseRaw(r) == [r EXCEPT !.raw = IF @ = "open" THEN "closing" ELSE @]

-----------------------------------------------------------------------------
(* Closing                                                                 *)

(* Mutant: the snapshot of the last poll is kept. *)
StoppedWithCache(pl) ==
  [pl EXCEPT !.interval = FALSE, !.stale = TRUE, !.pendingImmediate = FALSE]

(* stopPolling *)
Stopped(pl) ==
  [pl EXCEPT !.interval = FALSE, !.cache = FALSE, !.stale = TRUE, !.pendingImmediate = FALSE]

(* Mutant: the count goes down for every socket that closes. *)
CleanupCountingAll(c) ==
  LET left == IF adminCount > 0 THEN adminCount - 1 ELSE 0 IN
  /\ room' = room \ {c}
  /\ adminCount' = left
  /\ poll' = IF left = 0 THEN Stopped(poll) ELSE poll

(* cleanupSocket, as far as the gateway's own state is concerned: the last  *)
(* administrator to leave stops the poll.                                   *)
Cleanup(c) ==
  LET left == IF adminCount > 0 THEN adminCount - 1 ELSE 0 IN
  /\ room' = room \ {c}
  /\ adminCount' = IF conn[c].principal THEN left ELSE adminCount
  /\ poll' = IF conn[c].principal /\ left = 0 THEN Stopped(poll) ELSE poll

(* cleanupSocket, as far as the socket is concerned, which is gone after it *)
(* or will be with its transport.                                           *)
Closed(r) ==
  [Release(r) EXCEPT !.phase = "none", !.deadline = FALSE, !.listening = FALSE, !.principal = FALSE]

(* disconnectSilent: the socket is cleaned up and disconnected together     *)
(* with its transport; a socket that is gone already is not.                *)
Disconnected(r) == IF r.phase = "none" THEN Closed(r) ELSE CloseRaw(Closed(r))

DisconnectSilent(c) ==
  /\ conn' = [conn EXCEPT ![c] = Disconnected(@)]
  /\ Cleanup(c)

(* The transport has closed, because the client or the server closed it:    *)
(* its reservation is released and handleDisconnect cleans up its socket.   *)
TransportCloses(c) ==
  /\ conn[c].raw # "closed"
  /\ conn' = [conn EXCEPT ![c] = [Closed(@) EXCEPT !.raw = "closed"]]
  /\ Cleanup(c)
  /\ UNCHANGED <<tick, live, eligible, barred>>

(* Mutant: the transport of an unauthenticated socket is left open. *)
HandleDisconnectLeaving(c) ==
  /\ conn[c].raw = "open" /\ conn[c].phase # "none"
  /\ conn' = [conn EXCEPT ![c] = Closed(@)]
  /\ Cleanup(c)
  /\ UNCHANGED <<tick, live, eligible, barred>>

(* The client leaves the namespace: handleDisconnect closes the transport   *)
(* of a socket that was not authenticated.                                  *)
HandleDisconnect(c) ==
  /\ conn[c].raw = "open" /\ conn[c].phase # "none"
  /\ conn' = [conn EXCEPT ![c] = IF @.principal THEN Closed(@) ELSE CloseRaw(Closed(@))]
  /\ Cleanup(c)
  /\ UNCHANGED <<tick, live, eligible, barred>>

(* The timer of a reservation: release(id, true).  The socket, if there is  *)
(* one, stays until its transport has closed.                               *)
ReservationExpires(c) ==
  /\ conn[c].window
  /\ conn' = [conn EXCEPT ![c] = CloseRaw(Release(@))]
  /\ UNCHANGED <<room, adminCount, poll, tick, live, eligible, barred>>

(* The timer of a socket that has not authenticated. *)
DeadlinePasses(c) ==
  /\ conn[c].deadline
  /\ DisconnectSilent(c)
  /\ UNCHANGED <<tick, live, eligible, barred>>

(* armExpiry's timer. *)
TokenExpires(c) ==
  /\ conn[c].principal
  /\ DisconnectSilent(c)
  /\ UNCHANGED <<tick, live, eligible, barred>>

-----------------------------------------------------------------------------
(* Authentication                                                          *)

(* A handshake's cookie header: its form, and the values of the            *)
(* access_token cookies in it.  At most two: a second one decides.          *)
CookieValues == {"empty", "undecodable", "oversized", "token"}
CookieHeaders ==
  [form : {"none", "list", "oversized"}, tokens : {<<>>}]
  \cup [form : {"string"}, tokens : {<<>>} \cup {<<v>> : v \in CookieValues}
                                   \cup (CookieValues \X CookieValues)]

ParseAccessCookie(h) ==
  IF h.form \in {"list", "oversized"} \/ \E i \in DOMAIN h.tokens : i > 1 \/ h.tokens[i] # "token"
  THEN "invalid"
  ELSE IF h.tokens = <<>> THEN "absent" ELSE "token"

(* An auth event's payload: whether it is an object of its own kind, its    *)
(* keys, and the value of accessToken.                                      *)
AuthPayloads ==
  [object : BOOLEAN, plain : BOOLEAN, keys : SUBSET {"accessToken", "other"},
   value : {"notString", "empty", "oversized", "token"}]

ParseAuthPayload(data) ==
  data.object /\ data.plain /\ data.keys = {"accessToken"} /\ data.value = "token"

CookieResults == {ParseAccessCookie(h) : h \in CookieHeaders}
PayloadResults == {ParseAuthPayload(data) : data \in AuthPayloads}

(* handleConnection, by the result of parseAccessCookie. *)
HandleConnection(c, cookie) ==
  LET claimed == conn[c].resv = "held" IN
  /\ conn[c].raw = "open" /\ conn[c].phase = "none"
  /\ \/ /\ ~claimed \/ cookie = "invalid"
        /\ conn' = [conn EXCEPT ![c] = Disconnected([@ EXCEPT !.phase = "PENDING"])]
        /\ Cleanup(c)
     \/ /\ claimed /\ cookie # "invalid"
        /\ conn' = [conn EXCEPT ![c] =
             IF cookie = "token"
             THEN [Claim(@) EXCEPT !.deadline = TRUE, !.phase = "VERIFYING", !.verify = "reading"]
             ELSE [Claim(@) EXCEPT !.deadline = TRUE, !.phase = "PENDING", !.listening = TRUE]]
        /\ UNCHANGED <<room, adminCount, poll>>
  /\ UNCHANGED <<tick, live, eligible, barred>>

(* The auth listener: one well-formed event, while the state is PENDING. *)
ReceiveAuth(c, wellFormed) ==
  LET accepted == wellFormed /\ conn[c].phase = "PENDING" IN
  /\ conn[c].raw = "open" /\ conn[c].listening
  /\ \/ ~accepted /\ DisconnectSilent(c)
     \/ /\ accepted
        /\ conn' = [conn EXCEPT ![c] = [@ EXCEPT !.phase = "VERIFYING", !.verify = "reading"]]
        /\ UNCHANGED <<room, adminCount, poll>>
  /\ UNCHANGED <<tick, live, eligible, barred>>

(* AccessTokenService.verify reads the account, or rejects the token. *)
Verdicts(c) == {IF c \in eligible THEN "eligible" ELSE "ineligible", "rejected"}

VerifyRead(c) ==
  /\ conn[c].verify = "reading"
  /\ \E v \in Verdicts(c) : conn' = [conn EXCEPT ![c] = [@ EXCEPT !.verify = v]]
  /\ UNCHANGED <<room, adminCount, poll, tick, live, eligible, barred>>

Verified(c) == conn[c].verify \in {"eligible", "ineligible", "rejected"}

(* onAuthSuccess goes all the way: the gateway is live, the reservation is  *)
(* still there to be released, the socket connected and eligible.           *)
AuthSucceeds(c) ==
  /\ conn[c].verify = "eligible" /\ live
  /\ conn[c].resv # "none" /\ conn[c].phase # "none"

(* The verification fails, or onAuthSuccess closes the socket. *)
AuthFails(c) ==
  LET over == [conn[c] EXCEPT !.verify = "none"] IN
  /\ Verified(c) /\ ~AuthSucceeds(c)
  /\ IF live \/ conn[c].verify = "rejected"
     THEN /\ conn' = [conn EXCEPT ![c] = Disconnected(over)]
          /\ Cleanup(c)
     ELSE /\ conn' = [conn EXCEPT ![c] = over]
          /\ UNCHANGED <<room, adminCount, poll>>
  /\ UNCHANGED <<tick, live, eligible, barred>>

(* onAuthSuccess up to the room: both timers are cleared. *)
Authenticated(r) ==
  [Release(r) EXCEPT !.verify = "none", !.deadline = FALSE, !.phase = "AUTHENTICATED",
                     !.principal = TRUE, !.admitted = TRUE]

(* onAuthSuccess for a token that expires before armExpiry looks at it: the *)
(* socket joins, is counted and is closed again.                            *)
AdmitExpired(c) ==
  /\ AuthSucceeds(c)
  /\ conn' = [conn EXCEPT ![c] = Disconnected(Authenticated(@))]
  /\ poll' = IF adminCount = 0 THEN Stopped(poll) ELSE poll
  /\ UNCHANGED <<room, adminCount, tick, live, eligible, barred>>

(* Mutant: behind a tick in flight the immediate tick is forgotten. *)
AdmitForgetting(c) ==
  /\ AuthSucceeds(c)
  /\ conn' = [conn EXCEPT ![c] = Authenticated(@)]
  /\ room' = room \cup {c} /\ adminCount' = adminCount + 1
  /\ IF poll.interval THEN UNCHANGED <<poll, tick>>
     ELSE IF tick.pc # "idle"
     THEN poll' = [poll EXCEPT !.interval = TRUE] /\ UNCHANGED tick
     ELSE /\ poll' = [poll EXCEPT !.interval = TRUE, !.stale = FALSE]
          /\ tick' = [pc |-> "first", todo |-> room']
  /\ UNCHANGED <<live, eligible, barred>>

(* onAuthSuccess to its end, with startPollingIfNeeded (whose immediate     *)
(* tick runs up to its first await).                                        *)
Admit(c) ==
  /\ AuthSucceeds(c)
  /\ conn' = [conn EXCEPT ![c] = Authenticated(@)]
  /\ room' = room \cup {c} /\ adminCount' = adminCount + 1
  /\ IF poll.interval THEN UNCHANGED <<poll, tick>>
     ELSE IF tick.pc # "idle"
     THEN poll' = [poll EXCEPT !.interval = TRUE, !.pendingImmediate = TRUE] /\ UNCHANGED tick
     ELSE /\ poll' = [poll EXCEPT !.interval = TRUE, !.stale = FALSE]
          /\ tick' = [pc |-> "first", todo |-> room']
  /\ UNCHANGED <<live, eligible, barred>>

-----------------------------------------------------------------------------
(* The poll                                                                *)

(* tick's finally block. *)
Finished(pl) ==
  IF pl.pendingImmediate /\ live
  THEN [pl EXCEPT !.pendingImmediate = FALSE, !.soon = TRUE] ELSE pl

(* tick up to the first await; without anybody in the room it ends there. *)
BeginTick(pl) ==
  IF live /\ room # {}
  THEN tick' = [pc |-> "first", todo |-> room] /\ poll' = [pl EXCEPT !.stale = FALSE]
  ELSE tick' = NoTick /\ poll' = Finished([pl EXCEPT !.cache = FALSE, !.stale = FALSE])

(* The interval fires; while a tick is in flight nothing comes of it. *)
IntervalFires ==
  /\ poll.interval /\ tick.pc = "idle"
  /\ BeginTick(poll)
  /\ UNCHANGED <<conn, room, adminCount, live, eligible, barred>>

(* The zero timer fires. *)
ImmediateFires ==
  LET pl == [poll EXCEPT !.soon = FALSE] IN
  /\ poll.soon
  /\ IF tick.pc = "idle" THEN BeginTick(pl) ELSE poll' = pl /\ UNCHANGED tick
  /\ UNCHANGED <<conn, room, adminCount, live, eligible, barred>>

(* Mutant: a socket that fails its check stays. *)
RevalidateLeniently(c) ==
  /\ c \in tick.todo
  /\ tick' = [tick EXCEPT !.todo = @ \ {c}]
  /\ UNCHANGED <<conn, room, adminCount, poll, live, eligible, barred>>

(* revalidateAdmins verifies the token of one socket. *)
Revalidate(c) ==
  /\ c \in tick.todo
  /\ tick' = [tick EXCEPT !.todo = @ \ {c}]
  /\ \E v \in Verdicts(c) :
       IF v = "eligible" THEN UNCHANGED <<conn, room, adminCount, poll>>
                         ELSE DisconnectSilent(c)
  /\ UNCHANGED <<live, eligible, barred>>

(* revalidateAdmins returns: to the collection, to the broadcast, or, when  *)
(* the poll was stopped or nobody is left, to the end of the tick.  The     *)
(* broadcast changes nothing here but the snapshot that is kept.            *)
EndRevalidation ==
  LET ok == ~poll.stale /\ live /\ room # {} IN
  /\ tick.pc \in {"first", "second"} /\ tick.todo = {}
  /\ IF tick.pc = "first" /\ ok
     THEN tick' = [pc |-> "collect", todo |-> {}] /\ UNCHANGED poll
     ELSE /\ tick' = NoTick
          /\ poll' = Finished([poll EXCEPT !.cache = ok])
  /\ UNCHANGED <<conn, room, adminCount, live, eligible, barred>>

(* What the host may be read as: a number, Unusable for null and for every  *)
(* number that is not a safe natural one, or no answer at all.              *)
Unusable == 3
HostReadings == [answers : BOOLEAN, totalRam : 0..Unusable, cpuCount : 0..Unusable,
                 freeRam : 0..Unusable, freeDisk : 0..Unusable]

(* Whether collectSnapshot returns a snapshot, or null. *)
CollectSnapshot(host) ==
  /\ host.answers
  /\ Unusable \notin {host.totalRam, host.cpuCount, host.freeRam, host.freeDisk}
  /\ host.totalRam > 0 /\ host.cpuCount > 0 /\ host.freeRam <= host.totalRam

Snapshots == {CollectSnapshot(host) : host \in HostReadings}

(* The tick goes on with what collectSnapshot has returned. *)
Collect(snapshot) ==
  LET ended == poll.stale \/ ~live IN
  /\ tick.pc = "collect"
  /\ IF snapshot /\ ~ended /\ room # {}
     THEN /\ tick' = [pc |-> "second", todo |-> room]
          /\ barred' = room \ eligible
          /\ UNCHANGED poll
     ELSE /\ tick' = NoTick
          /\ poll' = Finished([poll EXCEPT !.cache = @ /\ snapshot /\ ended])
          /\ UNCHANGED barred
  /\ UNCHANGED <<conn, room, adminCount, live, eligible>>

(* onModuleDestroy of the reservations, which closes what is reserved, and  *)
(* of the gateway.  The other transports are closed with the HTTP server.   *)
Shutdown ==
  /\ live /\ live' = FALSE
  /\ conn' = [c \in Conns |-> IF conn[c].resv # "none" THEN CloseRaw(Closed(conn[c]))
                                                       ELSE Closed(conn[c])]
  /\ room' = {} /\ adminCount' = 0
  /\ poll' = Stopped(poll)
  /\ UNCHANGED <<tick, eligible, barred>>

(* The account behind a connection gains or loses ADMIN, ACTIVE, or an      *)
(* ordinary password.                                                       *)
AccountChanges(c) ==
  /\ eligible' = IF c \in eligible THEN eligible \ {c} ELSE eligible \cup {c}
  /\ barred' = barred \ {c}
  /\ UNCHANGED <<conn, room, adminCount, poll, tick, live>>

SocketStep(c) ==
  \/ Reserve(c) \/ TransportCloses(c) \/ HandleDisconnect(c)
  \/ ReservationExpires(c) \/ DeadlinePasses(c) \/ TokenExpires(c)
  \/ \E cookie \in CookieResults : HandleConnection(c, cookie)
  \/ \E wellFormed \in PayloadResults : ReceiveAuth(c, wellFormed)
  \/ VerifyRead(c) \/ AuthFails(c) \/ AdmitExpired(c) \/ Admit(c)

Next ==
  \/ \E c \in Conns : SocketStep(c) \/ Revalidate(c) \/ AccountChanges(c)
  \/ IntervalFires \/ ImmediateFires \/ EndRevalidation
  \/ \E snapshot \in Snapshots : Collect(snapshot)
  \/ Shutdown

Spec == Init /\ [][Next]_vars

(* Armed timers fire and transports that were told to close have closed     *)
(* some day; the steps of a tick return.  Nothing is assumed of the interval *)
(* (ten seconds are long), of the verification of a token at admission, or  *)
(* of the clients.                                                          *)
Fairness ==
  /\ \A c \in Conns : /\ WF_vars(ReservationExpires(c)) /\ WF_vars(DeadlinePasses(c))
                      /\ WF_vars(conn[c].raw = "closing" /\ TransportCloses(c))
                      /\ WF_vars(Revalidate(c))
  /\ WF_vars(ImmediateFires) /\ WF_vars(EndRevalidation)
  /\ WF_vars(\E snapshot \in Snapshots : Collect(snapshot))

FairSpec == Spec /\ Fairness

-----------------------------------------------------------------------------
(* Properties.                                                             *)

(* The administrators are counted right: adminCount is the number of        *)
(* sockets with a principal, and those are the sockets in the room, however *)
(* often cleanupSocket runs for a socket and in whatever order timers,      *)
(* failed checks and disconnects close it.                                  *)
AdminCountExact ==
  /\ room = {c \in Conns : conn[c].principal}
  /\ adminCount = Cardinality(room)

(* The poll runs exactly while an administrator is connected, and a         *)
(* snapshot is kept only while it runs: a tick that outlives the poll that  *)
(* started it, stopPolling and startPollingIfNeeded in between included,    *)
(* leaves neither an interval nor a snapshot behind.                        *)
PollFollowsAdmins ==
  /\ poll.interval <=> live /\ adminCount > 0
  /\ poll.cache => poll.interval

(* Transports that are open and have never carried an authenticated socket. *)
Waiting == {c \in Conns : conn[c].raw = "open" /\ ~conn[c].admitted}

(* Connections that have not authenticated are capped: while the gateway is *)
(* live no more than PENDING_CAP transports stay open without ever having   *)
(* carried an authenticated socket, and the one admission window of each is *)
(* still running, also after claim and whatever became of its socket.       *)
PendingCapped ==
  live => Cardinality(Waiting) <= Cap /\ \A c \in Waiting : conn[c].window

(* A demoted or banned administrator is disconnected before the next        *)
(* broadcast: no snapshot is sent to a socket that was in the room, and     *)
(* whose account was not eligible, when the check before the broadcast      *)
(* began, unless the account has become eligible since.                     *)
BroadcastRevalidated ==
  [][tick.pc = "second" /\ tick'.pc = "idle" /\ poll'.cache => room \cap barred = {}]_vars

(* Nobody waits for ever: a transport that is open without having been      *)
(* admitted, and a socket that has not authenticated, are admitted or gone  *)
(* some day, even if the verification of the token never returns and        *)
(* whichever of the two timers fires or is cleared first.                   *)
PendingResolves ==
  \A c \in Conns :
    LET pending == c \in Waiting \/ conn[c].phase \in {"PENDING", "VERIFYING"} IN
    live /\ pending ~> ~(live /\ pending)

(* The poll gets going without waiting for its interval: when               *)
(* startPollingIfNeeded starts it, a tick of its own begins, or it is       *)
(* stopped again, also behind a tick of an earlier poll that is still in    *)
(* flight and will send nothing.                                            *)
PollStartsAtOnce ==
  poll.interval /\ poll.stale ~> ~poll.interval \/ ~poll.stale
=============================================================================
