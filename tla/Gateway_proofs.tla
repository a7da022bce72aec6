--------------------------- MODULE Gateway_proofs ---------------------------
(***************************************************************************)
(* Proofs about Gateway, for any finite set of connections and any cap.     *)
(***************************************************************************)
EXTENDS Gateway, FiniteSetTheorems, TLAPS

Typed ==
  /\ conn \in [Conns -> Connection]
  /\ room \subseteq Conns /\ adminCount \in Nat
  /\ poll \in Poll /\ live \in BOOLEAN

(* The state of one connection.  A reservation and its timer come and go    *)
(* together, and an open transport has one exactly until it is admitted: so *)
(* onAuthSuccess cannot count a socket twice, and no transport outlives its *)
(* reservation unadmitted.  A claimed reservation has a socket; a timer or  *)
(* a listener that is on belongs to a socket that is there; a listener and a *)
(* verification to a transport whose reservation was claimed.               *)
Sound(k) ==
  /\ k \in Connection
  /\ k.window <=> k.resv # "none"
  /\ k.resv # "none" <=> k.raw = "open" /\ ~k.admitted
  /\ k.principal => k.raw = "open" /\ k.admitted
  /\ k.resv = "claimed" \/ k.deadline \/ k.listening => k.phase # "none"
  /\ k.resv = "held" => k.verify = "none" /\ ~k.listening

ConnsSound == \A c \in Conns : Sound(conn[c])

Inv ==
  /\ Typed /\ ConnsSound /\ AdminCountExact /\ PollFollowsAdmins
  /\ Cardinality(Reservations) <= Cap

(* Sets of connections are finite. *)
LEMMA FiniteConns ==
  ASSUME NEW S \in SUBSET Conns
  PROVE  IsFiniteSet(S) /\ Cardinality(S) \in Nat /\ (Cardinality(S) = 0 <=> S = {})
BY GatewayAssumption, FS_Subset, FS_CardinalityType, FS_EmptySet

(* Fewer reservations need no more room. *)
LEMMA FewerReservations ==
  ASSUME NEW S \in SUBSET Conns, NEW T \in SUBSET S, Cardinality(S) <= Cap
  PROVE  Cardinality(T) <= Cap
<1>1. IsFiniteSet(S) /\ Cardinality(S) \in Nat /\ Cardinality(T) \in Nat
  BY FiniteConns
<1>2. Cardinality(T) <= Cardinality(S)
  BY <1>1, FS_Subset
<1>3. QED
  BY <1>1, <1>2, GatewayAssumption

LEMMA InitInv == Init => Inv
<1> SUFFICES ASSUME Init PROVE Inv
  OBVIOUS
<1>1. NoConnection \in Connection
  BY DEF NoConnection, Connection
<1>2. Sound(NoConnection) /\ NoConnection.resv = "none" /\ ~NoConnection.principal
  BY <1>1 DEF Sound, NoConnection
<1>3. Typed /\ ConnsSound
  BY <1>1, <1>2, Zenon DEF Init, Typed, ConnsSound, Poll
<1>4. AdminCountExact
  BY <1>2, FS_EmptySet DEF Init, AdminCountExact
<1>5. PollFollowsAdmins
  BY DEF Init, PollFollowsAdmins
<1>6. Reservations = {}
  BY <1>2 DEF Init, Reservations
<1>7. Cardinality(Reservations) <= Cap
  BY <1>6, FS_EmptySet, GatewayAssumption
<1>8. QED
  BY <1>3, <1>4, <1>5, <1>7 DEF Inv

-----------------------------------------------------------------------------
(* What the operators make of a connection                                 *)

LEMMA ClosedFields ==
  ASSUME NEW r \in Connection
  PROVE  LET k == Closed(r) IN
         /\ k \in Connection /\ k.raw = r.raw /\ k.resv = "none" /\ k.window = FALSE
         /\ k.phase = "none" /\ k.deadline = FALSE /\ k.listening = FALSE
         /\ k.principal = FALSE /\ k.verify = r.verify /\ k.admitted = r.admitted
BY Zenon DEF Closed, Release, Connection

LEMMA CloseRawFields ==
  ASSUME NEW r \in Connection
  PROVE  LET k == CloseRaw(r) IN
         /\ k \in Connection /\ k.raw # "open" /\ (r.raw # "open" => k.raw = r.raw)
         /\ k.resv = r.resv /\ k.window = r.window
         /\ k.phase = r.phase /\ k.deadline = r.deadline /\ k.listening = r.listening
         /\ k.principal = r.principal /\ k.verify = r.verify /\ k.admitted = r.admitted
BY Zenon DEF CloseRaw, Connection

LEMMA ReleaseFields ==
  ASSUME NEW r \in Connection
  PROVE  LET k == Release(r) IN
         /\ k \in Connection /\ k.raw = r.raw /\ k.resv = "none" /\ k.window = FALSE
         /\ k.phase = r.phase /\ k.deadline = r.deadline /\ k.listening = r.listening
         /\ k.principal = r.principal /\ k.verify = r.verify /\ k.admitted = r.admitted
BY Zenon DEF Release, Connection

LEMMA AuthenticatedFields ==
  ASSUME NEW r \in Connection
  PROVE  LET k == Authenticated(r) IN
         /\ k \in Connection /\ k.raw = r.raw /\ k.resv = "none" /\ k.window = FALSE
         /\ k.phase = "AUTHENTICATED" /\ k.deadline = FALSE /\ k.listening = r.listening
         /\ k.principal = TRUE /\ k.verify = "none" /\ k.admitted = TRUE
BY Zenon DEF Authenticated, Release, Connection

(* A closed socket: its transport is open only if it had been admitted. *)
Gone(k) == Sound(k) /\ k.resv = "none" /\ ~k.principal

LEMMA ClosedGone ==
  ASSUME NEW r \in Connection
  PROVE  /\ Gone(CloseRaw(Closed(r))) /\ CloseRaw(Closed(r)).verify = r.verify
         /\ (r.raw = "open" => r.admitted) => Gone(Closed(r))
<1>1. PICK k : k = Closed(r)
  BY Zenon
<1>2. PICK m : m = CloseRaw(k)
  BY Zenon
<1>3. /\ k \in Connection /\ k.raw = r.raw /\ k.resv = "none" /\ k.window = FALSE
      /\ k.phase = "none" /\ k.deadline = FALSE /\ k.listening = FALSE
      /\ k.principal = FALSE /\ k.verify = r.verify /\ k.admitted = r.admitted
  BY <1>1, ClosedFields, Zenon
<1>4. /\ m \in Connection /\ m.raw # "open" /\ m.resv = "none" /\ m.window = FALSE
      /\ m.phase = "none" /\ m.deadline = FALSE /\ m.listening = FALSE
      /\ m.principal = FALSE /\ m.verify = r.verify
  BY <1>2, <1>3, CloseRawFields, Zenon
<1>5. Gone(m)
  BY <1>4 DEF Gone, Sound
<1>6. (r.raw = "open" => r.admitted) => Gone(k)
  BY <1>3 DEF Gone, Sound
<1>7. QED
  BY <1>1, <1>2, <1>4, <1>5, <1>6, Zenon

LEMMA DisconnectedGone ==
  ASSUME NEW r \in Connection, Sound(r), r.phase = "none" => r.resv = "none"
  PROVE  Gone(Disconnected(r)) /\ Disconnected(r).verify = r.verify
<1>1. CASE r.phase = "none"
  <2>1. r.raw = "open" => r.admitted
    BY <1>1 DEF Sound
  <2>2. Disconnected(r) = Closed(r)
    BY <1>1 DEF Disconnected
  <2>3. Closed(r).verify = r.verify
    BY ClosedFields, Zenon
  <2>4. QED
    BY <2>1, <2>2, <2>3, ClosedGone, Zenon
<1>2. CASE r.phase # "none"
  BY <1>2, ClosedGone, Zenon DEF Disconnected
<1>3. QED
  BY <1>1, <1>2

-----------------------------------------------------------------------------
(* The counts                                                              *)

(* The poll may do what it likes with a snapshot as long as it keeps one    *)
(* only while its interval runs.                                            *)
LEMMA PollInv ==
  ASSUME Inv, poll' \in Poll, poll'.interval = poll.interval, poll'.cache => poll.interval,
         UNCHANGED <<conn, room, adminCount, live>>
  PROVE  Inv'
<1>1. Reservations' = Reservations
  BY DEF Reservations
<1>2. ConnsSound'
  BY DEF Inv, ConnsSound, Sound
<1>3. QED
  BY <1>1, <1>2 DEF Inv, Typed, AdminCountExact, PollFollowsAdmins

(* Closing a socket, for whatever reason and however often. *)
LEMMA CloseInv ==
  ASSUME Inv, NEW c \in Conns, NEW k, Gone(k),
         conn' = [conn EXCEPT ![c] = k], Cleanup(c), live' = live
  PROVE  Inv'
<1>1. IsFiniteSet(room) /\ Cardinality(room) \in Nat /\ (Cardinality(room) = 0 <=> room = {})
  BY FiniteConns DEF Inv, Typed
<1>2. c \in room <=> conn[c].principal
  BY DEF Inv, Typed, AdminCountExact
<1>3. Cardinality(room \ {c}) = IF c \in room THEN Cardinality(room) - 1 ELSE Cardinality(room)
  BY <1>1, FS_RemoveElement, Zenon
<1>4. adminCount' = Cardinality(room') /\ adminCount' \in Nat
  BY <1>1, <1>2, <1>3 DEF Cleanup, Inv, AdminCountExact
<1>5. k \in Connection /\ k.resv = "none" /\ ~k.principal /\ Sound(k)
  BY DEF Gone, Sound
<1>6. conn' \in [Conns -> Connection] /\ poll' \in Poll /\ Typed'
  BY <1>4, <1>5, Zenon DEF Inv, Typed, Cleanup, Poll, Stopped
<1>7. ConnsSound'
  BY <1>5, Zenon DEF Inv, Typed, ConnsSound, Sound
<1>8. AdminCountExact'
  BY <1>4, <1>5, Zenon DEF Inv, Typed, AdminCountExact, Cleanup
<1>9. PollFollowsAdmins'
  <2>1. CASE conn[c].principal
    <3>1. adminCount' = adminCount - 1 /\ adminCount > 0 /\ adminCount \in Nat
      BY <2>1, <1>1, <1>2 DEF Cleanup, Inv, AdminCountExact
    <3>2. CASE adminCount - 1 = 0
      BY <2>1, <3>1, <3>2 DEF Inv, Typed, Poll, Cleanup, Stopped, PollFollowsAdmins
    <3>3. CASE adminCount - 1 # 0
      BY <2>1, <3>1, <3>3 DEF Inv, Typed, Poll, Cleanup, PollFollowsAdmins
    <3>4. QED
      BY <3>2, <3>3
  <2>2. CASE ~conn[c].principal
    BY <2>2 DEF Inv, Cleanup, PollFollowsAdmins
  <2>3. QED
    BY <2>1, <2>2
<1>10. Reservations' \in SUBSET Reservations /\ Reservations \in SUBSET Conns
  BY <1>5 DEF Inv, Typed, Reservations
<1>11. Cardinality(Reservations') <= Cap
  BY <1>10, FewerReservations DEF Inv
<1>12. QED
  BY <1>6, <1>7, <1>8, <1>9, <1>11 DEF Inv

(* A step of a connection that is neither counted before nor after it, and  *)
(* that takes no reservation.                                               *)
LEMMA ChangeInv ==
  ASSUME Inv, NEW c \in Conns, NEW k, Sound(k),
         k.principal = conn[c].principal, k.resv # "none" => conn[c].resv # "none",
         conn' = [conn EXCEPT ![c] = k],
         UNCHANGED <<room, adminCount, poll, live>>
  PROVE  Inv'
<1>1. k \in Connection
  BY DEF Sound
<1>2. Typed' /\ AdminCountExact' /\ PollFollowsAdmins'
  BY <1>1 DEF Inv, Typed, AdminCountExact, PollFollowsAdmins
<1>3. ConnsSound'
  BY Zenon DEF Inv, Typed, ConnsSound, Sound
<1>4. Reservations' \in SUBSET Reservations /\ Reservations \in SUBSET Conns
  BY DEF Inv, Typed, Reservations
<1>5. Cardinality(Reservations') <= Cap
  BY <1>4, FewerReservations DEF Inv
<1>6. QED
  BY <1>2, <1>3, <1>5 DEF Inv

(* disconnectSilent *)
LEMMA DisconnectInv ==
  ASSUME Inv, NEW c \in Conns, DisconnectSilent(c), live' = live,
         conn[c].phase = "none" => conn[c].resv = "none"
  PROVE  Inv'
<1>1. conn[c] \in Connection /\ Sound(conn[c])
  BY DEF Inv, Typed, ConnsSound
<1>2. PICK k : k = Disconnected(conn[c])
  BY Zenon
<1>3. Gone(k) /\ conn' = [conn EXCEPT ![c] = k] /\ Cleanup(c)
  BY <1>1, <1>2, DisconnectedGone, Zenon DEF DisconnectSilent
<1>4. QED
  BY <1>3, CloseInv, Zenon

(* reserve counts before it lets a transport in. *)
LEMMA ReserveInv ==
  ASSUME Inv, NEW c \in Conns, Reserve(c)
  PROVE  Inv'
<1>1. conn[c].raw = "closed" /\ Sound(conn[c]) /\ UNCHANGED <<room, adminCount, poll, live>>
  BY DEF Inv, ConnsSound, Reserve
<1>2. ~conn[c].principal /\ conn[c].resv = "none"
  BY <1>1 DEF Sound, Connection
<1>3. CASE RoomForReservation
  <2>1. PICK k : k = [NoConnection EXCEPT !.raw = "open", !.resv = "held", !.window = TRUE]
    BY Zenon
  <2>2. k \in Connection
    BY <2>1, Zenon DEF NoConnection, Connection
  <2>3. Sound(k) /\ ~k.principal /\ k.resv # "none"
    BY <2>1, <2>2 DEF Sound, NoConnection
  <2>4. conn' = [conn EXCEPT ![c] = k]
    BY <1>3, <2>1 DEF Reserve
  <2>5. Typed' /\ AdminCountExact' /\ PollFollowsAdmins'
    BY <1>1, <1>2, <2>2, <2>3, <2>4, ZenonT(60) DEF Inv, Typed, AdminCountExact, PollFollowsAdmins
  <2>6. ConnsSound'
    BY <2>3, <2>4, Zenon DEF Inv, Typed, ConnsSound, Sound
  <2>7. Reservations \in SUBSET Conns /\ c \notin Reservations /\ Reservations' = Reservations \cup {c}
    BY <1>2, <2>3, <2>4 DEF Inv, Typed, Reservations
  <2>8. Cardinality(Reservations') = Cardinality(Reservations) + 1 /\ Cardinality(Reservations) \in Nat
    BY <2>7, FiniteConns, FS_AddElement
  <2>9. Cardinality(Reservations') <= Cap
    BY <1>3, <2>8, GatewayAssumption DEF RoomForReservation
  <2>10. QED
    BY <2>5, <2>6, <2>9 DEF Inv
<1>4. CASE ~RoomForReservation
  <2>1. PICK k : k = [NoConnection EXCEPT !.raw = "closing"]
    BY Zenon
  <2>2. k \in Connection
    BY <2>1, Zenon DEF NoConnection, Connection
  <2>3. Sound(k) /\ k.principal = FALSE /\ k.resv = "none"
    BY <2>1, <2>2 DEF Sound, NoConnection
  <2>4. conn' = [conn EXCEPT ![c] = k]
    BY <1>4, <2>1 DEF Reserve
  <2>5. k.principal = conn[c].principal
    BY <1>1, <1>2, <2>3 DEF Sound, Connection
  <2>6. QED
    BY <1>1, <2>3, <2>4, <2>5, ChangeInv, Zenon
<1>5. QED
  BY <1>3, <1>4

LEMMA AdmitInv ==
  ASSUME Inv, NEW c \in Conns, Admit(c)
  PROVE  Inv'
<1>1. conn[c] \in Connection /\ Sound(conn[c]) /\ conn[c].resv # "none" /\ live
  BY DEF Inv, Typed, ConnsSound, Admit, AuthSucceeds
<1>2. conn[c].raw = "open" /\ ~conn[c].principal
  BY <1>1 DEF Sound
<1>3. PICK k : k = Authenticated(conn[c])
  BY Zenon
<1>4. /\ k \in Connection /\ k.raw = "open" /\ k.resv = "none" /\ k.window = FALSE
      /\ k.phase = "AUTHENTICATED" /\ k.principal = TRUE /\ k.verify = "none" /\ k.admitted = TRUE
  BY <1>1, <1>2, <1>3, AuthenticatedFields, Zenon
<1>5. Sound(k) /\ conn' = [conn EXCEPT ![c] = k]
  BY <1>3, <1>4 DEF Sound, Admit
<1>6. IsFiniteSet(room) /\ Cardinality(room) \in Nat /\ c \notin room
  BY <1>2, FiniteConns DEF Inv, Typed, AdminCountExact
<1>7. Cardinality(room \cup {c}) = Cardinality(room) + 1
  BY <1>6, FS_AddElement, Zenon
<1>8. poll' \in Poll /\ poll'.interval /\ live'
  BY <1>1, Zenon DEF Inv, Typed, Poll, Admit
<1>9. Typed'
  <2>1. conn' \in [Conns -> Connection]
    BY <1>4, <1>5 DEF Inv, Typed
  <2>2. room' \subseteq Conns /\ adminCount' \in Nat /\ live' \in BOOLEAN
    BY DEF Inv, Typed, Admit
  <2>3. QED
    BY <1>8, <2>1, <2>2 DEF Typed
<1>10. ConnsSound'
  BY <1>5, Zenon DEF Inv, Typed, ConnsSound, Sound
<1>11. AdminCountExact'
  <2>1. room' = room \cup {c} /\ adminCount' = adminCount + 1
    BY DEF Admit
  <2>2. room' = {d \in Conns : conn'[d].principal}
    BY <1>4, <1>5, <2>1 DEF Inv, Typed, AdminCountExact
  <2>3. QED
    BY <1>7, <2>1, <2>2 DEF Inv, AdminCountExact
<1>12. PollFollowsAdmins'
  BY <1>8 DEF Inv, Typed, Admit, PollFollowsAdmins
<1>13. Reservations' \in SUBSET Reservations /\ Reservations \in SUBSET Conns
  BY <1>4, <1>5 DEF Inv, Typed, Reservations
<1>14. Cardinality(Reservations') <= Cap
  BY <1>13, FewerReservations DEF Inv
<1>15. QED
  BY <1>9, <1>10, <1>11, <1>12, <1>14 DEF Inv

(* A token that expires meanwhile: the socket is counted and closed again. *)
LEMMA AdmitExpiredInv ==
  ASSUME Inv, NEW c \in Conns, AdmitExpired(c)
  PROVE  Inv'
<1>1. conn[c] \in Connection /\ Sound(conn[c]) /\ conn[c].resv # "none" /\ live' = live
  BY DEF Inv, Typed, ConnsSound, AdmitExpired, AuthSucceeds
<1>2. conn[c].raw = "open" /\ ~conn[c].principal
  BY <1>1 DEF Sound
<1>3. PICK r : r = Authenticated(conn[c])
  BY Zenon
<1>4. /\ r \in Connection /\ r.raw = "open" /\ r.resv = "none" /\ r.window = FALSE
      /\ r.phase = "AUTHENTICATED" /\ r.principal = TRUE /\ r.verify = "none" /\ r.admitted = TRUE
  BY <1>1, <1>2, <1>3, AuthenticatedFields, Zenon
<1>5. Sound(r)
  BY <1>4 DEF Sound
<1>6. PICK k : k = Disconnected(r)
  BY Zenon
<1>7. Gone(k) /\ conn' = [conn EXCEPT ![c] = k]
  BY <1>3, <1>4, <1>5, <1>6, DisconnectedGone, Zenon DEF AdmitExpired
<1>8. k \in Connection /\ k.principal = FALSE /\ conn[c].principal = FALSE /\ Sound(k) /\ k.resv = "none"
  BY <1>1, <1>2, <1>7 DEF Gone, Sound, Connection
<1>9. adminCount \in Nat /\ UNCHANGED <<room, adminCount>>
  BY DEF Inv, Typed, AdmitExpired
<1>10. CASE adminCount = 0
  <2>1. poll' \in Poll /\ ~poll'.interval /\ ~poll'.cache
    BY <1>10, Zenon DEF Inv, Typed, AdmitExpired, Stopped, Poll
  <2>2. ~poll.interval /\ poll'.interval = poll.interval
    BY <1>10, <2>1 DEF Inv, Typed, Poll, PollFollowsAdmins
  <2>3. Typed' /\ PollFollowsAdmins'
    BY <1>1, <1>7, <1>8, <1>9, <1>10, <2>1 DEF Inv, Typed, PollFollowsAdmins
  <2>4. ConnsSound'
    BY <1>7, <1>8, Zenon DEF Inv, Typed, ConnsSound, Sound
  <2>5. AdminCountExact'
    BY <1>7, <1>8, <1>9 DEF Inv, Typed, AdminCountExact
  <2>6. Reservations' \in SUBSET Reservations /\ Reservations \in SUBSET Conns
    BY <1>7, <1>8 DEF Inv, Typed, Reservations
  <2>7. Cardinality(Reservations') <= Cap
    BY <2>6, FewerReservations DEF Inv
  <2>8. QED
    BY <2>3, <2>4, <2>5, <2>7 DEF Inv
<1>11. CASE adminCount # 0
  <2>1. poll' = poll
    BY <1>11 DEF AdmitExpired
  <2>2. QED
    BY <1>1, <1>7, <1>8, <1>9, <2>1, ChangeInv, Zenon
<1>12. QED
  BY <1>10, <1>11

(* A verification that is over leaves the rest of the connection alone. *)
LEMMA OverSound ==
  ASSUME NEW r, Sound(r), NEW v \in {"none", "eligible", "ineligible", "rejected"},
         v = "none" \/ r.resv # "held"
  PROVE  LET k == [r EXCEPT !.verify = v] IN
         Sound(k) /\ k.principal = r.principal /\ k.resv = r.resv /\ k.phase = r.phase /\ k.verify = v
<1>1. PICK k : k = [r EXCEPT !.verify = v]
  BY Zenon
<1>2. /\ k \in Connection /\ k.raw = r.raw /\ k.resv = r.resv /\ k.window = r.window
      /\ k.phase = r.phase /\ k.deadline = r.deadline /\ k.listening = r.listening
      /\ k.principal = r.principal /\ k.verify = v /\ k.admitted = r.admitted
  BY <1>1, Zenon DEF Sound, Connection
<1>3. QED
  BY <1>1, <1>2 DEF Sound

LEMMA AuthFailsInv ==
  ASSUME Inv, NEW c \in Conns, AuthFails(c)
  PROVE  Inv'
<1>1. Sound(conn[c]) /\ conn[c] \in Connection /\ conn[c].verify # "none" /\ live' = live
  BY DEF Inv, Typed, ConnsSound, AuthFails, Verified
<1>2. conn[c].phase = "none" => conn[c].resv = "none"
  BY <1>1 DEF Sound, Connection
<1>3. PICK r : r = [conn[c] EXCEPT !.verify = "none"]
  BY Zenon
<1>4. Sound(r) /\ r.principal = conn[c].principal /\ r.resv = conn[c].resv /\ r.phase = conn[c].phase
  BY <1>1, <1>3, OverSound, Zenon
<1>5. CASE live \/ conn[c].verify = "rejected"
  <2>1. PICK k : k = Disconnected(r)
    BY Zenon
  <2>2. conn' = [conn EXCEPT ![c] = k] /\ Cleanup(c)
    BY <1>3, <1>5, <2>1 DEF AuthFails
  <2>3. r \in Connection /\ (r.phase = "none" => r.resv = "none")
    BY <1>2, <1>4 DEF Sound
  <2>4. Gone(k)
    BY <1>4, <2>1, <2>3, DisconnectedGone, Zenon
  <2>5. QED
    BY <1>1, <2>2, <2>4, CloseInv, Zenon
<1>6. CASE ~(live \/ conn[c].verify = "rejected")
  <2>1. conn' = [conn EXCEPT ![c] = r] /\ UNCHANGED <<room, adminCount, poll, live>>
    BY <1>3, <1>6 DEF AuthFails
  <2>2. QED
    BY <1>4, <2>1, ChangeInv, Zenon
<1>7. QED
  BY <1>5, <1>6

LEMMA HandleConnectionInv ==
  ASSUME Inv, NEW c \in Conns, NEW cookie \in CookieResults, HandleConnection(c, cookie)
  PROVE  Inv'
<1>1. /\ Sound(conn[c]) /\ conn[c] \in Connection /\ live' = live
      /\ conn[c].raw = "open" /\ conn[c].phase = "none"
  BY DEF Inv, Typed, ConnsSound, HandleConnection
<1>2. CASE /\ conn' = [conn EXCEPT ![c] = Disconnected([conn[c] EXCEPT !.phase = "PENDING"])]
           /\ Cleanup(c)
  <2>1. PICK r : r = [conn[c] EXCEPT !.phase = "PENDING"]
    BY Zenon
  <2>2. /\ r \in Connection /\ r.raw = conn[c].raw /\ r.resv = conn[c].resv /\ r.window = conn[c].window
        /\ r.phase = "PENDING" /\ r.deadline = conn[c].deadline /\ r.listening = conn[c].listening
        /\ r.principal = conn[c].principal /\ r.verify = conn[c].verify /\ r.admitted = conn[c].admitted
    BY <1>1, <2>1, Zenon DEF Connection
  <2>3. Sound(r) /\ r.phase # "none"
    BY <1>1, <2>2 DEF Sound
  <2>4. PICK k : k = Disconnected(r)
    BY Zenon
  <2>5. Gone(k) /\ conn' = [conn EXCEPT ![c] = k]
    BY <1>2, <2>1, <2>2, <2>3, <2>4, DisconnectedGone, Zenon
  <2>6. QED
    BY <1>1, <1>2, <2>5, CloseInv, Zenon
<1>3. CASE /\ conn[c].resv = "held"
           /\ conn' = [conn EXCEPT ![c] =
                IF cookie = "token"
                THEN [Claim(conn[c]) EXCEPT !.deadline = TRUE, !.phase = "VERIFYING", !.verify = "reading"]
                ELSE [Claim(conn[c]) EXCEPT !.deadline = TRUE, !.phase = "PENDING", !.listening = TRUE]]
           /\ UNCHANGED <<room, adminCount, poll>>
  <2>1. PICK k : k = IF cookie = "token"
                THEN [Claim(conn[c]) EXCEPT !.deadline = TRUE, !.phase = "VERIFYING", !.verify = "reading"]
                ELSE [Claim(conn[c]) EXCEPT !.deadline = TRUE, !.phase = "PENDING", !.listening = TRUE]
    BY Zenon
  <2>2. /\ k \in Connection /\ k.raw = "open" /\ k.resv = "claimed" /\ k.window = conn[c].window
        /\ k.phase # "none" /\ k.principal = conn[c].principal /\ k.admitted = conn[c].admitted
    <3>1. CASE cookie = "token"
      BY <1>1, <2>1, <3>1, ZenonT(60) DEF Connection, Claim
    <3>2. CASE cookie # "token"
      BY <1>1, <2>1, <3>2, ZenonT(60) DEF Connection, Claim
    <3>3. QED
      BY <3>1, <3>2
  <2>3. Sound(k) /\ conn[c].resv # "none"
    BY <1>1, <1>3, <2>2 DEF Sound
  <2>4. conn' = [conn EXCEPT ![c] = k]
    BY <1>3, <2>1
  <2>5. QED
    BY <1>1, <1>3, <2>2, <2>3, <2>4, ChangeInv, Zenon
<1>4. QED
  BY <1>2, <1>3 DEF HandleConnection

LEMMA ReceiveAuthInv ==
  ASSUME Inv, NEW c \in Conns, NEW wellFormed \in PayloadResults, ReceiveAuth(c, wellFormed)
  PROVE  Inv'
<1>1. /\ Sound(conn[c]) /\ conn[c] \in Connection /\ live' = live /\ conn[c].listening
  BY DEF Inv, Typed, ConnsSound, ReceiveAuth
<1>2. conn[c].phase # "none"
  BY <1>1 DEF Sound
<1>3. CASE DisconnectSilent(c)
  BY <1>1, <1>2, <1>3, DisconnectInv
<1>4. CASE /\ conn[c].phase = "PENDING"
           /\ conn' = [conn EXCEPT ![c] = [conn[c] EXCEPT !.phase = "VERIFYING", !.verify = "reading"]]
           /\ UNCHANGED <<room, adminCount, poll>>
  <2>1. PICK k : k = [conn[c] EXCEPT !.phase = "VERIFYING", !.verify = "reading"]
    BY Zenon
  <2>2. /\ k \in Connection /\ k.raw = conn[c].raw /\ k.resv = conn[c].resv /\ k.window = conn[c].window
        /\ k.phase = "VERIFYING" /\ k.deadline = conn[c].deadline /\ k.listening = conn[c].listening
        /\ k.principal = conn[c].principal /\ k.verify = "reading" /\ k.admitted = conn[c].admitted
    BY <1>1, <2>1, ZenonT(60) DEF Connection
  <2>3. Sound(k)
    BY <1>1, <2>2 DEF Sound
  <2>4. conn' = [conn EXCEPT ![c] = k]
    BY <1>4, <2>1
  <2>5. QED
    BY <1>1, <1>4, <2>2, <2>3, <2>4, ChangeInv, Zenon
<1>5. QED
  BY <1>3, <1>4 DEF ReceiveAuth

(* The sockets a tick has still to check have no reservation; reserve cannot *)
(* give them one before it has.                                             *)
TodoInv == \A c \in Conns : c \in tick.todo => conn[c].resv = "none"

LEMMA SocketInv ==
  ASSUME Inv, NEW c \in Conns, SocketStep(c)
  PROVE  Inv'
<1>1. conn[c] \in Connection /\ Sound(conn[c])
  BY DEF Inv, Typed, ConnsSound
<1>2. CASE DeadlinePasses(c) \/ TokenExpires(c)
  <2>1. conn[c].phase = "none" => conn[c].resv = "none"
    BY <1>1, <1>2 DEF Sound, DeadlinePasses, TokenExpires
  <2>2. QED
    BY <1>2, <2>1, DisconnectInv DEF DeadlinePasses, TokenExpires
<1>3. CASE TransportCloses(c)
  <2>1. PICK k : k = [Closed(conn[c]) EXCEPT !.raw = "closed"]
    BY Zenon
  <2>2. PICK r : r = Closed(conn[c])
    BY Zenon
  <2>3. /\ r \in Connection /\ r.resv = "none" /\ r.window = FALSE /\ r.phase = "none"
        /\ r.deadline = FALSE /\ r.listening = FALSE /\ r.principal = FALSE
    BY <1>1, <2>2, ClosedFields, Zenon
  <2>4. /\ k \in Connection /\ k.raw = "closed" /\ k.resv = "none" /\ k.window = FALSE /\ k.phase = "none"
        /\ k.deadline = FALSE /\ k.listening = FALSE /\ k.principal = FALSE
    BY <2>1, <2>2, <2>3, Zenon DEF Connection
  <2>5. Gone(k)
    BY <2>4 DEF Gone, Sound
  <2>6. conn' = [conn EXCEPT ![c] = k] /\ Cleanup(c) /\ live' = live
    BY <1>3, <2>1 DEF TransportCloses
  <2>7. QED
    BY <2>5, <2>6, CloseInv, Zenon
<1>4. CASE HandleDisconnect(c)
  <2>1. PICK k : k = IF conn[c].principal THEN Closed(conn[c]) ELSE CloseRaw(Closed(conn[c]))
    BY Zenon
  <2>2. conn[c].principal => (conn[c].raw = "open" => conn[c].admitted)
    BY <1>1 DEF Sound
  <2>3. Gone(k)
    BY <1>1, <2>1, <2>2, ClosedGone, Zenon
  <2>4. conn' = [conn EXCEPT ![c] = k] /\ Cleanup(c) /\ live' = live
    BY <1>4, <2>1 DEF HandleDisconnect
  <2>5. QED
    BY <2>3, <2>4, CloseInv, Zenon
<1>5. CASE ReservationExpires(c)
  <2>1. PICK r : r = Release(conn[c])
    BY Zenon
  <2>2. PICK k : k = CloseRaw(r)
    BY Zenon
  <2>3. /\ r \in Connection /\ r.resv = "none" /\ r.window = FALSE /\ r.phase = conn[c].phase
        /\ r.deadline = conn[c].deadline /\ r.listening = conn[c].listening
        /\ r.principal = conn[c].principal
    BY <1>1, <2>1, ReleaseFields, Zenon
  <2>4. /\ k \in Connection /\ k.raw # "open" /\ k.resv = "none" /\ k.window = FALSE
        /\ k.phase = conn[c].phase /\ k.deadline = conn[c].deadline /\ k.listening = conn[c].listening
        /\ k.principal = conn[c].principal
    BY <2>2, <2>3, CloseRawFields, Zenon
  <2>5. conn[c].window /\ conn' = [conn EXCEPT ![c] = k] /\ UNCHANGED <<room, adminCount, poll, live>>
    BY <1>5, <2>1, <2>2 DEF ReservationExpires
  <2>6. ~conn[c].principal
    BY <1>1, <2>5 DEF Sound
  <2>7. Sound(k)
    BY <1>1, <2>4, <2>6 DEF Sound
  <2>8. QED
    BY <2>4, <2>5, <2>7, ChangeInv, Zenon
<1>6. CASE VerifyRead(c)
  <2>1. PICK v \in Verdicts(c) : conn' = [conn EXCEPT ![c] = [conn[c] EXCEPT !.verify = v]]
    BY <1>6, Zenon DEF VerifyRead
  <2>2. conn[c].resv # "held" /\ UNCHANGED <<room, adminCount, poll, live>>
    BY <1>1, <1>6 DEF VerifyRead, Sound
  <2>3. v \in {"none", "eligible", "ineligible", "rejected"}
    BY <2>1 DEF Verdicts
  <2>4. PICK k : k = [conn[c] EXCEPT !.verify = v]
    BY Zenon
  <2>5. Sound(k) /\ k.principal = conn[c].principal /\ k.resv = conn[c].resv
    BY <1>1, <2>2, <2>3, <2>4, OverSound, Zenon
  <2>6. conn' = [conn EXCEPT ![c] = k]
    BY <2>1, <2>4
  <2>7. QED
    BY <2>2, <2>5, <2>6, ChangeInv, Zenon
<1>7. QED
  BY <1>2, <1>3, <1>4, <1>5, <1>6, ReserveInv, HandleConnectionInv, ReceiveAuthInv, AuthFailsInv,
     AdmitExpiredInv, AdmitInv DEF SocketStep

(* onModuleDestroy *)
LEMMA ShutdownInv ==
  ASSUME Inv, Shutdown
  PROVE  Inv'
<1>1. ASSUME NEW c \in Conns PROVE Gone(conn'[c])
  <2>1. conn[c] \in Connection /\ (conn[c].raw = "open" => conn[c].admitted \/ conn[c].resv # "none")
    BY DEF Inv, Typed, ConnsSound, Sound
  <2>2. conn'[c] = IF conn[c].resv # "none" THEN CloseRaw(Closed(conn[c])) ELSE Closed(conn[c])
    BY Zenon DEF Shutdown
  <2>3. CASE conn[c].resv # "none"
    BY <2>1, <2>2, <2>3, ClosedGone, Zenon
  <2>4. CASE conn[c].resv = "none"
    BY <2>1, <2>2, <2>4, ClosedGone, Zenon
  <2>5. QED
    BY <2>3, <2>4
<1>2. /\ \A c \in Conns : conn'[c] \in Connection /\ conn'[c].resv = "none" /\ ~conn'[c].principal
      /\ \A c \in Conns : Sound(conn'[c])
  BY <1>1 DEF Gone, Sound
<1>3. conn' \in [Conns -> Connection] /\ ConnsSound'
  BY <1>2, Zenon DEF Shutdown, ConnsSound, Sound
<1>4. poll' \in Poll /\ ~poll'.interval /\ ~poll'.cache
  BY Zenon DEF Inv, Typed, Poll, Shutdown, Stopped
<1>5. Typed' /\ PollFollowsAdmins'
  BY <1>3, <1>4, Zenon DEF Typed, PollFollowsAdmins, Shutdown
<1>6. AdminCountExact'
  BY <1>2, FS_EmptySet DEF AdminCountExact, Shutdown
<1>7. Reservations' = {}
  BY <1>2 DEF Reservations
<1>8. Cardinality(Reservations') <= Cap
  BY <1>7, FS_EmptySet, GatewayAssumption
<1>9. QED
  BY <1>3, <1>5, <1>6, <1>8 DEF Inv

(* The steps of the poll. *)
LEMMA TickInv ==
  ASSUME Inv,
         \/ IntervalFires \/ ImmediateFires \/ EndRevalidation
         \/ \E snapshot \in Snapshots : Collect(snapshot)
  PROVE  Inv'
<1>1. poll \in Poll /\ (poll.cache => poll.interval) /\ (live /\ room # {} => poll.interval)
  BY FiniteConns DEF Inv, Typed, PollFollowsAdmins, AdminCountExact
<1>2. UNCHANGED <<conn, room, adminCount, live>>
  BY Zenon DEF IntervalFires, ImmediateFires, EndRevalidation, Collect
<1>3. \A pl \in Poll : LET q == Finished(pl) IN
        q \in Poll /\ (q.interval <=> pl.interval) /\ (q.cache <=> pl.cache)
  BY Zenon DEF Finished, Poll
<1>4. \A pl \in Poll : (pl.interval <=> poll.interval) /\ (pl.cache => poll.interval) /\ BeginTick(pl)
        => poll' \in Poll /\ (poll'.interval <=> poll.interval) /\ (poll'.cache => poll.interval)
  <2> SUFFICES ASSUME NEW pl \in Poll, pl.interval <=> poll.interval, pl.cache => poll.interval,
                      BeginTick(pl)
               PROVE  poll' \in Poll /\ (poll'.interval <=> poll.interval) /\ (poll'.cache => poll.interval)
    OBVIOUS
  <2>1. CASE live /\ room # {}
    BY <2>1, Zenon DEF BeginTick, Poll
  <2>2. CASE ~(live /\ room # {})
    <3> DEFINE q == [pl EXCEPT !.cache = FALSE, !.stale = FALSE]
    <3>1. q \in Poll /\ (q.interval <=> pl.interval) /\ ~q.cache
      BY Zenon DEF Poll
    <3>2. poll' = Finished(q)
      BY <2>2 DEF BeginTick
    <3>3. QED
      BY <1>3, <3>1, <3>2, Zenon
  <2>3. QED
    BY <2>1, <2>2
<1>5. poll' \in Poll /\ (poll'.interval <=> poll.interval) /\ (poll'.cache => poll.interval)
  <2>1. CASE IntervalFires
    BY <1>1, <1>4, <2>1 DEF IntervalFires
  <2>2. CASE ImmediateFires
    <3> DEFINE pl == [poll EXCEPT !.soon = FALSE]
    <3>1. pl \in Poll /\ (pl.interval <=> poll.interval) /\ (pl.cache <=> poll.cache)
      BY <1>1, Zenon DEF Poll
    <3>2. BeginTick(pl) \/ poll' = pl
      BY <2>2 DEF ImmediateFires
    <3>3. QED
      BY <1>1, <1>4, <3>1, <3>2, Zenon
  <2>3. CASE EndRevalidation
    <3> DEFINE ok == ~poll.stale /\ live /\ room # {}
               q == [poll EXCEPT !.cache = ok]
    <3>1. q \in Poll /\ (q.interval <=> poll.interval) /\ (q.cache <=> ok)
      BY <1>1, Zenon DEF Poll, Inv, Typed
    <3>2. poll' = poll \/ poll' = Finished(q)
      BY <2>3 DEF EndRevalidation
    <3>3. QED
      BY <1>1, <1>3, <3>1, <3>2, Zenon
  <2>4. ASSUME NEW snapshot \in Snapshots, Collect(snapshot)
        PROVE  poll' \in Poll /\ (poll'.interval <=> poll.interval) /\ (poll'.cache => poll.interval)
    <3> DEFINE q == [poll EXCEPT !.cache = @ /\ snapshot /\ (poll.stale \/ ~live)]
    <3>1. q \in Poll /\ (q.interval <=> poll.interval) /\ (q.cache => poll.cache)
      BY <1>1, Zenon DEF Poll, Inv, Typed
    <3>2. poll' = poll \/ poll' = Finished(q)
      BY <2>4 DEF Collect
    <3>3. QED
      BY <1>1, <1>3, <3>1, <3>2, Zenon
  <2>5. QED
    BY <2>1, <2>2, <2>3, <2>4
<1>6. QED
  BY <1>1, <1>2, <1>5, PollInv DEF Poll

LEMMA NextInv == Inv /\ TodoInv /\ [Next]_vars => Inv'
<1> SUFFICES ASSUME Inv, TodoInv, [Next]_vars PROVE Inv'
  OBVIOUS
<1>1. CASE UNCHANGED vars
  BY <1>1, PollInv DEF vars, Inv, Typed, PollFollowsAdmins
<1>2. ASSUME NEW c \in Conns, SocketStep(c) PROVE Inv'
  BY <1>2, SocketInv
<1>3. ASSUME NEW c \in Conns, Revalidate(c) PROVE Inv'
  <2>1. PICK v \in Verdicts(c) :
          IF v = "eligible" THEN UNCHANGED <<conn, room, adminCount, poll>>
                            ELSE DisconnectSilent(c)
    BY <1>3 DEF Revalidate
  <2>2. live' = live /\ conn[c].resv = "none"
    BY <1>3 DEF Revalidate, TodoInv
  <2>3. CASE DisconnectSilent(c)
    BY <2>2, <2>3, DisconnectInv
  <2>4. CASE UNCHANGED <<conn, room, adminCount, poll>>
    BY <2>2, <2>4, PollInv DEF Inv, Typed, PollFollowsAdmins
  <2>5. QED
    BY <2>1, <2>3, <2>4
<1>4. ASSUME NEW c \in Conns, AccountChanges(c) PROVE Inv'
  BY <1>4, PollInv DEF AccountChanges, Inv, Typed, PollFollowsAdmins
<1>5. CASE Shutdown
  BY <1>5, ShutdownInv
<1>6. CASE \/ IntervalFires \/ ImmediateFires \/ EndRevalidation
           \/ \E snapshot \in Snapshots : Collect(snapshot)
  BY <1>6, TickInv
<1>7. QED
  BY <1>1, <1>2, <1>3, <1>4, <1>5, <1>6 DEF Next

(* disconnectSilent takes what reservation there was. *)
LEMMA DisconnectedFields ==
  ASSUME NEW r \in Connection
  PROVE  LET k == Disconnected(r) IN k.resv = "none" /\ k.principal = FALSE /\ k.verify = r.verify
<1>1. PICK q : q = Closed(r)
  BY Zenon
<1>2. q \in Connection /\ q.resv = "none" /\ q.principal = FALSE /\ q.verify = r.verify
  BY <1>1, ClosedFields, Zenon
<1>3. CloseRaw(q).resv = "none" /\ CloseRaw(q).principal = FALSE /\ CloseRaw(q).verify = r.verify
  BY <1>2, CloseRawFields, Zenon
<1>4. QED
  BY <1>1, <1>2, <1>3, Zenon DEF Disconnected

(* Only reserve gives a connection a reservation, and one that is not in    *)
(* the list of a tick.                                                      *)
LEMMA SocketTodo ==
  ASSUME Inv, NEW c \in Conns, SocketStep(c)
  PROVE  /\ \A d \in Conns : conn'[d].resv # "none" => conn[d].resv # "none" \/ d \notin tick'.todo
         /\ tick'.todo = tick.todo \/ tick'.todo = room'
<1>1. conn[c] \in Connection /\ conn \in [Conns -> Connection]
  BY DEF Inv, Typed
<1>2. tick'.todo = tick.todo \/ tick'.todo = room'
  <2>1. CASE Admit(c)
    <3>1. tick' = tick \/ tick' = [pc |-> "first", todo |-> room']
      BY <2>1, Zenon DEF Admit
    <3>2. QED
      BY <3>1
  <2>2. ASSUME NEW cookie \in CookieResults, HandleConnection(c, cookie) PROVE tick' = tick
    BY <2>2, Zenon DEF HandleConnection
  <2>3. ASSUME NEW wellFormed \in PayloadResults, ReceiveAuth(c, wellFormed) PROVE tick' = tick
    BY <2>3, Zenon DEF ReceiveAuth
  <2>4. Reserve(c) \/ TransportCloses(c) \/ HandleDisconnect(c) \/ ReservationExpires(c) => tick' = tick
    BY Zenon DEF Reserve, TransportCloses, HandleDisconnect, ReservationExpires
  <2>5. DeadlinePasses(c) \/ TokenExpires(c) \/ VerifyRead(c) \/ AuthFails(c) \/ AdmitExpired(c) => tick' = tick
    BY Zenon DEF DeadlinePasses, TokenExpires, VerifyRead, AuthFails, AdmitExpired
  <2>6. QED
    BY <2>1, <2>2, <2>3, <2>4, <2>5 DEF SocketStep
<1>3. ASSUME NEW k, conn' = [conn EXCEPT ![c] = k],
             k.resv # "none" => conn[c].resv # "none" \/ c \notin tick'.todo
      PROVE  \A d \in Conns : conn'[d].resv # "none" => conn[d].resv # "none" \/ d \notin tick'.todo
  BY <1>1, <1>3, Zenon
<1>4. CASE Reserve(c)
  <2>1. c \notin tick'.todo
    BY <1>4 DEF Reserve
  <2>2. \E k : conn' = [conn EXCEPT ![c] = k]
    BY <1>4, Zenon DEF Reserve
  <2>3. QED
    BY <1>2, <1>3, <2>1, <2>2
<1>5. ASSUME NEW r \in Connection, conn' = [conn EXCEPT ![c] = Disconnected(r)]
      PROVE  \A d \in Conns : conn'[d].resv # "none" => conn[d].resv # "none" \/ d \notin tick'.todo
  <2>1. Disconnected(r).resv = "none"
    BY DisconnectedFields, Zenon
  <2>2. QED
    BY <1>3, <1>5, <2>1, Zenon
<1>6. CASE DeadlinePasses(c) \/ TokenExpires(c)
  BY <1>1, <1>2, <1>5, <1>6 DEF DeadlinePasses, TokenExpires, DisconnectSilent
<1>7. CASE TransportCloses(c)
  <2>1. PICK k : k = [Closed(conn[c]) EXCEPT !.raw = "closed"]
    BY Zenon
  <2>2. Closed(conn[c]) \in Connection /\ Closed(conn[c]).resv = "none"
    BY <1>1, ClosedFields, Zenon
  <2>3. k.resv = "none"
    BY <2>1, <2>2, Zenon DEF Connection
  <2>4. QED
    BY <1>2, <1>3, <1>7, <2>1, <2>3 DEF TransportCloses
<1>8. CASE HandleDisconnect(c)
  <2>1. PICK k : k = IF conn[c].principal THEN Closed(conn[c]) ELSE CloseRaw(Closed(conn[c]))
    BY Zenon
  <2>2. Closed(conn[c]) \in Connection /\ Closed(conn[c]).resv = "none"
    BY <1>1, ClosedFields, Zenon
  <2>3. CloseRaw(Closed(conn[c])).resv = "none"
    BY <2>2, CloseRawFields, Zenon
  <2>4. QED
    BY <1>2, <1>3, <1>8, <2>1, <2>2, <2>3 DEF HandleDisconnect
<1>9. CASE ReservationExpires(c)
  <2>1. Release(conn[c]) \in Connection /\ Release(conn[c]).resv = "none"
    BY <1>1, ReleaseFields, Zenon
  <2>2. CloseRaw(Release(conn[c])).resv = "none"
    BY <2>1, CloseRawFields, Zenon
  <2>3. QED
    BY <1>2, <1>3, <1>9, <2>2, Zenon DEF ReservationExpires
<1>10. ASSUME NEW cookie \in CookieResults, HandleConnection(c, cookie)
       PROVE  \A d \in Conns : conn'[d].resv # "none" => conn[d].resv # "none" \/ d \notin tick'.todo
  <2>1. [conn[c] EXCEPT !.phase = "PENDING"] \in Connection
    BY <1>1, Zenon DEF Connection
  <2>2. CASE conn[c].resv = "none"
    BY <1>5, <1>10, <2>1, <2>2 DEF HandleConnection
  <2>3. CASE conn[c].resv # "none"
    <3>1. \E k : conn' = [conn EXCEPT ![c] = k]
      BY <1>10, Zenon DEF HandleConnection
    <3>2. QED
      BY <1>3, <2>3, <3>1, Zenon
  <2>4. QED
    BY <2>2, <2>3
<1>11. ASSUME NEW wellFormed \in PayloadResults, ReceiveAuth(c, wellFormed)
       PROVE  \A d \in Conns : conn'[d].resv # "none" => conn[d].resv # "none" \/ d \notin tick'.todo
  <2>1. CASE DisconnectSilent(c)
    BY <1>1, <1>5, <2>1, Zenon DEF DisconnectSilent
  <2>2. CASE ~DisconnectSilent(c)
    <3>1. PICK k : k = [conn[c] EXCEPT !.phase = "VERIFYING", !.verify = "reading"]
      BY Zenon
    <3>2. k.resv = conn[c].resv
      BY <1>1, <3>1, Zenon DEF Connection
    <3>3. conn' = [conn EXCEPT ![c] = k]
      BY <1>11, <2>2, <3>1 DEF ReceiveAuth
    <3>4. QED
      BY <1>3, <3>2, <3>3, Zenon
  <2>3. QED
    BY <2>1, <2>2
<1>12. CASE VerifyRead(c)
  <2>1. PICK v \in Verdicts(c) : conn' = [conn EXCEPT ![c] = [conn[c] EXCEPT !.verify = v]]
    BY <1>12, Zenon DEF VerifyRead
  <2>2. PICK k : k = [conn[c] EXCEPT !.verify = v]
    BY Zenon
  <2>3. k.resv = conn[c].resv
    BY <1>1, <2>2, Zenon DEF Connection
  <2>4. QED
    BY <1>2, <1>3, <2>1, <2>2, <2>3, Zenon
<1>13. CASE AuthFails(c)
  <2>1. PICK k : k = [conn[c] EXCEPT !.verify = "none"]
    BY Zenon
  <2>2. k \in Connection /\ k.resv = conn[c].resv
    BY <1>1, <2>1, Zenon DEF Connection
  <2>3. conn' = [conn EXCEPT ![c] = Disconnected(k)] \/ conn' = [conn EXCEPT ![c] = k]
    BY <1>13, <2>1, Zenon DEF AuthFails
  <2>4. QED
    BY <1>2, <1>3, <1>5, <2>2, <2>3, Zenon
<1>14. CASE AdmitExpired(c) \/ Admit(c)
  <2>1. \E k : conn' = [conn EXCEPT ![c] = k]
    BY <1>14, Zenon DEF AdmitExpired, Admit
  <2>2. conn[c].resv # "none"
    BY <1>14 DEF AdmitExpired, Admit, AuthSucceeds
  <2>3. QED
    BY <1>2, <1>3, <2>1, <2>2, Zenon
<1>15. QED
  BY <1>2, <1>4, <1>6, <1>7, <1>8, <1>9, <1>10, <1>11, <1>12, <1>13, <1>14 DEF SocketStep

LEMMA NextTodo == Inv /\ TodoInv /\ Inv' /\ [Next]_vars => TodoInv'
<1> SUFFICES ASSUME Inv, TodoInv, Inv', [Next]_vars, NEW d \in Conns, d \in tick'.todo
             PROVE  conn'[d].resv = "none"
  BY DEF TodoInv
<1>1. room' = {c \in Conns : conn'[c].principal} /\ Sound(conn[d])' /\ Sound(conn[d])
  BY DEF Inv, AdminCountExact, ConnsSound
<1>2. d \in room' => conn'[d].resv = "none"
  BY <1>1 DEF Sound
<1>3. d \in tick.todo => conn[d].resv = "none"
  BY DEF TodoInv
<1>4. CASE UNCHANGED vars
  BY <1>3, <1>4 DEF vars
<1>5. ASSUME NEW c \in Conns, SocketStep(c) PROVE conn'[d].resv = "none"
  BY <1>2, <1>3, <1>5, SocketTodo
<1>6. ASSUME NEW c \in Conns, Revalidate(c) PROVE conn'[d].resv = "none"
  <2>1. d \in tick.todo
    BY <1>6 DEF Revalidate
  <2>2. conn' = conn \/ conn' = [conn EXCEPT ![c] = Disconnected(conn[c])]
    BY <1>6 DEF Revalidate, DisconnectSilent
  <2>3. Disconnected(conn[c]).resv = "none"
    BY DisconnectedFields, Zenon DEF Inv, Typed
  <2>4. QED
    BY <1>3, <2>1, <2>2, <2>3, Zenon DEF Inv, Typed
<1>7. ASSUME NEW c \in Conns, AccountChanges(c) PROVE conn'[d].resv = "none"
  BY <1>3, <1>7 DEF AccountChanges
<1>8. CASE Shutdown
  <2>1. conn'[d] = IF conn[d].resv # "none" THEN CloseRaw(Closed(conn[d])) ELSE Closed(conn[d])
    BY <1>8, Zenon DEF Shutdown
  <2>2. Closed(conn[d]) \in Connection /\ Closed(conn[d]).resv = "none"
    BY ClosedFields, Zenon DEF Inv, Typed
  <2>3. QED
    BY <2>1, <2>2, CloseRawFields, Zenon
<1>9. CASE \/ IntervalFires \/ ImmediateFires \/ EndRevalidation
           \/ \E snapshot \in Snapshots : Collect(snapshot)
  <2>1. UNCHANGED <<conn, room>>
    BY <1>9, Zenon DEF IntervalFires, ImmediateFires, EndRevalidation, Collect
  <2>2. tick' = tick \/ tick'.todo = room' \/ tick'.todo = {}
    <3>1. \A pl : BeginTick(pl) => tick'.todo = room' \/ tick'.todo = {}
      BY <2>1 DEF BeginTick, NoTick
    <3>2. CASE IntervalFires \/ ImmediateFires
      BY <3>1, <3>2, Zenon DEF IntervalFires, ImmediateFires
    <3>3. CASE EndRevalidation \/ \E snapshot \in Snapshots : Collect(snapshot)
      <4>1. \/ tick' = [pc |-> "collect", todo |-> {}] \/ tick' = NoTick
            \/ tick' = [pc |-> "second", todo |-> room]
        BY <3>3, Zenon DEF EndRevalidation, Collect
      <4>2. QED
        BY <2>1, <4>1 DEF NoTick
    <3>4. QED
      BY <1>9, <3>2, <3>3
  <2>3. QED
    BY <1>2, <1>3, <2>1, <2>2
<1>10. QED
  BY <1>4, <1>5, <1>6, <1>7, <1>8, <1>9 DEF Next

LEMMA InitTodo == Init => TodoInv
BY DEF Init, TodoInv, NoTick

LEMMA InvHolds == Spec => [](Inv /\ TodoInv)
<1>1. Inv /\ TodoInv /\ [Next]_vars => Inv' /\ TodoInv'
  BY NextInv, NextTodo
<1>2. QED
  BY <1>1, InitInv, InitTodo, PTL DEF Spec

(* For any number of connections the administrators are counted right,      *)
(* however often and in whatever order cleanupSocket runs.                  *)
THEOREM AdminsCounted == Spec => []AdminCountExact
<1>1. Inv => AdminCountExact
  BY DEF Inv
<1>2. QED
  BY <1>1, InvHolds, PTL

(* For any number of connections the poll runs exactly while one of an      *)
(* administrator is counted.                                                *)
THEOREM PollRunsForAdmins == Spec => []PollFollowsAdmins
<1>1. Inv => PollFollowsAdmins
  BY DEF Inv
<1>2. QED
  BY <1>1, InvHolds, PTL

(* For any cap and any number of connections, no more than PENDING_CAP      *)
(* transports stay open that were never admitted, and the admission window  *)
(* of each is still running: a transport is never left open by the release  *)
(* of its reservation, whoever releases it.                                 *)
THEOREM ReservationsCapped == Spec => []PendingCapped
<1>1. Inv => PendingCapped
  <2> SUFFICES ASSUME Inv PROVE Cardinality(Waiting) <= Cap /\ \A c \in Waiting : conn[c].window
    BY DEF PendingCapped
  <2>1. \A c \in Waiting : conn[c].resv # "none" /\ conn[c].window
    BY DEF Inv, ConnsSound, Sound, Waiting
  <2>2. Waiting \in SUBSET Reservations /\ Reservations \in SUBSET Conns
    BY <2>1 DEF Waiting, Reservations
  <2>3. Cardinality(Waiting) <= Cap
    BY <2>2, FewerReservations DEF Inv
  <2>4. QED
    BY <2>1, <2>3
<1>2. QED
  BY <1>1, InvHolds, PTL

-----------------------------------------------------------------------------
(* The check before a broadcast                                            *)

(* A socket with a principal is past its verification, so that only a new   *)
(* connection can come to the room with a verdict that was read before.     *)
Vetted(k) == k.principal => k.phase = "AUTHENTICATED" /\ k.verify = "none"

(* While the second revalidateAdmins runs, the sockets in the room whose    *)
(* accounts it must find ineligible are still ahead of it.                  *)
CheckInv ==
  /\ \A c \in Conns : Vetted(conn[c]) /\ (conn[c].verify = "eligible" => c \notin barred)
  /\ barred \cap eligible = {}
  /\ tick.pc = "second" => room \cap barred \subseteq tick.todo

(* A step of one socket, which may come to the room unless it is barred. *)
LEMMA SocketCheck ==
  ASSUME Inv, CheckInv, NEW c \in Conns, NEW k, Vetted(k), k.verify = "eligible" => c \notin barred,
         conn' = [conn EXCEPT ![c] = k], UNCHANGED <<eligible, barred>>,
         room' \subseteq room \/ (room' \subseteq room \cup {c} /\ c \notin barred),
         tick'.pc = "second" =>
           tick.pc = "second" /\ \A d \in tick.todo : d \in tick'.todo \/ d \notin room' \cap barred
  PROVE  CheckInv'
<1>1. ASSUME NEW d \in Conns PROVE Vetted(conn'[d]) /\ (conn'[d].verify = "eligible" => d \notin barred)
  <2>1. CASE d = c
    BY <2>1 DEF Inv, Typed
  <2>2. CASE d # c
    BY <2>2 DEF Inv, Typed, CheckInv
  <2>3. QED
    BY <2>1, <2>2
<1>2. tick'.pc = "second" => room' \cap barred \subseteq tick'.todo
  BY DEF CheckInv
<1>3. QED
  BY <1>1, <1>2, Zenon DEF CheckInv, Vetted

(* A step that closes a socket. *)
LEMMA ClosedCheck ==
  ASSUME Inv, CheckInv, NEW c \in Conns, NEW k, ~k.principal,
         k.verify = conn[c].verify \/ k.verify = "none",
         conn' = [conn EXCEPT ![c] = k], UNCHANGED <<tick, eligible, barred>>,
         room' \subseteq room
  PROVE  CheckInv'
<1>1. Vetted(k) /\ (k.verify = "eligible" => c \notin barred)
  BY DEF Vetted, CheckInv
<1>2. QED
  BY <1>1, SocketCheck, Zenon

LEMMA SocketStepCheck ==
  ASSUME Inv, CheckInv, NEW c \in Conns, SocketStep(c)
  PROVE  CheckInv'
<1>1. conn[c] \in Connection /\ Vetted(conn[c]) /\ (conn[c].verify = "eligible" => c \notin barred)
  BY DEF Inv, Typed, CheckInv
<1>2. ASSUME DisconnectSilent(c), UNCHANGED <<tick, eligible, barred>> PROVE CheckInv'
  <2>1. PICK k : k = Disconnected(conn[c])
    BY Zenon
  <2>2. k.principal = FALSE /\ k.verify = conn[c].verify
    BY <1>1, <2>1, DisconnectedFields, Zenon
  <2>3. conn' = [conn EXCEPT ![c] = k] /\ room' \subseteq room
    BY <1>2, <2>1 DEF DisconnectSilent, Cleanup
  <2>4. QED
    BY <1>2, <2>2, <2>3, ClosedCheck, Zenon
<1>3. CASE Reserve(c)
  <2>1. PICK k : k = IF RoomForReservation
                     THEN [NoConnection EXCEPT !.raw = "open", !.resv = "held", !.window = TRUE]
                     ELSE [NoConnection EXCEPT !.raw = "closing"]
    BY Zenon
  <2>2. ~k.principal /\ k.verify = "none"
    BY <2>1 DEF NoConnection
  <2>3. QED
    BY <1>3, <2>1, <2>2, ClosedCheck, Zenon DEF Reserve
<1>4. CASE DeadlinePasses(c) \/ TokenExpires(c)
  BY <1>2, <1>4 DEF DeadlinePasses, TokenExpires
<1>5. CASE TransportCloses(c)
  <2>1. PICK r : r = Closed(conn[c])
    BY Zenon
  <2>2. r \in Connection /\ r.principal = FALSE /\ r.verify = conn[c].verify
    BY <1>1, <2>1, ClosedFields, Zenon
  <2>3. PICK k : k = [r EXCEPT !.raw = "closed"]
    BY Zenon
  <2>4. k.principal = FALSE /\ k.verify = conn[c].verify
    BY <2>2, <2>3, Zenon DEF Connection
  <2>5. conn' = [conn EXCEPT ![c] = k] /\ room' \subseteq room /\ UNCHANGED <<tick, eligible, barred>>
    BY <1>5, <2>1, <2>3 DEF TransportCloses, Cleanup
  <2>6. QED
    BY <2>4, <2>5, ClosedCheck, Zenon
<1>6. CASE ReservationExpires(c)
  <2>1. PICK r : r = Release(conn[c])
    BY Zenon
  <2>2. PICK k : k = CloseRaw(r)
    BY Zenon
  <2>3. r \in Connection /\ r.principal = conn[c].principal /\ r.verify = conn[c].verify /\ r.phase = conn[c].phase
    BY <1>1, <2>1, ReleaseFields, Zenon
  <2>4. k.principal = conn[c].principal /\ k.verify = conn[c].verify /\ k.phase = conn[c].phase
    BY <2>2, <2>3, CloseRawFields, Zenon
  <2>5. Vetted(k) /\ (k.verify = "eligible" => c \notin barred)
    BY <1>1, <2>4 DEF Vetted
  <2>6. conn' = [conn EXCEPT ![c] = k] /\ UNCHANGED <<room, tick, eligible, barred>>
    BY <1>6, <2>1, <2>2 DEF ReservationExpires
  <2>7. QED
    BY <2>5, <2>6, SocketCheck, Zenon
<1>7. CASE HandleDisconnect(c)
  <2>1. PICK r : r = Closed(conn[c])
    BY Zenon
  <2>2. r \in Connection /\ r.principal = FALSE /\ r.verify = conn[c].verify
    BY <1>1, <2>1, ClosedFields, Zenon
  <2>3. PICK k : k = IF conn[c].principal THEN r ELSE CloseRaw(r)
    BY Zenon
  <2>4. k.principal = FALSE /\ k.verify = conn[c].verify
    BY <2>2, <2>3, CloseRawFields, Zenon
  <2>5. conn' = [conn EXCEPT ![c] = k] /\ room' \subseteq room /\ UNCHANGED <<tick, eligible, barred>>
    BY <1>7, <2>1, <2>3 DEF HandleDisconnect, Cleanup
  <2>6. QED
    BY <2>4, <2>5, ClosedCheck, Zenon
<1>8. ASSUME NEW cookie \in CookieResults, HandleConnection(c, cookie) PROVE CheckInv'
  <2>1. UNCHANGED <<tick, eligible, barred>> /\ conn[c].phase = "none" /\ room' \subseteq room
    BY <1>8, Zenon DEF HandleConnection, Cleanup
  <2>2. ~conn[c].principal
    BY <1>1, <2>1 DEF Vetted
  <2>3. CASE conn' = [conn EXCEPT ![c] = Disconnected([conn[c] EXCEPT !.phase = "PENDING"])]
    <3>1. PICK r : r = [conn[c] EXCEPT !.phase = "PENDING"]
      BY Zenon
    <3>2. r \in Connection /\ r.verify = conn[c].verify
      BY <1>1, <3>1, Zenon DEF Connection
    <3>3. PICK k : k = Disconnected(r)
      BY Zenon
    <3>4. k.principal = FALSE /\ k.verify = conn[c].verify
      BY <3>2, <3>3, DisconnectedFields, Zenon
    <3>5. QED
      BY <2>1, <2>3, <3>1, <3>3, <3>4, ClosedCheck, Zenon
  <2>4. CASE cookie = "token" /\ conn' = [conn EXCEPT ![c] =
               [Claim(conn[c]) EXCEPT !.deadline = TRUE, !.phase = "VERIFYING", !.verify = "reading"]]
    <3>1. PICK k : k = [Claim(conn[c]) EXCEPT !.deadline = TRUE, !.phase = "VERIFYING", !.verify = "reading"]
      BY Zenon
    <3>2. ~k.principal /\ k.verify = "reading"
      BY <1>1, <2>2, <3>1, ZenonT(60) DEF Connection, Claim
    <3>3. QED
      BY <2>1, <2>4, <3>1, <3>2, SocketCheck, Zenon DEF Vetted
  <2>5. CASE cookie # "token" /\ conn' = [conn EXCEPT ![c] =
               [Claim(conn[c]) EXCEPT !.deadline = TRUE, !.phase = "PENDING", !.listening = TRUE]]
    <3>1. PICK k : k = [Claim(conn[c]) EXCEPT !.deadline = TRUE, !.phase = "PENDING", !.listening = TRUE]
      BY Zenon
    <3>2. ~k.principal /\ k.verify = conn[c].verify
      BY <1>1, <2>2, <3>1, ZenonT(60) DEF Connection, Claim
    <3>3. QED
      BY <2>1, <2>5, <3>1, <3>2, ClosedCheck, Zenon
  <2>6. QED
    BY <1>8, <2>3, <2>4, <2>5, Zenon DEF HandleConnection
<1>9. ASSUME NEW wellFormed \in PayloadResults, ReceiveAuth(c, wellFormed) PROVE CheckInv'
  <2>1. UNCHANGED <<tick, eligible, barred>>
    BY <1>9 DEF ReceiveAuth
  <2>2. CASE DisconnectSilent(c)
    BY <1>2, <2>1, <2>2
  <2>3. CASE ~DisconnectSilent(c)
    <3>1. /\ conn[c].phase = "PENDING" /\ room' = room
          /\ conn' = [conn EXCEPT ![c] = [conn[c] EXCEPT !.phase = "VERIFYING", !.verify = "reading"]]
      BY <1>9, <2>3 DEF ReceiveAuth
    <3>2. PICK k : k = [conn[c] EXCEPT !.phase = "VERIFYING", !.verify = "reading"]
      OBVIOUS
    <3>3. ~k.principal /\ k.verify # "eligible"
      BY <1>1, <3>1, <3>2 DEF Connection, Vetted
    <3>4. QED
      BY <2>1, <3>1, <3>2, <3>3, SocketCheck, Zenon DEF Vetted
  <2>4. QED
    BY <2>2, <2>3
<1>10. CASE VerifyRead(c)
  <2>1. PICK v \in Verdicts(c) : conn' = [conn EXCEPT ![c] = [conn[c] EXCEPT !.verify = v]]
    BY <1>10, Zenon DEF VerifyRead
  <2>2. conn[c].verify = "reading" /\ UNCHANGED <<room, tick, eligible, barred>>
    BY <1>10 DEF VerifyRead
  <2>3. PICK k : k = [conn[c] EXCEPT !.verify = v]
    BY Zenon
  <2>4. ~k.principal /\ k.verify = v
    BY <1>1, <2>2, <2>3 DEF Connection, Vetted
  <2>5. v = "eligible" => c \notin barred
    BY <2>1 DEF Verdicts, CheckInv
  <2>6. QED
    BY <2>1, <2>2, <2>3, <2>4, <2>5, SocketCheck, Zenon DEF Vetted
<1>11. CASE AuthFails(c)
  <2>1. UNCHANGED <<tick, eligible, barred>> /\ room' \subseteq room
    BY <1>11, Zenon DEF AuthFails, Cleanup
  <2>2. PICK r : r = [conn[c] EXCEPT !.verify = "none"]
    BY Zenon
  <2>3. r \in Connection /\ r.verify = "none" /\ Vetted(r)
    BY <1>1, <2>2 DEF Connection, Vetted
  <2>4. PICK k : k = Disconnected(r)
    BY Zenon
  <2>5. k.principal = FALSE /\ k.verify = "none"
    BY <2>3, <2>4, DisconnectedFields, Zenon
  <2>6. conn' = [conn EXCEPT ![c] = k] \/ conn' = [conn EXCEPT ![c] = r]
    BY <1>11, <2>2, <2>4, Zenon DEF AuthFails
  <2>7. QED
    BY <2>1, <2>3, <2>5, <2>6, ClosedCheck, SocketCheck, Zenon
<1>12. CASE AdmitExpired(c)
  <2>1. PICK r : r = Authenticated(conn[c])
    BY Zenon
  <2>2. r \in Connection /\ r.verify = "none"
    BY <1>1, <2>1, AuthenticatedFields, Zenon
  <2>3. PICK k : k = Disconnected(r)
    BY Zenon
  <2>4. k.principal = FALSE /\ k.verify = "none"
    BY <2>2, <2>3, DisconnectedFields, Zenon
  <2>5. conn' = [conn EXCEPT ![c] = k] /\ UNCHANGED <<room, tick, eligible, barred>>
    BY <1>12, <2>1, <2>3 DEF AdmitExpired
  <2>6. QED
    BY <2>4, <2>5, ClosedCheck, Zenon
<1>13. CASE Admit(c)
  <2>1. PICK k : k = Authenticated(conn[c])
    BY Zenon
  <2>2. k.verify = "none" /\ k.phase = "AUTHENTICATED" /\ conn' = [conn EXCEPT ![c] = k]
    BY <1>1, <1>13, <2>1, AuthenticatedFields, Zenon DEF Admit
  <2>3. c \notin barred /\ room' = room \cup {c} /\ UNCHANGED <<eligible, barred>>
    BY <1>1, <1>13 DEF Admit, AuthSucceeds
  <2>4. tick' = tick \/ tick'.pc = "first"
    BY <1>13 DEF Admit
  <2>5. QED
    BY <2>2, <2>3, <2>4, SocketCheck, Zenon DEF Vetted
<1>14. QED
  BY <1>3, <1>4, <1>7, <1>8, <1>9, <1>10, <1>11, <1>13, <1>5, <1>6, <1>12 DEF SocketStep

LEMMA NextCheck == Inv /\ CheckInv /\ [Next]_vars => CheckInv'
<1> SUFFICES ASSUME Inv, CheckInv, [Next]_vars PROVE CheckInv'
  OBVIOUS
<1>1. ASSUME UNCHANGED <<conn, eligible, barred>>, room' \subseteq room,
             tick'.pc = "second" => tick'.pc = tick.pc /\ tick'.todo = tick.todo
      PROVE  CheckInv'
  BY <1>1 DEF CheckInv, Vetted
<1>2. ASSUME NEW c \in Conns, Revalidate(c) PROVE CheckInv'
  <2>1. PICK v \in Verdicts(c) :
          IF v = "eligible" THEN UNCHANGED <<conn, room, adminCount, poll>>
                            ELSE DisconnectSilent(c)
    BY <1>2 DEF Revalidate
  <2>2. /\ tick' = [tick EXCEPT !.todo = tick.todo \ {c}] /\ UNCHANGED <<eligible, barred>>
    BY <1>2 DEF Revalidate
  <2>3. tick'.pc = "second" =>
          tick.pc = "second" /\ \A d \in tick.todo : d \in tick'.todo \/ d = c
    BY <2>2 DEF Inv, Typed, Tick
  <2>4. CASE v = "eligible"
    <3>1. c \notin barred /\ UNCHANGED <<conn, room>>
      BY <2>1, <2>4 DEF Verdicts, CheckInv
    <3>2. PICK k : k = conn[c]
      OBVIOUS
    <3>3. conn' = [conn EXCEPT ![c] = k]
      BY <3>1, <3>2 DEF Inv, Typed
    <3>4. QED
      BY <2>2, <2>3, <3>1, <3>2, <3>3, SocketCheck, Zenon DEF CheckInv
  <2>5. CASE v # "eligible"
    <3>1. DisconnectSilent(c)
      BY <2>1, <2>5
    <3>2. PICK k : k = Disconnected(conn[c])
      BY Zenon
    <3>3. conn' = [conn EXCEPT ![c] = k] /\ room' = room \ {c}
      BY <3>1, <3>2 DEF DisconnectSilent, Cleanup
    <3>4. ~k.principal /\ k.verify = conn[c].verify
      BY <3>2, DisconnectedFields, Zenon DEF Inv, Typed
    <3>5. QED
      BY <2>2, <2>3, <3>3, <3>4, SocketCheck DEF CheckInv, Vetted
  <2>6. QED
    BY <2>4, <2>5
<1>3. ASSUME NEW c \in Conns, AccountChanges(c) PROVE CheckInv'
  BY <1>3 DEF AccountChanges, CheckInv, Vetted
<1>4. CASE Shutdown
  <2>1. ASSUME NEW d \in Conns PROVE ~conn'[d].principal /\ conn'[d].verify = conn[d].verify
    <3>1. PICK r : r = Closed(conn[d])
      BY Zenon
    <3>2. r \in Connection /\ r.principal = FALSE /\ r.verify = conn[d].verify
      BY <3>1, ClosedFields, Zenon DEF Inv, Typed
    <3>3. conn'[d] = IF conn[d].resv # "none" THEN CloseRaw(r) ELSE r
      BY <1>4, <3>1, Zenon DEF Shutdown
    <3>4. QED
      BY <3>2, <3>3, CloseRawFields, Zenon
  <2>2. room' = {} /\ UNCHANGED <<tick, eligible, barred>>
    BY <1>4 DEF Shutdown
  <2>3. QED
    BY <2>1, <2>2 DEF CheckInv, Vetted
<1>5. CASE IntervalFires \/ ImmediateFires \/ EndRevalidation
  <2>1. UNCHANGED <<conn, eligible, barred, room>> /\ (tick' = tick \/ tick'.pc # "second")
    BY <1>5 DEF IntervalFires, ImmediateFires, EndRevalidation, BeginTick, NoTick
  <2>2. QED
    BY <1>1, <2>1
<1>6. ASSUME NEW snapshot \in Snapshots, Collect(snapshot) PROVE CheckInv'
  <2>1. UNCHANGED <<conn, room, eligible>>
    BY <1>6 DEF Collect
  <2>2. CASE tick' = NoTick /\ barred' = barred
    BY <1>1, <2>1, <2>2 DEF NoTick
  <2>3. CASE tick' = [pc |-> "second", todo |-> room] /\ barred' = room \ eligible
    <3>1. ASSUME NEW d \in Conns, conn[d].verify = "eligible" PROVE d \notin room
      BY <3>1 DEF Inv, AdminCountExact, CheckInv, Vetted
    <3>2. QED
      BY <2>1, <2>3, <3>1 DEF CheckInv, Vetted
  <2>4. QED
    BY <1>6, <2>2, <2>3 DEF Collect
<1>7. CASE UNCHANGED vars
  BY <1>1, <1>7 DEF vars
<1>8. QED
  BY <1>2, <1>3, <1>4, <1>5, <1>6, <1>7, SocketStepCheck DEF Next

LEMMA InitCheck == Init => CheckInv
BY DEF Init, CheckInv, Vetted, NoConnection, NoTick

(* For any number of connections, no snapshot is broadcast to a socket whose *)
(* account revalidateAdmins had to find ineligible: however sockets come and *)
(* go, and connections are made again, while the check before the broadcast *)
(* is under way.                                                            *)
THEOREM BroadcastsRevalidated == Spec => BroadcastRevalidated
<1> DEFINE Checked == tick.pc = "second" /\ tick'.pc = "idle" /\ poll'.cache => room \cap barred = {}
<1>1. Inv /\ CheckInv /\ [Next]_vars => [Checked]_vars
  <2> SUFFICES ASSUME Inv, CheckInv, Next, tick.pc = "second", tick'.pc = "idle"
               PROVE  room \cap barred = {}
    OBVIOUS
  <2>1. CASE EndRevalidation
    BY <2>1 DEF EndRevalidation, CheckInv
  <2>2. CASE tick'.pc = tick.pc
    BY <2>2
  <2>3. ASSUME NEW c \in Conns, SocketStep(c) PROVE tick' = tick
    BY <2>3, Zenon DEF SocketStep, Reserve, TransportCloses, HandleDisconnect, ReservationExpires, DeadlinePasses, TokenExpires,
                HandleConnection, ReceiveAuth, VerifyRead, AuthFails, AdmitExpired, Admit
  <2>4. ASSUME NEW c \in Conns, Revalidate(c) PROVE tick'.pc = tick.pc
    BY <2>4 DEF Revalidate
  <2>5. ASSUME NEW c \in Conns, AccountChanges(c) PROVE tick' = tick
    BY <2>5 DEF AccountChanges
  <2>6. IntervalFires \/ ImmediateFires \/ Shutdown => tick' = tick
    BY DEF IntervalFires, ImmediateFires, Shutdown
  <2>7. \A snapshot \in Snapshots : ~Collect(snapshot)
    BY DEF Collect
  <2>8. QED
    BY <2>1, <2>2, <2>3, <2>4, <2>5, <2>6, <2>7 DEF Next
<1>2. QED
  BY <1>1, InitCheck, NextCheck, InvHolds, PTL DEF Spec, BroadcastRevalidated
=============================================================================
