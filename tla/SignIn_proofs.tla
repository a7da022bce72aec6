---------------------------- MODULE SignIn_proofs ----------------------------
(***************************************************************************)
(* Proofs about SignIn, for every number of sources, of requests in flight  *)
(* and of map entries, and for every limit and window.                      *)
(***************************************************************************)
EXTENDS SignIn, FiniteSetTheorems, WellFoundedInduction, SequenceTheorems, TLAPS

-----------------------------------------------------------------------------
(* prune, which is a recursion over the map.                               *)

(* Of a set of naturals one is the smallest: the form in which induction    *)
(* is used below.                                                           *)
LEMMA SmallestNat ==
  ASSUME NEW S, S \subseteq Nat, S # {}
  PROVE  \E m \in S : \A n \in S : m <= n
<1> DEFINE less == {ss \in Nat \X Nat : ss[1] < ss[2]}
<1>1. IsWellFoundedOn(less, Nat)
  BY NatLessThanWellFounded DEF OpToRel
<1>2. PICK m \in S : \A n \in S : <<n, m>> \notin less
  <2> HIDE DEF less
  <2>1. QED
    BY <1>1, WFMin, Zenon
<1>3. ASSUME NEW n \in S PROVE m <= n
  <2>1. n \in Nat /\ m \in Nat
    OBVIOUS
  <2>2. n < m => <<n, m>> \in less
    BY <2>1
  <2>3. QED
    BY <1>2, <2>1, <2>2
<1>4. QED
  BY <1>3

(* One turn of prune's loop. *)
Turn(kept, i) ==
  IF pairs[i].last < FailureWindow THEN Append(kept, pairs[i]) ELSE kept
Filters(g, n) == g = [i \in 0..n |-> IF i = 0 THEN <<>> ELSE Turn(g[i - 1], i)]

LEMMA PruneUnfolds ==
  Prune = (CHOOSE g : Filters(g, Len(pairs)))[Len(pairs)]
BY DEF Prune, Filters, Turn

LEMMA FiltersExist ==
  ASSUME NEW n \in Nat
  PROVE  \E g : Filters(g, n)
<1> DEFINE F == {m \in Nat : ~\E g : Filters(g, m)}
<1>1. SUFFICES ASSUME F # {} PROVE FALSE
  OBVIOUS
<1>2. PICK m \in F : \A k \in F : m <= k
  <2>1. F \subseteq Nat
    OBVIOUS
  <2> HIDE DEF F
  <2>2. QED
    BY <1>1, <2>1, SmallestNat, Zenon
<1>3. CASE m = 0
  <2>1. Filters([i \in 0..0 |-> <<>>], 0)
    BY DEF Filters
  <2>2. QED
    BY <1>2, <1>3, <2>1
<1>4. CASE m # 0
  <2>1. m - 1 \in Nat /\ m - 1 \notin F
    BY <1>2, <1>4
  <2>2. PICK g : Filters(g, m - 1)
    BY <2>1
  <2> DEFINE h == [i \in 0..m |-> IF i = m THEN Turn(g[m - 1], m) ELSE g[i]]
  <2>3. ASSUME NEW i \in 0..m
        PROVE  h[i] = IF i = 0 THEN <<>> ELSE Turn(h[i - 1], i)
    <3>1. CASE i = m
      BY <1>2, <1>4, <3>1
    <3>2. CASE i # m
      <4>1. i \in 0..(m - 1) /\ h[i] = g[i] /\ (i # 0 => h[i - 1] = g[i - 1])
        BY <1>2, <2>1, <2>3, <3>2
      <4>2. g[i] = IF i = 0 THEN <<>> ELSE Turn(g[i - 1], i)
        BY <2>2, <4>1 DEF Filters
      <4>3. QED
        BY <4>1, <4>2
    <3>3. QED
      BY <3>1, <3>2
  <2>4. h = [i \in 0..m |-> IF i = 0 THEN <<>> ELSE Turn(h[i - 1], i)]
    BY <2>3
  <2>5. Filters(h, m)
    BY <2>4 DEF Filters
  <2>6. QED
    BY <1>2, <2>5
<1>5. QED
  BY <1>3, <1>4

(* No two entries are of one pair. *)
Distinct(entries) ==
  \A i, j \in DOMAIN entries : entries[i].source = entries[j].source => i = j

(* The entries k are what remains of the first n. *)
Remains(k, n) ==
  /\ k \in Seq(PairEntry) /\ Len(k) <= n
  /\ \A a \in 1..Len(k) : \E b \in 1..n : k[a] = pairs[b]
  /\ \A a, c \in 1..Len(k) : k[a].source = k[c].source => a = c
  /\ \A b \in 1..n : pairs[b].last < FailureWindow => \E a \in 1..Len(k) : k[a] = pairs[b]

LEMMA TurnRemains ==
  ASSUME pairs \in Seq(PairEntry), Distinct(pairs),
         NEW n \in 1..Len(pairs), NEW k, Remains(k, n - 1)
  PROVE  Remains(Turn(k, n), n)
<1>1. /\ k \in Seq(PairEntry) /\ Len(k) \in Nat /\ Len(pairs) \in Nat /\ n \in Nat
      /\ pairs[n] \in PairEntry /\ DOMAIN pairs = 1..Len(pairs) /\ Len(k) <= n - 1
  BY DEF Remains
<1>2. CASE pairs[n].last < FailureWindow
  <2> DEFINE m == Append(k, pairs[n])
  <2>1. /\ m \in Seq(PairEntry) /\ Len(m) = Len(k) + 1
        /\ \A a \in 1..Len(k) : m[a] = k[a]
        /\ m[Len(k) + 1] = pairs[n]
    BY <1>1, AppendProperties
  <2> HIDE DEF m
  <2>2. ASSUME NEW a \in 1..Len(m) PROVE \E b \in 1..n : m[a] = pairs[b]
    <3>1. CASE a = Len(k) + 1
      BY <1>1, <2>1, <3>1
    <3>2. CASE a # Len(k) + 1
      <4>1. a \in 1..Len(k)
        BY <1>1, <2>1, <2>2, <3>2
      <4>2. QED
        BY <1>1, <2>1, <4>1 DEF Remains
    <3>3. QED
      BY <3>1, <3>2
  <2>3. ASSUME NEW a \in 1..Len(k) PROVE k[a].source # pairs[n].source
    <3>1. PICK b \in 1..(n - 1) : k[a] = pairs[b]
      BY DEF Remains
    <3>2. b \in DOMAIN pairs /\ n \in DOMAIN pairs /\ b # n
      BY <1>1, <3>1
    <3>3. QED
      BY <3>1, <3>2 DEF Distinct
  <2>4. ASSUME NEW a \in 1..Len(m), NEW c \in 1..Len(m), m[a].source = m[c].source
        PROVE  a = c
    <3>1. a \in 1..Len(k) \/ a = Len(k) + 1
      BY <1>1, <2>1
    <3>2. c \in 1..Len(k) \/ c = Len(k) + 1
      BY <1>1, <2>1
    <3>3. QED
      BY <2>1, <2>3, <2>4, <3>1, <3>2, Zenon DEF Remains
  <2>5. ASSUME NEW b \in 1..n, pairs[b].last < FailureWindow
        PROVE  \E a \in 1..Len(m) : m[a] = pairs[b]
    <3>1. CASE b = n
      BY <1>1, <2>1, <3>1
    <3>2. CASE b # n
      <4>1. PICK a \in 1..Len(k) : k[a] = pairs[b]
        BY <1>1, <2>5, <3>2 DEF Remains
      <4>2. QED
        BY <1>1, <2>1, <4>1
    <3>3. QED
      BY <3>1, <3>2
  <2>6. Remains(m, n)
    BY <1>1, <2>1, <2>2, <2>4, <2>5 DEF Remains
  <2>7. QED
    BY <1>2, <2>6 DEF Turn, m
<1>3. CASE ~(pairs[n].last < FailureWindow)
  <2>1. \A b \in 1..n : b = n \/ b \in 1..(n - 1)
    BY <1>1
  <2>2. 1..(n - 1) \subseteq 1..n /\ Len(k) <= n
    BY <1>1
  <2>3. Remains(k, n)
    BY <1>1, <1>3, <2>1, <2>2 DEF Remains
  <2>4. QED
    BY <1>3, <2>3 DEF Turn
<1>4. QED
  BY <1>2, <1>3

(* prune invents no entry, leaves no source twice, and keeps every entry    *)
(* whose time is not up.                                                    *)
LEMMA PruneRemains ==
  ASSUME pairs \in Seq(PairEntry), Distinct(pairs)
  PROVE  Remains(Prune, Len(pairs))
<1> DEFINE g == CHOOSE f : Filters(f, Len(pairs))
           F == {i \in Nat : i <= Len(pairs) /\ ~Remains(g[i], i)}
<1>1. Len(pairs) \in Nat
  OBVIOUS
<1>2. Filters(g, Len(pairs))
  BY <1>1, FiltersExist, Zenon
<1>3. Prune = g[Len(pairs)]
  BY PruneUnfolds
<1> HIDE DEF g
<1>4. SUFFICES ASSUME F # {} PROVE FALSE
  BY <1>1, <1>3
<1>5. PICK m \in F : \A k \in F : m <= k
  <2>1. F \subseteq Nat
    OBVIOUS
  <2> HIDE DEF F
  <2>2. QED
    BY <1>4, <2>1, SmallestNat, Zenon
<1>6. m \in 0..Len(pairs)
  BY <1>1, <1>5
<1>7. CASE m = 0
  <2>1. g[0] = <<>>
    BY <1>2, <1>6, <1>7 DEF Filters
  <2>2. Remains(<<>>, 0)
    BY DEF Remains
  <2>3. QED
    BY <1>5, <1>7, <2>1, <2>2
<1>8. CASE m # 0
  <2>1. m \in 1..Len(pairs) /\ m - 1 \in Nat /\ m - 1 <= Len(pairs) /\ m - 1 \notin F
    BY <1>1, <1>5, <1>6, <1>8
  <2>2. g[m] = Turn(g[m - 1], m)
    BY <1>2, <1>6, <1>8 DEF Filters
  <2>3. Remains(g[m - 1], m - 1)
    BY <2>1
  <2>4. Remains(g[m], m)
    BY <2>1, <2>2, <2>3, TurnRemains
  <2>5. QED
    BY <1>5, <2>4
<1>9. QED
  BY <1>7, <1>8

-----------------------------------------------------------------------------
(* bump.                                                                   *)

LEMMA CountedUp ==
  ASSUME NEW x \in PairEntry, NEW n \in 1..Most(PairLimit), 0 \in 0..FailureWindow
  PROVE  /\ [x EXCEPT !.failures = n, !.last = 0] \in PairEntry
         /\ [x EXCEPT !.failures = n, !.last = 0].source = x.source
         /\ [x EXCEPT !.failures = n, !.last = 0].failures = n
BY Zenon DEF PairEntry

(* What bump does to the map: every entry it leaves is one of another pair  *)
(* as it was, or that of the pair in question, begun anew or counted up.    *)
LEMMA BumpEntries ==
  ASSUME NEW e \in Seq(PairEntry), Len(e) <= PairEntries, Distinct(e), NEW s \in Sources,
         Most(PairLimit) \in Nat \ {0},
         \A i \in DOMAIN e : e[i].source = s => e[i].failures < Most(PairLimit)
  PROVE  LET b == Bump(e, s) IN
         /\ b \in Seq(PairEntry) /\ Len(b) <= PairEntries /\ Distinct(b)
         /\ \A a \in DOMAIN b :
              \/ \E i \in DOMAIN e : b[a] = e[i] /\ e[i].source # s
              \/ /\ b[a].source = s
                 /\ b[a].failures = 1 \/ \E i \in DOMAIN e : e[i].source = s /\ b[a].failures = e[i].failures + 1
<1> DEFINE new == [source |-> s, failures |-> 1, first |-> 0, last |-> 0]
           next(x) == IF x.first < FailureWindow
                        THEN [x EXCEPT !.failures = @ + 1, !.last = 0] ELSE new
<1>1. FailureWindow \in Nat /\ PairEntries \in Nat \ {0}
  BY SignInAssumption
<1>2. new \in PairEntry /\ new.source = s /\ new.failures = 1
  BY <1>1 DEF PairEntry
<1>3. ASSUME NEW i \in DOMAIN e, e[i].source = s
      PROVE  /\ next(e[i]) \in PairEntry /\ next(e[i]).source = s
             /\ next(e[i]).failures = 1 \/ next(e[i]).failures = e[i].failures + 1
  <2>1. e[i] \in PairEntry /\ e[i].failures < Most(PairLimit)
    BY <1>3
  <2>2. PICK x \in PairEntry : x = e[i]
    BY <2>1
  <2>3. x.failures + 1 \in 1..Most(PairLimit) /\ 0 \in 0..FailureWindow
    BY <1>1, <2>1, <2>2, SMTT(30) DEF PairEntry
  <2>4. /\ [x EXCEPT !.failures = @ + 1, !.last = 0] \in PairEntry
        /\ [x EXCEPT !.failures = @ + 1, !.last = 0].source = x.source
        /\ [x EXCEPT !.failures = @ + 1, !.last = 0].failures = x.failures + 1
    BY <2>3, CountedUp, Zenon
  <2> HIDE DEF new
  <2>5. QED
    BY <1>2, <1>3, <2>2, <2>4
<1>4. Len(e) \in Nat /\ DOMAIN e = 1..Len(e) /\ \A i \in DOMAIN e : e[i] \in PairEntry
  OBVIOUS
<1>5. CASE \E i \in DOMAIN e : e[i].source = s
  <2> DEFINE b == [i \in DOMAIN e |-> IF e[i].source = s THEN next(e[i]) ELSE e[i]]
  <2>1. Bump(e, s) = b
    BY <1>5, Zenon DEF Bump
  <2> HIDE DEF next
  <2>2. /\ DOMAIN b = DOMAIN e
        /\ \A i \in DOMAIN e : b[i] \in PairEntry /\ b[i].source = e[i].source
    BY <1>3, <1>4
  <2>3. b \in Seq(PairEntry) /\ Len(b) = Len(e)
    BY <1>4, <2>2
  <2>4. Distinct(b)
    BY <2>2 DEF Distinct
  <2>5. ASSUME NEW a \in DOMAIN e
        PROVE  \/ b[a] = e[a] /\ e[a].source # s
               \/ /\ b[a].source = s
                  /\ b[a].failures = 1 \/ (e[a].source = s /\ b[a].failures = e[a].failures + 1)
    BY <1>3
  <2> HIDE DEF b
  <2>6. QED
    BY <2>1, <2>2, <2>3, <2>4, <2>5
<1>6. CASE ~\E i \in DOMAIN e : e[i].source = s
  <2> HIDE DEF new, next
  <2>1. PICK t : t = IF Len(e) = PairEntries THEN Tail(e) ELSE e
    BY Zenon
  <2>2. Bump(e, s) = Append(t, new)
    BY <1>6, <2>1 DEF Bump, new, next
  <2>3. /\ t \in Seq(PairEntry) /\ Len(t) + 1 <= PairEntries /\ DOMAIN t = 1..Len(t)
        /\ Len(t) \in Nat /\ Distinct(t)
        /\ \A a \in 1..Len(t) : \E i \in DOMAIN e : t[a] = e[i] /\ e[i].source # s
    <3>1. CASE Len(e) = PairEntries
      <4>1. /\ t \in Seq(PairEntry) /\ Len(t) = Len(e) - 1
            /\ \A a \in 1..Len(t) : t[a] = e[a + 1]
        BY <1>1, <2>1, <3>1, HeadTailProperties
      <4>2. Len(t) \in Nat /\ DOMAIN t = 1..Len(t)
        BY <4>1
      <4>3. \A a \in 1..Len(t) : a + 1 \in DOMAIN e
        BY <1>4, <4>1, <4>2
      <4>4. Distinct(t)
        BY <4>1, <4>2, <4>3, SMTT(30) DEF Distinct
      <4>5. Len(t) + 1 <= PairEntries
        BY <1>1, <1>4, <3>1, <4>1
      <4>6. \A a \in 1..Len(t) : \E i \in DOMAIN e : t[a] = e[i] /\ e[i].source # s
        BY <1>6, <4>1, <4>3, Zenon
      <4>7. QED
        BY <4>1, <4>2, <4>4, <4>5, <4>6, Zenon
    <3>2. CASE Len(e) # PairEntries
      <4>1. t = e
        BY <2>1, <3>2
      <4>2. Len(e) + 1 <= PairEntries
        <5>1. \A m, n \in Nat : m <= n /\ m # n => m + 1 <= n
          OBVIOUS
        <5>2. QED
          BY <1>1, <1>4, <3>2, <5>1, Zenon
      <4>3. \A a \in 1..Len(e) : \E i \in DOMAIN e : e[a] = e[i] /\ e[i].source # s
        BY <1>4, <1>6
      <4>4. QED
        BY <1>4, <4>1, <4>2, <4>3
    <3>3. QED
      BY <3>1, <3>2
  <2> DEFINE b == Append(t, new)
  <2>4. /\ b \in Seq(PairEntry) /\ Len(b) = Len(t) + 1 /\ b[Len(t) + 1] = new
        /\ \A a \in 1..Len(t) : b[a] = t[a]
    BY <1>2, <2>3, AppendProperties
  <2> HIDE DEF b
  <2>5. DOMAIN b = 1..(Len(t) + 1) /\ \A a \in DOMAIN b : a = Len(t) + 1 \/ a \in 1..Len(t)
    BY <2>3, <2>4
  <2>6. \A a \in 1..Len(t) : t[a].source # s
    BY <2>3
  <2>7. Distinct(b)
    BY <1>2, <2>3, <2>4, <2>5, <2>6 DEF Distinct
  <2>8. QED
    BY <1>2, <2>2, <2>3, <2>4, <2>5, <2>7 DEF b
<1>7. QED
  BY <1>5, <1>6

-----------------------------------------------------------------------------
(* The invariant.  TriesBounded is inductive together with what the         *)
(* handlers know of themselves (Shaped) and with the fact that an entry     *)
(* is locked just when its limit is reached (LimitLocks); what the backup   *)
(* codes say of the enrolment (Enrolled) is inductive with the types alone. *)

Shaped(r) ==
  /\ r.pc = "compare" => r.op = "login" /\ r.source \in Sources
  /\ r.pc = "codes" => r.op \in {"verify", "disable"}
  /\ r.op = "verify" => r.source = NoSource
  /\ r.match => r.codes.left > 0

AllShaped == \A p \in Requests : Shaped(req[p])

(* TriesBounded, entry by entry. *)
PairsBounded ==
  \A i \in DOMAIN pairs :
    pairs[i].failures + Cardinality(Comparing("login", pairs[i].source)) <= Most(PairLimit)
CodesBounded == failure.failures + Cardinality(Comparing("verify", NoSource)) <= Most(CodeLimit)

LimitLocks == failure.failures >= CodeLimit <=> failure.locked

Enrolled ==
  /\ totp.enabled <=> totp.codes.batch # NoBatch
  /\ totp.enabled => totp.codes.batch = proved.batch

(* The groups of conjuncts that a step can disturb separately. *)
PairsInv ==
  /\ pairs \in Seq(PairEntry) /\ Len(pairs) <= PairEntries /\ Distinct(pairs)
  /\ PairsBounded
CodesInv == failure \in CodeEntry /\ CodesBounded /\ LimitLocks
TotpInv ==
  /\ totp \in Totp
  /\ proved \in [secret : Secrets \cup {NoSecret}, batch : Batches \cup {NoBatch}]
  /\ Enrolled
ReqInv == req \in [Requests -> Request] /\ AllShaped

SignInInv == PairsInv /\ CodesInv /\ TotpInv /\ ReqInv

LEMMA NumberTypes ==
  /\ Cardinality(Requests) \in Nat
  /\ PairLimit \in Nat \ {0} /\ CodeLimit \in Nat \ {0} /\ PairEntries \in Nat \ {0}
  /\ FailureWindow \in Nat \ {0} /\ AttemptWindow \in Nat \ {0} /\ Lockout \in Nat \ {0}
  /\ CodesPerBatch \in Nat \ {0}
  /\ Most(PairLimit) \in Nat /\ Most(CodeLimit) \in Nat
  /\ Most(PairLimit) = PairLimit - 1 + Cardinality(Requests)
  /\ Most(CodeLimit) = CodeLimit - 1 + Cardinality(Requests)
<1>1. Cardinality(Requests) \in Nat
  BY SignInAssumption, FS_CardinalityType
<1>2. /\ PairLimit \in Nat \ {0} /\ CodeLimit \in Nat \ {0} /\ PairEntries \in Nat \ {0}
      /\ FailureWindow \in Nat \ {0} /\ AttemptWindow \in Nat \ {0} /\ Lockout \in Nat \ {0}
      /\ CodesPerBatch \in Nat \ {0}
  BY SignInAssumption
<1>3. QED
  BY <1>1, <1>2 DEF Most

LEMMA SomeRequests ==
  ASSUME NEW p \in Requests
  PROVE  Cardinality(Requests) >= 1 /\ Most(PairLimit) \in Nat \ {0} /\ Most(CodeLimit) \in Nat \ {0}
<1>1. Cardinality(Requests) # 0
  BY SignInAssumption, FS_EmptySet
<1>2. QED
  BY <1>1, NumberTypes

(* No more requests compare than there are. *)
LEMMA ComparingBounded ==
  ASSUME NEW op, NEW s
  PROVE  /\ IsFiniteSet(Comparing(op, s)) /\ Cardinality(Comparing(op, s)) \in Nat
         /\ Cardinality(Comparing(op, s)) <= Cardinality(Requests)
         /\ IsFiniteSet(Comparing(op, s)') /\ Cardinality(Comparing(op, s)') \in Nat
         /\ Cardinality(Comparing(op, s)') <= Cardinality(Requests)
<1>1. Comparing(op, s) \in SUBSET Requests /\ Comparing(op, s)' \in SUBSET Requests
  BY DEF Comparing
<1>2. QED
  BY <1>1, SignInAssumption, FS_Subset, FS_CardinalityType

(* A step of p after which p does not compare makes room for one try. *)
LEMMA ComparingLess ==
  ASSUME NEW op, NEW s, req \in [Requests -> Request], NEW p \in Requests, NEW r,
         req' = [req EXCEPT ![p] = r],
         ~(r.op = op /\ r.source = s /\ r.pc \in {"compare", "codes"})
  PROVE  /\ Cardinality(Comparing(op, s)') <= Cardinality(Comparing(op, s))
         /\ p \in Comparing(op, s) =>
              Cardinality(Comparing(op, s)') + 1 = Cardinality(Comparing(op, s))
<1>1. req'[p] = r /\ \A q \in Requests : q # p => req'[q] = req[q]
  OBVIOUS
<1>2. Comparing(op, s)' = Comparing(op, s) \ {p}
  BY <1>1 DEF Comparing
<1>3. PICK S : S = Comparing(op, s)
  OBVIOUS
<1>4. IsFiniteSet(S) /\ Cardinality(S) \in Nat
  BY <1>3, ComparingBounded
<1>5. Cardinality(S \ {p}) = IF p \in S THEN Cardinality(S) - 1 ELSE Cardinality(S)
  BY <1>4, FS_RemoveElement, Zenon
<1>6. QED
  BY <1>2, <1>3, <1>4, <1>5

LEMMA TypeOfInv == SignInInv => TypeOK /\ TriesBounded
<1> SUFFICES ASSUME SignInInv PROVE TypeOK /\ TriesBounded
  OBVIOUS
<1>1. TypeOK
  BY DEF SignInInv, PairsInv, CodesInv, TotpInv, ReqInv, TypeOK, Distinct
<1>2. ASSUME NEW s \in Sources, NEW n \in 0..Most(PairLimit), n \in FailuresOf(s)
      PROVE  n + Cardinality(Comparing("login", s)) <= Most(PairLimit)
  <2>1. PICK i \in DOMAIN pairs : pairs[i].source = s /\ n = pairs[i].failures
    BY <1>2 DEF FailuresOf
  <2>2. QED
    BY <2>1 DEF SignInInv, PairsInv, PairsBounded
<1>3. TriesBounded
  BY <1>2 DEF TriesBounded, SignInInv, CodesInv, CodesBounded
<1>4. QED
  BY <1>1, <1>3

LEMMA IdleShaped == Idle \in Request /\ Shaped(Idle) /\ Idle.pc = "idle"
<1>1. NoCodes \in Codes
  BY NumberTypes DEF NoCodes, Codes
<1>2. QED
  BY <1>1 DEF Idle, Request, Shaped

LEMMA NoFailureType == NoFailure \in CodeEntry /\ NoFailure.failures = 0
BY NumberTypes DEF NoFailure, CodeEntry

LEMMA InitInv == Init => SignInInv
<1> SUFFICES ASSUME Init PROVE SignInInv
  OBVIOUS
<1>1. PairsInv
  <2>1. pairs = <<>>
    BY DEF Init
  <2>2. QED
    BY <2>1, NumberTypes DEF PairsInv, PairsBounded, Distinct
<1>2. CodesInv
  <2>1. failure.failures = 0 /\ failure.locked = FALSE /\ failure \in CodeEntry
    BY NoFailureType DEF Init, NoFailure
  <2>2. Comparing("verify", NoSource) = {}
    BY IdleShaped DEF Comparing, Init
  <2>3. Cardinality(Comparing("verify", NoSource)) = 0
    BY <2>2, FS_EmptySet
  <2>4. QED
    BY <2>1, <2>3, NumberTypes DEF CodesInv, CodesBounded, LimitLocks
<1>3. TotpInv
  <2>1. totp \in Totp
    BY NumberTypes DEF Init, TotpOff, Totp, NoCodes, Codes
  <2>2. QED
    BY <2>1 DEF Init, TotpInv, Enrolled, TotpOff, NoCodes
<1>4. ReqInv
  BY IdleShaped DEF ReqInv, AllShaped, Init
<1>5. QED
  BY <1>1, <1>2, <1>3, <1>4 DEF SignInInv

-----------------------------------------------------------------------------
(* Steps.  What a step of p that becomes r leaves true, group by group.     *)

LEMMA ReqStep ==
  ASSUME ReqInv, NEW p \in Requests, NEW r \in Request, Shaped(r), req' = [req EXCEPT ![p] = r]
  PROVE  ReqInv'
BY DEF ReqInv, AllShaped

(* No entry counts more than one that was there, and p compares no more. *)
LEMMA PairsStep ==
  ASSUME ReqInv, PairsInv, NEW p \in Requests, NEW r, req' = [req EXCEPT ![p] = r],
         ~(r.op = "login" /\ r.pc \in {"compare", "codes"}),
         pairs' \in Seq(PairEntry), Len(pairs') <= PairEntries, Distinct(pairs)',
         \A a \in DOMAIN pairs' : \E b \in DOMAIN pairs :
           pairs'[a].source = pairs[b].source /\ pairs'[a].failures = pairs[b].failures
  PROVE  PairsInv'
<1>1. ASSUME NEW a \in DOMAIN pairs'
      PROVE  pairs'[a].failures + Cardinality(Comparing("login", pairs[a].source)') <= Most(PairLimit)
  <2>1. PICK b \in DOMAIN pairs :
          pairs'[a].source = pairs[b].source /\ pairs'[a].failures = pairs[b].failures
    OBVIOUS
  <2>2. PICK s : s = pairs[b].source
    OBVIOUS
  <2>3. pairs[b].failures + Cardinality(Comparing("login", s)) <= Most(PairLimit)
    BY <2>2 DEF PairsInv, PairsBounded
  <2>4. Cardinality(Comparing("login", s)') <= Cardinality(Comparing("login", s))
    BY ComparingLess, Zenon DEF ReqInv
  <2>5. /\ Cardinality(Comparing("login", s)') \in Nat /\ Cardinality(Comparing("login", s)) \in Nat
        /\ pairs[b].failures \in Nat /\ Most(PairLimit) \in Nat
    <3>1. pairs[b] \in PairEntry
      BY DEF PairsInv
    <3>2. pairs[b].failures \in Nat
      BY <3>1, NumberTypes DEF PairEntry
    <3>3. QED
      BY <3>2, ComparingBounded, NumberTypes
  <2>6. Comparing("login", pairs[a].source)' = Comparing("login", s)'
    BY <2>1, <2>2 DEF Comparing
  <2>7. QED
    BY <2>1, <2>3, <2>4, <2>5, <2>6
<1>2. PairsBounded'
  BY <1>1 DEF PairsBounded
<1>3. QED
  BY <1>2 DEF PairsInv

LEMMA PairsKept ==
  ASSUME ReqInv, PairsInv, NEW p \in Requests, NEW r, req' = [req EXCEPT ![p] = r],
         ~(r.op = "login" /\ r.pc \in {"compare", "codes"}), pairs' = pairs
  PROVE  PairsInv'
<1>1. Distinct(pairs)'
  BY DEF PairsInv, Distinct
<1>2. QED
  BY <1>1, PairsStep, Zenon DEF PairsInv

LEMMA CodesStep ==
  ASSUME ReqInv, CodesInv, NEW p \in Requests, NEW r, req' = [req EXCEPT ![p] = r],
         ~(r.op = "verify" /\ r.pc \in {"compare", "codes"}), failure' \in {failure, NoFailure}
  PROVE  CodesInv'
<1>1. /\ failure' \in CodeEntry /\ failure'.failures \in Nat
      /\ failure \in CodeEntry /\ failure.failures \in Nat
      /\ failure'.failures <= failure.failures
  BY NoFailureType, NumberTypes DEF CodesInv, CodeEntry
<1>2. Cardinality(Comparing("verify", NoSource)') <= Cardinality(Comparing("verify", NoSource))
  BY ComparingLess, Zenon DEF ReqInv
<1>3. /\ Cardinality(Comparing("verify", NoSource)') \in Nat
      /\ Cardinality(Comparing("verify", NoSource)) \in Nat /\ Most(CodeLimit) \in Nat
  BY ComparingBounded, NumberTypes
<1>4. CodesBounded'
  BY <1>1, <1>2, <1>3 DEF CodesInv, CodesBounded
<1>5. LimitLocks'
  <2>1. CASE failure' = failure
    BY <2>1 DEF CodesInv, LimitLocks
  <2>2. CASE failure' = NoFailure
    <3>1. failure'.failures = 0 /\ failure'.locked = FALSE
      BY <2>2 DEF NoFailure
    <3>2. QED
      BY <3>1, NumberTypes DEF LimitLocks
  <2>3. QED
    BY <2>1, <2>2
<1>6. QED
  BY <1>1, <1>4, <1>5 DEF CodesInv

LEMMA TotpKept ==
  ASSUME TotpInv, UNCHANGED <<totp, proved>>
  PROVE  TotpInv'
BY DEF TotpInv, Enrolled

LEMMA PruneFacts ==
  ASSUME PairsInv
  PROVE  /\ Prune \in Seq(PairEntry) /\ Len(Prune) <= PairEntries /\ Distinct(Prune)
         /\ \A a \in DOMAIN Prune : \E b \in DOMAIN pairs : Prune[a] = pairs[b]
         /\ \A b \in DOMAIN pairs : pairs[b].last < FailureWindow =>
              \E a \in DOMAIN Prune : Prune[a] = pairs[b]
<1>1. Remains(Prune, Len(pairs))
  BY PruneRemains DEF PairsInv
<1>2. /\ Prune \in Seq(PairEntry) /\ Len(Prune) \in Nat /\ DOMAIN Prune = 1..Len(Prune)
      /\ Len(pairs) \in Nat /\ DOMAIN pairs = 1..Len(pairs)
      /\ Len(Prune) <= Len(pairs) /\ Len(pairs) <= PairEntries
  BY <1>1 DEF Remains, PairsInv
<1>3. Distinct(Prune)
  BY <1>1, <1>2 DEF Remains, Distinct
<1>4. Len(Prune) <= PairEntries
  BY <1>2, NumberTypes
<1>5. QED
  BY <1>1, <1>2, <1>3, <1>4, Zenon DEF Remains

-----------------------------------------------------------------------------
(* The sign-in with a password.                                            *)

LEMMA AssertAllowedInv ==
  ASSUME SignInInv, NEW p \in Requests, NEW s \in Sources, AssertAllowed(p, s)
  PROVE  SignInInv'
<1> DEFINE r == [Idle EXCEPT !.pc = "compare", !.op = "login", !.source = s]
<1>1. /\ r \in Request /\ Shaped(r) /\ r.op = "login" /\ r.source = s
  BY IdleShaped, Zenon DEF Idle, Request, Shaped
<1>2. /\ pairs' = Prune /\ UNCHANGED <<failure, totp, proved>>
      /\ pairs' \in Seq(PairEntry) /\ Len(pairs') <= PairEntries
      /\ \A a \in DOMAIN pairs' : \E b \in DOMAIN pairs : pairs'[a] = pairs[b]
  BY PruneFacts DEF AssertAllowed, SignInInv
<1>3. Distinct(pairs)'
  BY <1>2, PruneFacts DEF Distinct, SignInInv
<1> HIDE DEF r
<1>4. CASE Blocked(Prune, s)
  <2>1. req' = [req EXCEPT ![p] = Idle]
    BY <1>4 DEF AssertAllowed, Begin
  <2>2. ReqInv'
    BY <2>1, IdleShaped, ReqStep, Zenon DEF SignInInv
  <2>3. PairsInv'
    BY <1>2, <1>3, <2>1, IdleShaped, PairsStep, Zenon DEF SignInInv
  <2>4. CodesInv'
    BY <1>2, <2>1, IdleShaped, CodesStep, Zenon DEF SignInInv
  <2>5. QED
    BY <1>2, <2>2, <2>3, <2>4, TotpKept DEF SignInInv
<1>5. CASE ~Blocked(Prune, s)
  <2>1. req' = [req EXCEPT ![p] = r]
    BY <1>5 DEF AssertAllowed, Begin, r
  <2>2. ReqInv'
    BY <1>1, <2>1, ReqStep, Zenon DEF SignInInv
  <2>3. CodesInv'
    BY <1>1, <1>2, <2>1, CodesStep, Zenon DEF SignInInv
  <2>4. ASSUME NEW a \in DOMAIN pairs'
        PROVE  pairs'[a].failures + Cardinality(Comparing("login", pairs[a].source)') <= Most(PairLimit)
    <3>1. PICK b \in DOMAIN pairs : pairs'[a] = pairs[b]
      BY <1>2
    <3>2. PICK t : t = pairs[b].source
      OBVIOUS
    <3>3. Comparing("login", pairs[a].source)' = Comparing("login", t)'
      BY <3>1, <3>2 DEF Comparing
    <3>4. /\ Cardinality(Comparing("login", t)') \in Nat /\ Cardinality(Comparing("login", t)) \in Nat
          /\ Cardinality(Comparing("login", t)') <= Cardinality(Requests)
      BY ComparingBounded
    <3>5. pairs'[a] \in PairEntry
      BY <1>2
    <3>6. pairs'[a].failures \in Nat
      BY <3>5, NumberTypes DEF PairEntry
    <3>7. CASE t = s
      <4>1. pairs'[a].failures < PairLimit
        <5>1. pairs'[a].source = s /\ a \in DOMAIN Prune /\ pairs'[a] = Prune[a]
          BY <1>2, <3>1, <3>2, <3>7
        <5>2. ~(pairs'[a].failures >= PairLimit)
          BY <1>5, <5>1, Zenon DEF Blocked
        <5>3. QED
          BY <3>6, <5>2, NumberTypes
      <4>2. QED
        BY <3>3, <3>4, <3>6, <4>1, NumberTypes
    <3>8. CASE t # s
      <4>1. Cardinality(Comparing("login", t)') <= Cardinality(Comparing("login", t))
        BY <1>1, <2>1, <3>8, ComparingLess, Zenon DEF SignInInv, ReqInv
      <4>2. pairs'[a].failures + Cardinality(Comparing("login", t)) <= Most(PairLimit)
        BY <3>1, <3>2 DEF SignInInv, PairsInv, PairsBounded
      <4>3. QED
        BY <3>3, <3>4, <3>6, <4>1, <4>2, NumberTypes
    <3>9. QED
      BY <3>7, <3>8
  <2>5. PairsInv'
    BY <1>2, <1>3, <2>4 DEF PairsInv, PairsBounded
  <2>6. QED
    BY <1>2, <2>2, <2>3, <2>5, TotpKept DEF SignInInv
<1>6. QED
  BY <1>4, <1>5

LEMMA RecordFailureInv ==
  ASSUME SignInInv, NEW p \in Requests, RecordFailure(p)
  PROVE  SignInInv'
<1>1. PICK s : s = req[p].source
  OBVIOUS
<1>2. /\ req[p].pc = "compare" /\ req[p].op = "login" /\ s \in Sources
      /\ req' = [req EXCEPT ![p] = Idle] /\ UNCHANGED <<failure, totp, proved>>
      /\ pairs' = Bump(Prune, s)
  BY <1>1 DEF RecordFailure, End, SignInInv, ReqInv, AllShaped, Shaped
<1>3. PICK e : e = Prune
  OBVIOUS
<1>4. /\ e \in Seq(PairEntry) /\ Len(e) <= PairEntries /\ Distinct(e)
      /\ \A a \in DOMAIN e : \E b \in DOMAIN pairs : e[a] = pairs[b]
  BY <1>3, PruneFacts DEF SignInInv
<1>5. ASSUME NEW a \in DOMAIN e
      PROVE  /\ e[a].failures + Cardinality(Comparing("login", e[a].source)) <= Most(PairLimit)
             /\ e[a].failures \in Nat
  <2>1. e[a] \in PairEntry
    BY <1>4
  <2>2. QED
    BY <1>4, <2>1, NumberTypes, SMTT(30) DEF SignInInv, PairsInv, PairsBounded, PairEntry
<1>6. p \in Comparing("login", s)
  BY <1>1, <1>2 DEF Comparing
<1>7. \A t : /\ Cardinality(Comparing("login", t)') \in Nat /\ Cardinality(Comparing("login", t)) \in Nat
             /\ Cardinality(Comparing("login", t)) <= Cardinality(Requests)
             /\ Cardinality(Comparing("login", t)') <= Cardinality(Comparing("login", t))
  BY <1>2, IdleShaped, ComparingBounded, ComparingLess, Zenon DEF SignInInv, ReqInv
<1>8. Cardinality(Comparing("login", s)') + 1 = Cardinality(Comparing("login", s))
  BY <1>2, <1>6, IdleShaped, ComparingLess, Zenon DEF SignInInv, ReqInv
<1>9. \A i \in DOMAIN e : e[i].source = s => e[i].failures < Most(PairLimit)
  BY <1>5, <1>7, <1>8, NumberTypes
<1>10. /\ pairs' \in Seq(PairEntry) /\ Len(pairs') <= PairEntries /\ Distinct(pairs)'
      /\ \A a \in DOMAIN pairs' :
           \/ \E i \in DOMAIN e : pairs'[a] = e[i] /\ e[i].source # s
           \/ /\ pairs'[a].source = s
              /\ \/ pairs'[a].failures = 1
                 \/ \E i \in DOMAIN e : e[i].source = s /\ pairs'[a].failures = e[i].failures + 1
  <2>1. PICK b : b = Bump(e, s)
    OBVIOUS
  <2>2. /\ b \in Seq(PairEntry) /\ Len(b) <= PairEntries /\ Distinct(b)
        /\ \A a \in DOMAIN b :
             \/ \E i \in DOMAIN e : b[a] = e[i] /\ e[i].source # s
             \/ /\ b[a].source = s
                /\ \/ b[a].failures = 1
                   \/ \E i \in DOMAIN e : e[i].source = s /\ b[a].failures = e[i].failures + 1
    BY <1>2, <1>4, <1>9, <2>1, BumpEntries, SomeRequests
  <2>3. pairs' = b
    BY <1>2, <1>3, <2>1
  <2>4. QED
    BY <2>2, <2>3 DEF Distinct
<1>11. ASSUME NEW a \in DOMAIN pairs'
       PROVE  pairs'[a].failures + Cardinality(Comparing("login", pairs[a].source)') <= Most(PairLimit)
  <2>1. PICK t : t = pairs'[a].source
    OBVIOUS
  <2>2. Comparing("login", pairs[a].source)' = Comparing("login", t)'
    BY <2>1 DEF Comparing
  <2>3. CASE \E i \in DOMAIN e : pairs'[a] = e[i] /\ e[i].source # s
    BY <1>5, <1>7, <2>1, <2>2, <2>3, NumberTypes
  <2>4. CASE t = s /\ pairs'[a].failures = 1
    BY <1>7, <1>8, <2>2, <2>4, NumberTypes
  <2>5. CASE t = s /\ \E i \in DOMAIN e : e[i].source = s /\ pairs'[a].failures = e[i].failures + 1
    BY <1>5, <1>7, <1>8, <2>2, <2>5, NumberTypes
  <2>6. QED
    BY <1>10, <2>1, <2>3, <2>4, <2>5
<1>12. PairsInv'
  BY <1>10, <1>11 DEF PairsInv, PairsBounded
<1>13. ReqInv' /\ CodesInv'
  BY <1>2, IdleShaped, ReqStep, CodesStep, Zenon DEF SignInInv
<1>14. QED
  BY <1>2, <1>12, <1>13, TotpKept DEF SignInInv

LEMMA RecordSuccessInv ==
  ASSUME SignInInv, NEW p \in Requests, RecordSuccess(p)
  PROVE  SignInInv'
<1>1. req' = [req EXCEPT ![p] = Idle] /\ UNCHANGED <<failure, totp, proved>> /\ pairs' = <<>>
  BY DEF RecordSuccess, End
<1>2. PairsInv'
  BY <1>1, NumberTypes DEF PairsInv, PairsBounded, Distinct
<1>3. ReqInv' /\ CodesInv'
  BY <1>1, IdleShaped, ReqStep, CodesStep, Zenon DEF SignInInv
<1>4. QED
  BY <1>1, <1>2, <1>3, TotpKept DEF SignInInv

-----------------------------------------------------------------------------
(* Two-factor codes.                                                       *)

(* The turns that have nothing to do with passwords. *)
LEMMA OtherStep ==
  ASSUME SignInInv, NEW p \in Requests, NEW r \in Request, Shaped(r), req' = [req EXCEPT ![p] = r],
         r.op # "login" \/ r.pc \notin {"compare", "codes"}, pairs' = pairs
  PROVE  ReqInv' /\ PairsInv'
BY ReqStep, PairsKept, Zenon DEF SignInInv

LEMMA CompleteTwoFactorLoginInv ==
  ASSUME SignInInv, NEW p \in Requests, NEW valid \in BOOLEAN, NEW match \in BOOLEAN,
         CompleteTwoFactorLogin(p, valid, match)
  PROVE  SignInInv'
<1>1. UNCHANGED <<pairs, totp, proved>>
  BY DEF CompleteTwoFactorLogin
<1>2. CASE valid
  <2>1. req' = [req EXCEPT ![p] = Idle] /\ failure' = NoFailure
    BY <1>2 DEF CompleteTwoFactorLogin, Begin
  <2>2. ReqInv' /\ PairsInv'
    BY <1>1, <2>1, IdleShaped, OtherStep, Zenon
  <2>3. CodesInv'
    BY <2>1, IdleShaped, CodesStep, Zenon DEF SignInInv
  <2>4. QED
    BY <1>1, <2>2, <2>3, TotpKept DEF SignInInv
<1>3. CASE ~valid
  <2>1. PICK m \in BOOLEAN : m = (match /\ totp.codes.left > 0)
    BY Zenon
  <2>2. totp.codes \in Codes /\ (m => totp.codes.left > 0)
    BY <2>1, Zenon DEF SignInInv, TotpInv, Totp
  <2>3. PICK r : r = [Idle EXCEPT !.pc = "codes", !.op = "verify", !.codes = totp.codes, !.match = m]
    OBVIOUS
  <2>4. r \in Request /\ Shaped(r) /\ r.op = "verify"
    BY <2>2, <2>3, IdleShaped, Zenon DEF Request, Shaped, Idle
  <2>5. /\ req' = [req EXCEPT ![p] = r]
        /\ failure' = IF failure.locked THEN NoFailure ELSE failure
    BY <1>3, <2>1, <2>3 DEF CompleteTwoFactorLogin, Begin
  <2>6. ReqInv' /\ PairsInv'
    BY <1>1, <2>4, <2>5, OtherStep, Zenon
  <2>7. /\ failure' \in CodeEntry /\ failure'.failures \in Nat /\ failure'.failures < CodeLimit
        /\ ~failure'.locked
    <3>1. failure \in CodeEntry /\ failure.failures \in Nat
      BY NumberTypes DEF SignInInv, CodesInv, CodeEntry
    <3>2. ~failure.locked => failure.failures < CodeLimit
      BY <3>1, NumberTypes DEF SignInInv, CodesInv, LimitLocks
    <3>3. QED
      BY <2>5, <3>1, <3>2, NoFailureType, NumberTypes DEF NoFailure
  <2>8. CodesBounded'
    BY <2>7, ComparingBounded, NumberTypes DEF CodesBounded
  <2>9. CodesInv'
    BY <2>7, <2>8, NumberTypes DEF CodesInv, LimitLocks
  <2>10. QED
    BY <1>1, <2>6, <2>9, TotpKept DEF SignInInv
<1>4. QED
  BY <1>2, <1>3

LEMMA ConsumeInv ==
  ASSUME SignInInv, NEW p \in Requests, Consume(p)
  PROVE  /\ SignInInv'
         /\ totp'.codes.batch = totp.codes.batch /\ totp'.codes.left <= totp.codes.left
<1> DEFINE r == [req[p] EXCEPT !.pc = "accepted"]
<1>1. /\ req[p] \in Request /\ Shaped(req[p]) /\ req[p].match /\ totp.codes = req[p].codes
      /\ req[p].pc = "codes"
      /\ totp' = [totp EXCEPT !.codes.left = @ - 1] /\ req' = [req EXCEPT ![p] = r]
      /\ UNCHANGED <<pairs, failure, proved>>
  BY DEF Consume, Goto, SignInInv, ReqInv, AllShaped
<1>2. r \in Request /\ Shaped(r) /\ r.pc = "accepted"
  BY <1>1 DEF Request, Shaped
<1> HIDE DEF r
<1>3. ReqInv' /\ PairsInv' /\ CodesInv'
  BY <1>1, <1>2, OtherStep, CodesStep, Zenon DEF SignInInv
<1>4. totp \in Totp /\ totp.codes \in Codes /\ totp.codes.left \in 1..CodesPerBatch
  <2>1. totp \in Totp /\ totp.codes \in Codes /\ totp.codes.left \in 0..CodesPerBatch
    BY DEF SignInInv, TotpInv, Totp, Codes
  <2>2. totp.codes.left > 0
    BY <1>1 DEF Shaped
  <2>3. QED
    BY <2>1, <2>2, NumberTypes
<1>5. PICK n \in 0..CodesPerBatch : n = totp.codes.left - 1 /\ n <= totp.codes.left
  BY <1>4, NumberTypes
<1>6. totp' = [totp EXCEPT !.codes = [totp.codes EXCEPT !.left = n]]
  BY <1>1, <1>5
<1>7. /\ totp' \in Totp /\ totp'.enabled = totp.enabled
      /\ totp'.codes.batch = totp.codes.batch /\ totp'.codes.left = n
  BY <1>4, <1>6 DEF Totp, Codes
<1>8. TotpInv'
  BY <1>1, <1>7 DEF SignInInv, TotpInv, Enrolled
<1>9. QED
  BY <1>3, <1>5, <1>7, <1>8 DEF SignInInv

LEMMA CodeRejectedInv ==
  ASSUME SignInInv, NEW p \in Requests, CodeRejected(p)
  PROVE  SignInInv'
<1>1. /\ req[p].pc = "codes" /\ req' = [req EXCEPT ![p] = Idle] /\ UNCHANGED <<pairs, totp, proved>>
      /\ failure' = IF req[p].op = "verify" THEN RecordTwoFactorFailure(failure) ELSE failure
  BY DEF CodeRejected, End
<1>2. ReqInv' /\ PairsInv'
  BY <1>1, IdleShaped, OtherStep, Zenon
<1>3. CASE req[p].op # "verify"
  <2>1. CodesInv'
    BY <1>1, <1>3, IdleShaped, CodesStep, Zenon DEF SignInInv
  <2>2. QED
    BY <1>1, <1>2, <2>1, TotpKept DEF SignInInv
<1>4. CASE req[p].op = "verify"
  <2>1. PICK n, m : n = Cardinality(Comparing("verify", NoSource)) /\ m = Cardinality(Comparing("verify", NoSource)')
    OBVIOUS
  <2>2. p \in Comparing("verify", NoSource)
    BY <1>1, <1>4 DEF Comparing, SignInInv, ReqInv, AllShaped, Shaped
  <2>3. n \in Nat /\ m \in Nat /\ n <= Cardinality(Requests) /\ m + 1 = n
    BY <1>1, <2>1, <2>2, IdleShaped, ComparingBounded, ComparingLess, Zenon DEF SignInInv, ReqInv
  <2>4. /\ failure \in CodeEntry /\ failure.failures \in Nat /\ failure.failures + n <= Most(CodeLimit)
    BY <2>1, NumberTypes DEF SignInInv, CodesInv, CodesBounded, CodeEntry
  <2> DEFINE active == IF failure.first < AttemptWindow THEN failure ELSE NoFailure
             locks == active.failures + 1 >= CodeLimit
  <2>5. /\ active.failures \in Nat /\ active.failures <= failure.failures
        /\ active.first \in 0..AttemptWindow
    BY <2>4, NoFailureType, NumberTypes DEF CodeEntry
  <2>6. failure' = [failures |-> active.failures + 1, first |-> active.first,
                    locked |-> locks, lock |-> IF locks THEN Lockout ELSE 0]
    BY <1>1, <1>4 DEF RecordTwoFactorFailure
  <2> HIDE DEF active
  <2>7. active.failures + 1 + m <= Most(CodeLimit)
    BY <2>3, <2>4, <2>5, NumberTypes
  <2>8. active.failures + 1 \in 0..Most(CodeLimit)
    BY <2>3, <2>5, <2>7, NumberTypes
  <2>9. locks \in BOOLEAN /\ (IF locks THEN Lockout ELSE 0) \in 0..Lockout
    BY NumberTypes
  <2>10. failure' \in CodeEntry
    BY <2>5, <2>6, <2>8, <2>9 DEF CodeEntry
  <2>11. CodesBounded'
    BY <2>1, <2>6, <2>7 DEF CodesBounded
  <2>12. LimitLocks'
    BY <2>6, Zenon DEF LimitLocks
  <2>13. QED
    BY <1>1, <1>2, <2>10, <2>11, <2>12, TotpKept DEF SignInInv, CodesInv
<1>5. QED
  BY <1>3, <1>4

LEMMA CodeAcceptedInv ==
  ASSUME SignInInv, NEW p \in Requests, CodeAccepted(p)
  PROVE  SignInInv'
<1>1. /\ req' = [req EXCEPT ![p] = Idle] /\ failure' = NoFailure /\ UNCHANGED <<pairs, totp, proved>>
  BY DEF CodeAccepted, End
<1>2. ReqInv' /\ PairsInv' /\ CodesInv'
  BY <1>1, IdleShaped, OtherStep, CodesStep, Zenon DEF SignInInv
<1>3. QED
  BY <1>1, <1>2, TotpKept DEF SignInInv

-----------------------------------------------------------------------------
(* Enrolment.                                                              *)

(* The requests that only read the row. *)
LEMMA ReadInv ==
  ASSUME SignInInv, NEW p \in Requests, NEW r \in Request, Shaped(r), req' = [req EXCEPT ![p] = r],
         r.op \notin {"login", "verify"}, UNCHANGED <<pairs, failure, totp, proved>>
  PROVE  SignInInv'
<1>1. ReqInv' /\ PairsInv' /\ CodesInv'
  BY OtherStep, CodesStep, Zenon DEF SignInInv
<1>2. QED
  BY <1>1, TotpKept DEF SignInInv

LEMMA ArrivalInv ==
  ASSUME SignInInv, NEW p \in Requests, Arrival(p)
  PROVE  SignInInv'
<1>1. ASSUME NEW s \in Sources, AssertAllowed(p, s) PROVE SignInInv'
  BY <1>1, AssertAllowedInv
<1>2. ASSUME NEW valid \in BOOLEAN, NEW match \in BOOLEAN, CompleteTwoFactorLogin(p, valid, match)
      PROVE  SignInInv'
  BY <1>2, CompleteTwoFactorLoginInv
<1>3. ASSUME NEW valid \in BOOLEAN, NEW match \in BOOLEAN, Disable2FA(p, valid, match)
      PROVE  SignInInv'
  <2>1. PICK m \in BOOLEAN : m = (~valid /\ match /\ totp.codes.left > 0)
    BY Zenon
  <2>2. totp.codes \in Codes /\ (m => totp.codes.left > 0)
    BY <2>1, Zenon DEF SignInInv, TotpInv, Totp
  <2>3. PICK pc \in {"codes", "accepted"} : pc = IF valid THEN "accepted" ELSE "codes"
    OBVIOUS
  <2>4. PICK r : r = [Idle EXCEPT !.pc = pc, !.op = "disable", !.codes = totp.codes, !.match = m]
    OBVIOUS
  <2>5. r \in Request /\ Shaped(r) /\ r.op = "disable"
    BY <2>2, <2>3, <2>4, IdleShaped, Zenon DEF Request, Shaped, Idle
  <2>6. req' = [req EXCEPT ![p] = r] /\ UNCHANGED <<pairs, failure, totp, proved>>
    BY <1>3, <2>1, <2>3, <2>4 DEF Disable2FA, Begin
  <2>7. QED
    BY <2>5, <2>6, ReadInv, Zenon
<1>4. CASE Setup2FA(p)
  <2>1. PICK r : r = [Idle EXCEPT !.pc = "write", !.op = "setup"]
    OBVIOUS
  <2>2. r \in Request /\ Shaped(r) /\ r.op = "setup"
    BY <2>1, IdleShaped, Zenon DEF Request, Shaped, Idle
  <2>3. req' = [req EXCEPT ![p] = r] /\ UNCHANGED <<pairs, failure, totp, proved>>
    BY <1>4, <2>1 DEF Setup2FA, Begin
  <2>4. QED
    BY <2>2, <2>3, ReadInv, Zenon
<1>5. CASE Confirm2FA(p)
  <2>1. totp.secret \in Secrets \cup {NoSecret}
    BY DEF SignInInv, TotpInv, Totp
  <2>2. PICK r : r = [Idle EXCEPT !.pc = "write", !.op = "confirm", !.secret = totp.secret]
    OBVIOUS
  <2>3. r \in Request /\ Shaped(r) /\ r.op = "confirm"
    BY <2>1, <2>2, IdleShaped, Zenon DEF Request, Shaped, Idle
  <2>4. req' = [req EXCEPT ![p] = r] /\ UNCHANGED <<pairs, failure, totp, proved>>
    BY <1>5, <2>2 DEF Confirm2FA, Begin
  <2>5. QED
    BY <2>3, <2>4, ReadInv, Zenon
<1>6. CASE RemoveTwoFactor(p)
  <2>1. PICK r : r = [Idle EXCEPT !.pc = "accepted", !.op = "remove"]
    OBVIOUS
  <2>2. r \in Request /\ Shaped(r) /\ r.op = "remove"
    BY <2>1, IdleShaped, Zenon DEF Request, Shaped, Idle
  <2>3. req' = [req EXCEPT ![p] = r] /\ UNCHANGED <<pairs, failure, totp, proved>>
    BY <1>6, <2>1 DEF RemoveTwoFactor, Begin
  <2>4. QED
    BY <2>2, <2>3, ReadInv, Zenon
<1>7. QED
  BY <1>1, <1>2, <1>3, <1>4, <1>5, <1>6 DEF Arrival

LEMMA StoreSecretInv ==
  ASSUME SignInInv, NEW p \in Requests, StoreSecret(p)
  PROVE  SignInInv' /\ totp'.codes = totp.codes
<1>1. /\ req' = [req EXCEPT ![p] = Idle] /\ UNCHANGED <<pairs, failure, proved>>
      /\ \E k \in Secrets : totp' = [totp EXCEPT !.secret = k]
  BY DEF StoreSecret, End, Fresh
<1>2. ReqInv' /\ PairsInv' /\ CodesInv'
  BY <1>1, IdleShaped, OtherStep, CodesStep, Zenon DEF SignInInv
<1>3. totp' \in Totp /\ totp'.codes = totp.codes /\ totp'.enabled = totp.enabled
  BY <1>1 DEF SignInInv, TotpInv, Totp
<1>4. TotpInv'
  BY <1>1, <1>3 DEF SignInInv, TotpInv, Enrolled
<1>5. QED
  BY <1>2, <1>3, <1>4 DEF SignInInv

LEMMA EnableInv ==
  ASSUME SignInInv, NEW p \in Requests, Enable(p)
  PROVE  SignInInv' /\ totp'.codes.batch # totp.codes.batch
<1>1. /\ req' = [req EXCEPT ![p] = Idle] /\ UNCHANGED <<pairs, failure>> /\ req[p] \in Request
  BY DEF Enable, End, SignInInv, ReqInv
<1>2. PICK b \in Batches :
        /\ b # totp.codes.batch
        /\ totp' = [totp EXCEPT !.enabled = TRUE, !.codes = [batch |-> b, left |-> CodesPerBatch]]
        /\ proved' = [secret |-> req[p].secret, batch |-> b]
  BY Zenon DEF Enable, Fresh, BatchesInUse
<1>3. ReqInv' /\ PairsInv' /\ CodesInv'
  BY <1>1, IdleShaped, OtherStep, CodesStep, Zenon DEF SignInInv
<1>4. [batch |-> b, left |-> CodesPerBatch] \in Codes
  BY NumberTypes DEF Codes
<1>5. totp' \in Totp /\ totp'.enabled = TRUE /\ totp'.codes.batch = b
  BY <1>2, <1>4, Zenon DEF SignInInv, TotpInv, Totp
<1>6. proved' \in [secret : Secrets \cup {NoSecret}, batch : Batches \cup {NoBatch}] /\ proved'.batch = b
  BY <1>1, <1>2 DEF Request
<1>7. TotpInv'
  BY <1>5, <1>6, SignInAssumption DEF TotpInv, Enrolled
<1>8. QED
  BY <1>2, <1>3, <1>5, <1>7 DEF SignInInv

LEMMA DisableInv ==
  ASSUME SignInInv, NEW p \in Requests, Disable(p)
  PROVE  SignInInv' /\ totp'.codes = NoCodes
<1>1. /\ req' = [req EXCEPT ![p] = Idle] /\ UNCHANGED <<pairs, failure, proved>> /\ totp' = TotpOff
  BY DEF Disable, End
<1>2. ReqInv' /\ PairsInv' /\ CodesInv'
  BY <1>1, IdleShaped, OtherStep, CodesStep, Zenon DEF SignInInv
<1>3. NoCodes \in Codes /\ NoCodes.batch = NoBatch
  BY NumberTypes DEF NoCodes, Codes
<1>4. totp' \in Totp /\ totp'.enabled = FALSE /\ totp'.codes = NoCodes
  BY <1>1, <1>3 DEF TotpOff, Totp
<1>5. TotpInv'
  BY <1>1, <1>3, <1>4 DEF SignInInv, TotpInv, Enrolled
<1>6. QED
  BY <1>2, <1>4, <1>5 DEF SignInInv

LEMMA FailInv ==
  ASSUME SignInInv, NEW p \in Requests, Fail(p)
  PROVE  SignInInv'
<1>1. req' = [req EXCEPT ![p] = Idle] /\ UNCHANGED <<pairs, failure, totp, proved>>
  BY DEF Fail, End
<1>2. Idle.op = "none"
  BY DEF Idle
<1>3. QED
  BY <1>1, <1>2, IdleShaped, ReadInv, Zenon

-----------------------------------------------------------------------------
(* Time and restart.                                                       *)

LEMMA AgedPairFacts ==
  ASSUME NEW e \in PairEntry
  PROVE  AgedPair(e) \in PairEntry /\ AgedPair(e).source = e.source /\ AgedPair(e).failures = e.failures
<1>1. \A age \in 0..FailureWindow : Older(age, FailureWindow) \in 0..FailureWindow
  BY NumberTypes DEF Older
<1>2. PICK f \in 0..FailureWindow, l \in 0..FailureWindow :
        f = Older(e.first, FailureWindow) /\ l = Older(e.last, FailureWindow)
  BY <1>1 DEF PairEntry
<1>3. AgedPair(e) = [e EXCEPT !.first = f, !.last = l]
  BY <1>2 DEF AgedPair
<1>4. QED
  BY <1>3, Zenon DEF PairEntry

LEMMA AgedFailureFacts ==
  ASSUME NEW f \in CodeEntry
  PROVE  /\ AgedFailure(f) \in CodeEntry
         /\ AgedFailure(f).failures = f.failures /\ AgedFailure(f).locked = f.locked
<1>1. \A age \in 0..AttemptWindow : Older(age, AttemptWindow) \in 0..AttemptWindow
  BY NumberTypes DEF Older
<1>2. PICK a \in 0..AttemptWindow : a = IF f.failures = 0 THEN 0 ELSE Older(f.first, AttemptWindow)
  BY <1>1, NumberTypes DEF CodeEntry
<1>3. PICK l \in 0..Lockout : l = IF f.lock > 0 THEN f.lock - 1 ELSE 0
  <2>1. f.lock \in 0..Lockout
    BY DEF CodeEntry
  <2>2. QED
    BY <2>1, NumberTypes
<1>4. AgedFailure(f) = [f EXCEPT !.first = a, !.lock = l]
  BY <1>2, <1>3 DEF AgedFailure
<1>5. QED
  BY <1>4, Zenon DEF CodeEntry

LEMMA SameComparing ==
  ASSUME NEW op, NEW s, req' = req
  PROVE  Comparing(op, s)' = Comparing(op, s)
BY DEF Comparing

LEMMA TickInv ==
  ASSUME SignInInv, Tick
  PROVE  SignInInv'
<1>1. /\ req' = req /\ UNCHANGED <<totp, proved>> /\ failure' = AgedFailure(failure)
      /\ pairs' = [i \in DOMAIN pairs |-> AgedPair(pairs[i])]
  BY DEF Tick
<1>2. /\ pairs \in Seq(PairEntry) /\ Len(pairs) \in Nat /\ DOMAIN pairs = 1..Len(pairs)
      /\ \A i \in DOMAIN pairs : pairs[i] \in PairEntry
  BY DEF SignInInv, PairsInv
<1>3. /\ DOMAIN pairs' = DOMAIN pairs
      /\ \A i \in DOMAIN pairs : /\ pairs'[i] \in PairEntry /\ pairs'[i].source = pairs[i].source
                                 /\ pairs'[i].failures = pairs[i].failures
  BY <1>1, <1>2, AgedPairFacts
<1>4. pairs' \in Seq(PairEntry) /\ Len(pairs') = Len(pairs)
  BY <1>1, <1>2, <1>3
<1>5. Distinct(pairs)'
  BY <1>3 DEF SignInInv, PairsInv, Distinct
<1>6. ASSUME NEW i \in DOMAIN pairs'
      PROVE  pairs'[i].failures + Cardinality(Comparing("login", pairs[i].source)') <= Most(PairLimit)
  <2>1. PICK s : s = pairs[i].source
    OBVIOUS
  <2>2. Comparing("login", pairs[i].source)' = Comparing("login", s)
    BY <1>1, <1>3, <2>1 DEF Comparing
  <2>3. QED
    BY <1>3, <2>1, <2>2 DEF SignInInv, PairsInv, PairsBounded
<1>7. PairsInv'
  BY <1>4, <1>5, <1>6 DEF SignInInv, PairsInv, PairsBounded
<1>8. CodesInv'
  <2>1. /\ failure' \in CodeEntry /\ failure'.failures = failure.failures
        /\ failure'.locked = failure.locked
    BY <1>1, AgedFailureFacts DEF SignInInv, CodesInv
  <2>2. QED
    BY <1>1, <2>1, SameComparing DEF SignInInv, CodesInv, CodesBounded, LimitLocks
<1>9. ReqInv'
  BY <1>1 DEF SignInInv, ReqInv, AllShaped
<1>10. QED
  BY <1>1, <1>7, <1>8, <1>9, TotpKept DEF SignInInv

LEMMA RestartInv ==
  ASSUME SignInInv, Restart
  PROVE  SignInInv'
<1>1. /\ pairs' = <<>> /\ failure' = NoFailure /\ req' = [p \in Requests |-> Idle]
      /\ UNCHANGED <<totp, proved>>
  BY DEF Restart
<1>2. PairsInv'
  BY <1>1, NumberTypes DEF PairsInv, PairsBounded, Distinct
<1>3. CodesInv'
  <2>1. failure'.failures = 0 /\ failure'.locked = FALSE /\ failure' \in CodeEntry
    BY <1>1, NoFailureType DEF NoFailure
  <2>2. CodesBounded'
    BY <2>1, ComparingBounded, NumberTypes DEF CodesBounded
  <2>3. QED
    BY <2>1, <2>2, NumberTypes DEF CodesInv, LimitLocks
<1>4. ReqInv'
  BY <1>1, IdleShaped DEF ReqInv, AllShaped
<1>5. QED
  BY <1>1, <1>2, <1>3, <1>4, TotpKept DEF SignInInv

LEMMA NextInv == SignInInv /\ [Next]_vars => SignInInv'
<1> SUFFICES ASSUME SignInInv, [Next]_vars PROVE SignInInv'
  OBVIOUS
<1>1. ASSUME NEW p \in Requests, HandlerStep(p) PROVE SignInInv'
  BY <1>1, RecordFailureInv, RecordSuccessInv, ConsumeInv, CodeRejectedInv, CodeAcceptedInv,
     StoreSecretInv, EnableInv, DisableInv, FailInv DEF HandlerStep
<1>2. CASE UNCHANGED vars
  <2>1. UNCHANGED <<pairs, failure, totp, proved, req>>
    BY <1>2 DEF vars
  <2>2. QED
    BY <2>1 DEF SignInInv, PairsInv, PairsBounded, Distinct, CodesInv, CodesBounded, LimitLocks,
                TotpInv, Enrolled, ReqInv, AllShaped, Comparing
<1>3. QED
  BY <1>1, <1>2, ArrivalInv, TickInv, RestartInv DEF Next

-----------------------------------------------------------------------------
(* The theorems.                                                           *)

(* The variables keep their types; in particular the map of password        *)
(* failures never has more entries than MAX_PAIR_ENTRIES, nor two of one    *)
(* pair, whatever prune, bump and the eviction do to it.                    *)
THEOREM TypeCorrect == Spec => []TypeOK
<1>1. SignInInv => TypeOK
  BY TypeOfInv
<1>2. QED
  BY <1>1, InitInv, NextInv, PTL DEF Spec

(* However many sign-ins run at the same time, wrong passwords from one     *)
(* source and wrong two-factor codes exceed their limits by no more than    *)
(* the requests in flight.                                                  *)
THEOREM TriesAreBounded == Spec => []TriesBounded
<1>1. SignInInv => TriesBounded
  BY TypeOfInv
<1>2. QED
  BY <1>1, InitInv, NextInv, PTL DEF Spec

(* The backup codes belong to the enrolment, and none comes back: what      *)
(* verifyAndConsumeBackupCode, confirm2FA, disable2FA and removeTwoFactor   *)
(* write, in any interleaving, keeps them so.                               *)
THEOREM BackupCodesStayCurrent == Spec => BackupCodesCurrent
<1> DEFINE Current == /\ totp'.enabled <=> totp'.codes.batch # NoBatch
                      /\ totp'.enabled => totp'.codes.batch = proved'.batch
                      /\ totp'.codes.batch = totp.codes.batch => totp'.codes.left <= totp.codes.left
<1>1. SignInInv /\ [Next]_vars => [Current]_vars
  <2> SUFFICES ASSUME SignInInv, Next PROVE Current
    OBVIOUS
  <2>1. Enrolled'
    BY NextInv DEF SignInInv, TotpInv
  <2>2. totp.codes.left \in Nat
    BY NumberTypes DEF SignInInv, TotpInv, Totp, Codes
  <2>3. totp'.codes.batch = totp.codes.batch => totp'.codes.left <= totp.codes.left
    <3>1. ASSUME NEW p \in Requests, HandlerStep(p)
          PROVE  totp'.codes.batch = totp.codes.batch => totp'.codes.left <= totp.codes.left
      <4>1. CASE Consume(p)
        BY <4>1, ConsumeInv
      <4>2. CASE StoreSecret(p)
        BY <2>2, <4>2, StoreSecretInv
      <4>3. CASE Enable(p)
        BY <4>3, EnableInv
      <4>4. CASE Disable(p)
        BY <2>2, <4>4, DisableInv DEF NoCodes
      <4>5. CASE totp' = totp
        BY <2>2, <4>5
      <4>6. QED
        BY <3>1, <4>1, <4>2, <4>3, <4>4, <4>5
           DEF HandlerStep, RecordFailure, RecordSuccess, CodeRejected, CodeAccepted, Fail
    <3>2. ASSUME NEW p \in Requests, Arrival(p) PROVE totp' = totp
      BY <3>2, Zenon DEF Arrival, AssertAllowed, CompleteTwoFactorLogin, Disable2FA, Setup2FA, Confirm2FA,
                  RemoveTwoFactor
    <3>3. Tick \/ Restart => totp' = totp
      BY DEF Tick, Restart
    <3>4. QED
      BY <2>2, <3>1, <3>2, <3>3 DEF Next
  <2>4. QED
    BY <2>1, <2>3 DEF Enrolled
<1>2. QED
  BY <1>1, InitInv, NextInv, PTL DEF Spec, BackupCodesCurrent

LEMMA RestartRestarts == Restart => Restarted
BY DEF Restart, Restarted

(* The account's lock is left alone, or ends as it may. *)
LEMMA CodeLockHolds ==
  ASSUME SignInInv, Next, Locked(failure)
  PROVE  \/ failure' = failure \/ failure' = AgedFailure(failure)
         \/ Restarted \/ Answering("verify", "accepted") # {}
         \/ /\ Answering("verify", "codes") # {}
            /\ failure.first < AttemptWindow => failure'.locked /\ failure'.lock = Lockout
<1>1. ASSUME NEW p \in Requests, Arrival(p) PROVE failure' = failure
  BY <1>1, Zenon DEF Arrival, AssertAllowed, CompleteTwoFactorLogin, AssertTwoFactorNotLocked, Disable2FA,
              Setup2FA, Confirm2FA, RemoveTwoFactor
<1>2. ASSUME NEW p \in Requests, CodeRejected(p)
      PROVE  \/ failure' = failure
             \/ /\ Answering("verify", "codes") # {}
                /\ failure.first < AttemptWindow => failure'.locked /\ failure'.lock = Lockout
  <2>1. CASE req[p].op = "verify"
    <3>1. req[p].pc = "codes" /\ req'[p] = Idle /\ failure' = RecordTwoFactorFailure(failure)
      BY <1>2, <2>1 DEF CodeRejected, End, SignInInv, ReqInv
    <3>2. p \in Answering("verify", "codes")
      BY <2>1, <3>1 DEF Answering
    <3>3. failure.failures + 1 >= CodeLimit
      BY NumberTypes DEF SignInInv, CodesInv, LimitLocks, Locked, CodeEntry
    <3>4. failure.first < AttemptWindow => failure'.locked /\ failure'.lock = Lockout
      BY <3>1, <3>3, Zenon DEF RecordTwoFactorFailure
    <3>5. QED
      BY <3>2, <3>4
  <2>2. CASE req[p].op # "verify"
    BY <1>2, <2>2 DEF CodeRejected
  <2>3. QED
    BY <2>1, <2>2
<1>3. ASSUME NEW p \in Requests, CodeAccepted(p) PROVE Answering("verify", "accepted") # {}
  <2>1. req[p].pc = "accepted" /\ req[p].op = "verify" /\ req'[p] = Idle
    BY <1>3 DEF CodeAccepted, End, SignInInv, ReqInv
  <2>2. QED
    BY <2>1 DEF Answering
<1>4. ASSUME NEW p \in Requests, HandlerStep(p), ~CodeRejected(p), ~CodeAccepted(p) PROVE failure' = failure
  BY <1>4, Zenon DEF HandlerStep, RecordFailure, RecordSuccess, Consume, StoreSecret, Enable, Disable, Fail
<1>5. Tick => failure' = AgedFailure(failure)
  BY DEF Tick
<1>6. QED
  BY <1>1, <1>2, <1>3, <1>4, <1>5, RestartRestarts DEF Next

(* How the entry of a blocked pair may leave the map when the login p, that *)
(* had passed the check, answers.                                           *)
BlockLifted(e, p) ==
  \/ pairs' = <<>>
  \/ /\ req[p].source = e.source
     /\ e.first < FailureWindow =>
          \E j \in DOMAIN pairs' : pairs'[j] = [e EXCEPT !.failures = @ + 1, !.last = 0]
  \/ /\ req[p].source \notin {Prune[j].source : j \in DOMAIN Prune}
     /\ Len(Prune) = PairEntries /\ Prune[1] = e

(* bump keeps an entry, counts in it, or evicts the first one. *)
Bumped(b, e, i, s) ==
  \/ \E j \in DOMAIN b : b[j] = e[i]
  \/ /\ s = e[i].source
     /\ e[i].first < FailureWindow =>
          \E j \in DOMAIN b : b[j] = [e[i] EXCEPT !.failures = @ + 1, !.last = 0]
  \/ s \notin {e[j].source : j \in DOMAIN e} /\ Len(e) = PairEntries /\ i = 1

LEMMA BumpKeeps ==
  ASSUME NEW e \in Seq(PairEntry), NEW s, NEW i \in DOMAIN e, NEW b, b = Bump(e, s)
  PROVE  Bumped(b, e, i, s)
<1> DEFINE new == [source |-> s, failures |-> 1, first |-> 0, last |-> 0]
           next(x) == IF x.first < FailureWindow
                        THEN [x EXCEPT !.failures = @ + 1, !.last = 0] ELSE new
<1>1. CASE \E k \in DOMAIN e : e[k].source = s
  <2>1. Bump(e, s) = [k \in DOMAIN e |-> IF e[k].source = s THEN next(e[k]) ELSE e[k]]
    BY <1>1, Zenon DEF Bump
  <2>2. i \in DOMAIN b /\ b[i] = IF e[i].source = s THEN next(e[i]) ELSE e[i]
    BY <2>1, Zenon
  <2>3. QED
    BY <2>2, Zenon DEF Bumped
<1>2. CASE ~\E k \in DOMAIN e : e[k].source = s
  <2>1. CASE Len(e) = PairEntries
    <3>1. Bump(e, s) = Append(Tail(e), new)
      BY <1>2, <2>1, Zenon DEF Bump
    <3>2. CASE i = 1
      BY <1>2, <2>1, <3>2, Zenon DEF Bumped
    <3>3. CASE i # 1
      <4>1. i - 1 \in DOMAIN Append(Tail(e), new) /\ Append(Tail(e), new)[i - 1] = e[i]
        BY <3>3
      <4>2. QED
        BY <3>1, <4>1, Zenon DEF Bumped
    <3>4. QED
      BY <3>2, <3>3
  <2>2. CASE Len(e) # PairEntries
    <3>1. Bump(e, s) = Append(e, new)
      BY <1>2, <2>2, Zenon DEF Bump
    <3>2. i \in DOMAIN Append(e, new) /\ Append(e, new)[i] = e[i]
      OBVIOUS
    <3>3. QED
      BY <3>1, <3>2, Zenon DEF Bumped
  <2>3. QED
    BY <2>1, <2>2
<1>3. QED
  BY <1>1, <1>2

(* The entry of a blocked pair stays in the map, or leaves it as it may. *)
LEMMA PairLockHolds ==
  ASSUME SignInInv, Next, NEW i \in DOMAIN pairs, pairs[i].last < FailureWindow
  PROVE  \/ \E j \in DOMAIN pairs' : pairs'[j] = pairs[i] \/ pairs'[j] = AgedPair(pairs[i])
         \/ Restarted \/ \E p \in Answering("login", "compare") : BlockLifted(pairs[i], p)
<1>1. PICK a \in DOMAIN Prune : Prune[a] = pairs[i]
  BY PruneFacts DEF SignInInv
<1>2. ASSUME NEW p \in Requests, NEW s \in Sources, AssertAllowed(p, s)
      PROVE  \E j \in DOMAIN pairs' : pairs'[j] = pairs[i]
  BY <1>1, <1>2 DEF AssertAllowed
<1>3. ASSUME NEW p \in Requests, RecordFailure(p) \/ RecordSuccess(p) PROVE p \in Answering("login", "compare")
  <2>1. req[p].pc = "compare" /\ req[p].op = "login" /\ req'[p] = Idle
    BY <1>3 DEF RecordFailure, RecordSuccess, End, SignInInv, ReqInv, AllShaped, Shaped
  <2>2. QED
    BY <2>1 DEF Answering
<1>4. ASSUME NEW p \in Requests, RecordSuccess(p) PROVE BlockLifted(pairs[i], p)
  BY <1>4 DEF RecordSuccess, BlockLifted
<1>5. ASSUME NEW p \in Requests, RecordFailure(p)
      PROVE  (\E j \in DOMAIN pairs' : pairs'[j] = pairs[i]) \/ BlockLifted(pairs[i], p)
  <2>1. PICK e : e = Prune
    BY Zenon
  <2>2. e \in Seq(PairEntry) /\ a \in DOMAIN e /\ e[a] = pairs[i]
    BY <1>1, <2>1, PruneFacts DEF SignInInv
  <2>3. PICK s : s = req[p].source
    BY Zenon
  <2>4. PICK b : b = Bump(e, s)
    BY Zenon
  <2>5. Bumped(b, e, a, s)
    BY <2>2, <2>4, BumpKeeps, Zenon
  <2>6. pairs' = b
    BY <1>5, <2>1, <2>3, <2>4 DEF RecordFailure
  <2>7. QED
    BY <2>1, <2>2, <2>3, <2>5, <2>6, Zenon DEF BlockLifted, Bumped
<1>6. CASE Tick
  <2>1. DOMAIN pairs' = DOMAIN pairs /\ pairs'[i] = AgedPair(pairs[i])
    BY <1>6 DEF Tick
  <2>2. QED
    BY <2>1
<1>7. CASE pairs' = pairs
  BY <1>7
<1>8. ASSUME NEW p \in Requests, Arrival(p), \A s \in Sources : ~AssertAllowed(p, s) PROVE pairs' = pairs
  BY <1>8, Zenon DEF Arrival, CompleteTwoFactorLogin, Disable2FA, Setup2FA, Confirm2FA, RemoveTwoFactor
<1>9. ASSUME NEW p \in Requests, HandlerStep(p), ~RecordFailure(p), ~RecordSuccess(p) PROVE pairs' = pairs
  BY <1>9, Zenon DEF HandlerStep, Consume, CodeRejected, CodeAccepted, StoreSecret, Enable, Disable, Fail
<1>10. QED
  BY <1>2, <1>3, <1>4, <1>5, <1>6, <1>7, <1>8, <1>9, RestartRestarts, Zenon DEF Next

(* For any limits, windows and number of requests in flight, a lock outlives *)
(* the requests that were under way when it was set: what                    *)
(* recordTwoFactorFailure and bump write keeps it as long as the window is   *)
(* open, prune drops no entry whose window is, and only a full map evicts.   *)
THEOREM LocksAreHeld == Spec => LocksHold
<1> DEFINE lock == Locked(failure) =>
                     \/ failure' \in {failure, AgedFailure(failure)}
                     \/ Restarted \/ Answering("verify", "accepted") # {}
                     \/ /\ Answering("verify", "codes") # {}
                        /\ failure.first < AttemptWindow => failure'.locked /\ failure'.lock = Lockout
           block(e) == \/ \E j \in DOMAIN pairs' : pairs'[j] \in {e, AgedPair(e)}
                       \/ Restarted
                       \/ \E p \in Answering("login", "compare") : BlockLifted(e, p)
           Held == /\ lock
                   /\ \A i \in DOMAIN pairs :
                        pairs[i].failures >= PairLimit /\ pairs[i].last < FailureWindow => block(pairs[i])
<1>1. SignInInv /\ [Next]_vars => [Held]_vars
  <2> SUFFICES ASSUME SignInInv, Next PROVE Held
    OBVIOUS
  <2>1. lock
    BY CodeLockHolds, Zenon
  <2>2. ASSUME NEW i \in DOMAIN pairs, pairs[i].last < FailureWindow PROVE block(pairs[i])
    BY <2>2, PairLockHolds, Zenon
  <2>3. QED
    BY <2>1, <2>2, Zenon
<1>2. QED
  BY <1>1, InitInv, NextInv, PTL DEF Spec, LocksHold, BlockLifted
=============================================================================
