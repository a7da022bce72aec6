----------------------------- MODULE MCLifecycle -----------------------------
(* Instances of ServerLifecycle for TLC. *)
EXTENDS ServerLifecycle, TLC

CONSTANTS s1, s2, p1, p2, p3

OneServer == {s1}
TwoServers == {s1, s2}
TwoRequests == {p1, p2}
ThreeRequests == {p1, p2, p3}

(* s1 is the larger: both fit in the larger host, only one in the smaller. *)
MCMem == [s \in Servers |-> IF s = s1 THEN 2 ELSE 1]

Symmetric == Permutations(Requests)
=============================================================================
