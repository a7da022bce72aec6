----------------------------- MODULE MCSessions -----------------------------
(* Instances of Sessions for TLC. *)
EXTENDS Sessions, TLC

CONSTANTS p1, p2, c1

TwoRequests == {p1, p2}
OneCode == {c1}

Symmetric == Permutations(Requests) \cup Permutations(Codes)
=============================================================================
