----------------------------- MODULE MCAccounts -----------------------------
(* Instances of Accounts for TLC. *)
EXTENDS Accounts, TLC

CONSTANTS u1, u2, u3, p1, p2, p3, g1

TwoUsers == {u1, u2}
ThreeUsers == {u1, u2, u3}
TwoRequests == {p1, p2}
ThreeRequests == {p1, p2, p3}
OneGrant == {g1}

Symmetric == Permutations(Requests) \cup Permutations(Users)
=============================================================================
