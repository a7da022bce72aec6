------------------------------ MODULE MCSignIn ------------------------------
(* Instances of SignIn for TLC. *)
EXTENDS SignIn, TLC

CONSTANTS s1, s2, s3, k1, k2, k3, b1, b2, b3, p1, p2

ThreeSources == {s1, s2, s3}
ThreeSecrets == {k1, k2, k3}
ThreeBatches == {b1, b2, b3}
TwoRequests == {p1, p2}

Symmetric == Permutations(Sources) \cup Permutations(Secrets)
             \cup Permutations(Batches) \cup Permutations(Requests)
=============================================================================
