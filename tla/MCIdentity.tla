----------------------------- MODULE MCIdentity -----------------------------
(* Instances of Identity for TLC. *)
EXTENDS Identity, TLC

CONSTANTS e1, e2, n1, n2, g1, g2, c1, c2, p1, p2

TwoEmails == {e1, e2}
TwoNames == {n1, n2}
TwoSubs == {g1, g2}
TwoChallenges == {c1, c2}
TwoRequests == {p1, p2}

(* Two identities meet on one email and one username, and one of them has   *)
(* changed its email.                                                       *)
MCCredentials == {[sub |-> g1, email |-> e1, name |-> n1],
                  [sub |-> g1, email |-> e2, name |-> n1],
                  [sub |-> g2, email |-> e1, name |-> n1]}

Symmetric == Permutations(Requests) \cup Permutations(Challenges)
=============================================================================
