--------------------------- MODULE MCServerAccess ---------------------------
(* Instances of ServerAccess for TLC. *)
EXTENDS ServerAccess

CONSTANTS s1, s2, u1, p1, p2

OneServer == {s1}
OtherServers == {s2}
OneUser == {u1}
TwoRequests == {p1, p2}
AnyFailure == {"db"}
=============================================================================
