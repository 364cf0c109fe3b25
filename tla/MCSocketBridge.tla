--------------------------- MODULE MCSocketBridge ---------------------------
(* SocketBridge with small instances. *)
EXTENDS SocketBridge, TLC

CONSTANTS s1, s2

MCSockets1 == {s1}
MCSockets2 == {s1, s2}

Symmetry == Permutations(Sockets)

=============================================================================
