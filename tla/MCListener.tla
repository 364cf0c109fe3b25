------------------------------ MODULE MCListener ------------------------------
(* Listener with three callers, one of which the filter rejects, and an       *)
(* accept channel that fills.                                                 *)
EXTENDS Listener

CONSTANTS c1, c2, c3

MCConns == {c1, c2, c3}
MCAllowed == {c1, c2}

===============================================================================
