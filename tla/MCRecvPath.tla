----------------------------- MODULE MCRecvPath -----------------------------
(***************************************************************************)
(* RecvPath for TLC: two members, and three packets, but two for a         *)
(* caller's group, which has by far the most states.                       *)
(***************************************************************************)
EXTENDS RecvPath

MCMembers == {1, 2}
MCMaxPackets == [k \in KindOfHandle |-> IF k = "group" THEN 2 ELSE 3]

=============================================================================
