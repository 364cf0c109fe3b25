--------------------------- MODULE MCMemberRepair ---------------------------
(* MemberRepair for a bond of two endpoints, or of one. *)
EXTENDS MemberRepair, TLC

MCEndpoints == <<"A", "B">>
MCEndpoints1 == <<"A">>

=============================================================================
