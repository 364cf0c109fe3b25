---------------------------- MODULE MCGroupLife -----------------------------
(***************************************************************************)
(* Instances of GroupLife for TLC: a bond of three, and one whose second   *)
(* member is one above the greatest weight.                                *)
(***************************************************************************)
EXTENDS GroupLife

MCMaxWeight == 3
MCEndpoint(w, tok) == [family |-> "v4", local |-> "none", weight |-> w, token |-> tok]
MCBonds == {<<MCEndpoint(0, 0), MCEndpoint(MCMaxWeight, 1), MCEndpoint(1, 2)>>,
            <<MCEndpoint(0, 0), MCEndpoint(MCMaxWeight + 1, 1)>>}

=============================================================================
