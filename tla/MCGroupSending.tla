--------------------------- MODULE MCGroupSending ---------------------------
(***************************************************************************)
(* A coordinator that sends, over two rosters: the second admits a         *)
(* member.                                                                 *)
(***************************************************************************)
EXTENDS GroupSending

CONSTANTS A, B, C

MCRosters ==
    <<[members |-> {A, B}, closed |-> FALSE],
      [members |-> {A, B, C}, closed |-> FALSE]>>

MCAudiences == {{B}, {B, C}}

MCSequences == <<2, 1>>

MCPositions == A :> 0 @@ B :> 3 @@ C :> 1

Symmetry == Permutations(Payloads)
=============================================================================
