--------------------------- MODULE MCCoordinator ---------------------------
(***************************************************************************)
(* Bounds for the coordinators: how far a ratchet advances, how much mail  *)
(* arrives, and how much of the two happens in one behaviour.  Generations *)
(* are bounded by MAX_GENERATION itself.                                   *)
(***************************************************************************)
EXTENDS Coordinator, TLC

CONSTANTS MaxSent, MaxMail, MaxWork

Bounded ==
    /\ mail <= MaxMail
    /\ \A h \in Handles : mem[h].sent <= MaxSent /\ mem[h].sent + mail <= MaxWork

\* Where no promise is left, nothing is left to check.
Watched == ~vouched

Symmetry == Permutations(Handles)
=============================================================================
