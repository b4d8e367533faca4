---------------------------- MODULE MCConnection ----------------------------
(***************************************************************************)
(* Two slots: the connection the client has, and the one before or after.  *)
(***************************************************************************)
EXTENDS RelayConnection, TLC

Symmetry == Permutations(Slots)
=============================================================================
