------------------------- MODULE MCReserveRegistry -------------------------
(* Three assets for two ids: one waits for the other's slot. *)
EXTENDS ReserveRegistry, TLC

Alike == Permutations(User) \cup Permutations(Asset)
=============================================================================
