--------------------------- MODULE MCFlashSession ---------------------------
(* FlashSession on small instances. *)
EXTENDS FlashSession, TLC

Symmetry == Permutations(Blocks)
=============================================================================
