--------------------------- MODULE MCVideoWindow ---------------------------
(* VideoWindow for TLC. *)
EXTENDS VideoWindow, TLC

Symmetry == Permutations(Page) \cup Permutations(Player)
              \cup Permutations(Info)
=============================================================================
