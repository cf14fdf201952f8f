--------------------------- MODULE MCStreamFormat ---------------------------
(* StreamFormat for TLC. *)
EXTENDS StreamFormat, TLC

Symmetry == Permutations(Page) \cup Permutations(Player)
              \cup Permutations(Info)
=============================================================================
