---------------------------- MODULE MCWebSession ----------------------------
(* WebSession and its serial variant for TLC: addresses and formats are    *)
(* interchangeable.                                                        *)
EXTENDS WebSessionSerial, TLC

Symmetry == Permutations(Page) \cup Permutations(Player)
              \cup Permutations(Info)
=============================================================================
