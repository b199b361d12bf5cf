----------------------------- MODULE MCHousehold -----------------------------
(* Household for TLC: two users are on the allow list and one is not; the  *)
(* two are interchangeable, and so are the tokens and the entries.         *)
EXTENDS Household, TLC

Symmetry == Permutations(Allowed) \cup Permutations(Token) \cup Permutations(Entry)
=============================================================================
