------------------------ MODULE MCDocumentAllowance ------------------------
(* Small instances of DocumentAllowance for TLC. *)
EXTENDS DocumentAllowance, TLC
CONSTANTS d1, d2, o1, o2, c1, c2, free, pro
SmallCaps == free :> 1 @@ pro :> 2
Symmetry  == Permutations(Legacy) \cup Permutations(Captured) \cup Permutations(Callers)
=============================================================================
