-------------------------- MODULE MCWorkspaceSave --------------------------
(* Small instances of WorkspaceSave for TLC. *)
EXTENDS WorkspaceSave, TLC
CONSTANTS t1, t2, a, b, x, y
FaultsGoOn == ~calm  \* the states after it have nothing new for a safety property
Symmetry == Permutations(Tabs) \cup Permutations(Sections) \cup Permutations(Words)
=============================================================================
