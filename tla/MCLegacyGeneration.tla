------------------------- MODULE MCLegacyGeneration -------------------------
(* Small instances of LegacyGeneration for TLC. *)
EXTENDS LegacyRefinement, TLC
CONSTANTS w1, w2, s1, s2, s3
OwnSection == [s \in Stages |-> s]      \* every stage writes its own section
OneSection == [s \in Stages |-> s1]     \* all stages write the section of s1
AnyWorker  == Permutations(Workers)
AnyRepair  == Permutations(Stages \ DraftStages)
=============================================================================
