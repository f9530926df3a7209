------------------------ MODULE MCCapturedOperation ------------------------
(* Small instances of CapturedOperation for TLC. *)
EXTENDS CapturedOperation, TLC
CONSTANTS w1, w2
AnyWorker == Permutations(Workers)
=============================================================================
