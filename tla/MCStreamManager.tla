-------------------------- MODULE MCStreamManager --------------------------
(* StreamManager on a small instance: interchangeable callers and files.   *)
EXTENDS StreamManager, TLC

MCSymmetry == Permutations(Callers) \cup Permutations(Video)
=============================================================================
