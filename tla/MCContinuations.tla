--------------------------- MODULE MCContinuations ---------------------------
(* Instances of Continuations for TLC. *)
EXTENDS Continuations, TLC

CONSTANTS p1, p2, k1, k2, k3

(* Goroutines and keys are interchangeable. *)
CacheSymmetry == Permutations(Procs) \cup Permutations(Keys)
=============================================================================
