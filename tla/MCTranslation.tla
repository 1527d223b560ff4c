---------------------------- MODULE MCTranslation ----------------------------
(* An instance of Translation for TLC.  Tool call ids are only compared    *)
(* with each other, so exchanging them changes nothing.                    *)
EXTENDS Translation

CONSTANTS t1, t2

IdSymmetry == Permutations(Ids)
=============================================================================
