----------------------------- MODULE MCNonStream -----------------------------
(* Instances of NonStream for TLC. *)
EXTENDS NonStream

CONSTANTS p, q

(* Four candidates, alternating between two providers. *)
ProvidersPQPQ == <<p, q, p, q>>
=============================================================================
