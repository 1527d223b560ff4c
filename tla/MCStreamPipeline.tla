--------------------------- MODULE MCStreamPipeline ---------------------------
(* Instances of StreamPipeline for TLC. *)
EXTENDS StreamPipeline
=============================================================================
