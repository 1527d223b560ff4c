--------------------------- MODULE MCMessagesStream ---------------------------
(* Instances of MessagesStream for TLC. *)
EXTENDS MessagesStream

CONSTANT p

(* Two candidates of one provider. *)
ProvidersPP == <<p, p>>
=============================================================================
