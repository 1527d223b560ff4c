-------------------------- MODULE MCResponsesStream --------------------------
(* An instance of ResponsesStream for TLC: two candidates of one provider. *)
EXTENDS ResponsesStream, Functions

CONSTANT p

ProvidersPP == <<p, p>>

(* The kinds of event that races and failover tell apart. *)
FewKinds == {"life", "delta", "completed"}

(* A bound: streams of more than two events, or of other kinds, only of    *)
(* the second candidate and after the first could not be opened.           *)
Scope ==
  \/ prod[1] = "idle"
  \/ /\ \A c \in Cands : /\ nread[c] <= 2
                         /\ \A k \in Range(held[c]) \cup Range(chan[c]) : k \in FewKinds
     /\ Range(read) \subseteq FewKinds

ScopedSpec == Init /\ [][Next /\ Scope']_vars /\ Fairness
=============================================================================
