------------------------------ MODULE MCGateway ------------------------------
(* An instance of Gateway for TLC. *)
EXTENDS Gateway

CONSTANTS r1, r2

Model(provider, upstream, lacks) ==
  [provider |-> provider, upstream |-> upstream, lacks |-> lacks]

(* Two models of two providers in the default group. *)
Base ==
  [providers |-> {"p", "q"},
   models |-> "a" :> Model("p", "a-of-p", {}) @@ "b" :> Model("q", "b-of-q", {}),
   groups |-> "g" :> <<"a", "b">>,
   default |-> "g"]

(* Model a has moved to the other provider, and b lost its tools. *)
Moved == [Base EXCEPT !.models["a"] = Model("q", "a-of-q", {}), !.models["b"].lacks = {"tools"}]

(* No model knows tools. *)
Bare == [Base EXCEPT !.models["a"].lacks = {"tools"}, !.models["b"].lacks = {"tools"}]

(* Invalid: model a has no provider. *)
Broken == [Base EXCEPT !.providers = {"q"}]

MCConfigs == {Base, Moved, Bare, Broken}

MCNeeds == {{"tools"}}

(* A bound: in a process that records usage the configuration and the      *)
(* clock stand still, as neither has to do with the records.               *)
Scope == enabled => reloads = 0 /\ now = 0

ScopedSpec == Init /\ [][Next /\ Scope']_vars /\ Fairness
=============================================================================
