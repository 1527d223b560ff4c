------------------------------- MODULE Routing -------------------------------
(***************************************************************************)
(* Which candidates a request may use, under one configuration: validation *)
(* of the configuration (config.Validate) and resolution of a requested    *)
(* name to an ordered candidate list (package routing).                    *)
(*                                                                         *)
(* A configuration is a record of providers (a set of ids), models (from   *)
(* local model ids to the provider, the upstream's name of the model, ""   *)
(* if empty, and the capabilities declared unsupported), groups (from      *)
(* names to sequences of model ids) and the name of the default group.     *)
(***************************************************************************)
EXTENDS Integers, Sequences, SequencesExt

Validate(cfg) ==
  /\ \A m \in DOMAIN cfg.models :
       cfg.models[m].provider \in cfg.providers /\ cfg.models[m].upstream # ""
  /\ DOMAIN cfg.groups \cap DOMAIN cfg.models = {}
  /\ \A g \in DOMAIN cfg.groups :
       /\ \A i \in DOMAIN cfg.groups[g] : cfg.groups[g][i] \in DOMAIN cfg.models
       /\ IsInjective(cfg.groups[g])
  /\ cfg.default \in DOMAIN cfg.groups

(* A group, a model, or else the default group. *)
Resolve(cfg, requested) ==
  CASE requested \in DOMAIN cfg.groups -> cfg.groups[requested]
    [] requested \notin DOMAIN cfg.groups /\ requested \in DOMAIN cfg.models -> <<requested>>
    [] OTHER -> cfg.groups[cfg.default]

Candidate(cfg, id) ==
  [local |-> id, provider |-> cfg.models[id].provider, upstream |-> cfg.models[id].upstream]

Eligible(cfg, id, needs) ==
  /\ id \in DOMAIN cfg.models
  /\ cfg.models[id].provider \in cfg.providers
  /\ needs \cap cfg.models[id].lacks = {}

(* Candidates are left out, never reordered. *)
FilterCandidates(cfg, ids, needs) ==
  LET kept == SelectSeq(ids, LAMBDA id : Eligible(cfg, id, needs)) IN
  [i \in DOMAIN kept |-> Candidate(cfg, kept[i])]

ResolveCandidates(cfg, requested, needs) == FilterCandidates(cfg, Resolve(cfg, requested), needs)
=============================================================================
