------------------------------- MODULE Failover -------------------------------
(***************************************************************************)
(* What the router promises a client, whatever happens upstream: the       *)
(* resolved candidates are considered one by one, in the configured order  *)
(* and each at most once; a candidate is called or skipped; at most one    *)
(* candidate, the last one called, is ever committed to; after a commit,   *)
(* or once the request is answered, no candidate is called.                *)
(***************************************************************************)
EXTENDS Integers

CONSTANT N   \* number of resolved candidates, a natural number

VARIABLES
  considered, \* candidates 1..considered were called or skipped
  called,     \* the candidates whose upstream was called
  winner,     \* the candidate the response was committed to, or 0
  verdict     \* how the request ended, "open" until then

vars == <<considered, called, winner, verdict>>

Verdicts == {"open", "served", "rejected", "exhausted", "abandoned"}

TypeOK ==
  /\ considered \in 0 .. N
  /\ called \subseteq 1 .. N
  /\ winner \in 0 .. N
  /\ verdict \in Verdicts

Init ==
  /\ considered = 0
  /\ called = {}
  /\ winner = 0
  /\ verdict = "open"

Undecided == verdict = "open" /\ winner = 0

Skip ==
  /\ Undecided
  /\ considered < N
  /\ considered' = considered + 1
  /\ UNCHANGED <<called, winner, verdict>>

Call ==
  /\ Undecided
  /\ considered < N
  /\ considered' = considered + 1
  /\ called' = called \cup {considered + 1}
  /\ UNCHANGED <<winner, verdict>>

Commit ==
  /\ Undecided
  /\ considered \in called
  /\ winner' = considered
  /\ UNCHANGED <<considered, called, verdict>>

(* The committed response reached its end, well or not. *)
Serve ==
  /\ verdict = "open"
  /\ winner # 0
  /\ verdict' = "served"
  /\ UNCHANGED <<considered, called, winner>>

(* The request itself is at fault, by a candidate's word or because it     *)
(* cannot be put into the next candidate's form: it is not tried elsewhere. *)
Reject ==
  /\ Undecided
  /\ verdict' = "rejected"
  /\ UNCHANGED <<considered, called, winner>>

(* Every candidate was called or skipped, and none committed. *)
Exhaust ==
  /\ Undecided
  /\ considered = N
  /\ verdict' = "exhausted"
  /\ UNCHANGED <<considered, called, winner>>

(* The client left before anything was committed. *)
Abandon ==
  /\ Undecided
  /\ considered \in called
  /\ verdict' = "abandoned"
  /\ UNCHANGED <<considered, called, winner>>

Next == Skip \/ Call \/ Commit \/ Serve \/ Reject \/ Exhaust \/ Abandon

Spec == Init /\ [][Next]_vars
=============================================================================
