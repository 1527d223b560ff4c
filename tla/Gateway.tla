------------------------------- MODULE Gateway -------------------------------
(***************************************************************************)
(* The life of the server process around POST /v1/responses: requests are  *)
(* routed under the configuration of their arrival, with the stickiness of *)
(* previous_response_id (resolveWithAffinity, state.Memory), recorded in   *)
(* the usage store, while the configuration is reloaded, time passes, and  *)
(* the process is shut down, killed and started again (runServe).          *)
(*                                                                         *)
(* How one candidate list is worked off is detailed by ResponsesStream and *)
(* NonStream; here a call just fails or is answered.                       *)
(***************************************************************************)
EXTENDS Routing, UsageStore

CONSTANTS
  Requests,   \* requests; a response has the id of its request
  Streaming,  \* the requests whose clients ask for a stream
  Configs,    \* the configurations the operator may write
  Names,      \* model names clients ask for
  NeedsSets,  \* sets of required capabilities
  TTL,        \* lifetime of an affinity: 30 days in the code
  MaxClock,   \* bound: the last instant
  MaxReloads, \* bound: reloads
  MaxStarts   \* bound: starts of the process

ASSUME GatewayAssumption ==
  /\ TTL \in Nat
  /\ MaxClock \in Nat
  /\ Requests \cap {"", "foreign"} = {}
  /\ Streaming \subseteq Requests
  /\ \E cfg \in Configs : Validate(cfg)

VARIABLES
  cfg,     \* the active configuration
  reloads, \* number of reloads
  now,     \* the clock
  starts,  \* number of times the process was started
  phase,   \* the process: "up" or "gone"
  aff,     \* Memory.data: affinities by response id
  pc,      \* where the handler of each request is
  snap,    \* the configuration the request pinned, <<>> if there is none
  ask,     \* what the client asks: [name, needs, prev], prev "" if none;
           \* history: sure, the handler of prev had pinned it already
  cands,   \* candidates left to try
  tried,   \* the candidate of each attempt, in order; skipped ones count
  result,  \* "none", or the answer: "completed" or "incomplete"
  origin   \* history: who made each completed response, when and in which start

serverVars == <<cfg, reloads, now, starts, phase>>
vars == <<serverVars, aff, pc, snap, ask, cands, tried, result, origin, usageVars>>

Active == {r \in Requests : pc[r] \notin {"idle", "done", "dead"}}
Running == phase = "up"

(* Ids a client may continue: of completed responses that it has received, *)
(* the streamed ones while their handler still runs, or from elsewhere.    *)
Ids == {id \in DOMAIN origin : pc[id] \notin {"record", "answer"}} \cup {"foreign"}

NoAsk == [name |-> "", needs |-> {}, prev |-> "", sure |-> FALSE]

Init ==
  /\ cfg \in {c \in Configs : Validate(c)}
  /\ reloads = 0
  /\ now = 0
  /\ starts = 1
  /\ phase = "up"
  /\ aff = <<>>
  /\ pc = [r \in Requests |-> "idle"]
  /\ snap = [r \in Requests |-> <<>>]
  /\ ask = [r \in Requests |-> NoAsk]
  /\ cands = [r \in Requests |-> <<>>]
  /\ tried = [r \in Requests |-> <<>>]
  /\ result = [r \in Requests |-> "none"]
  /\ origin = <<>>
  /\ UsageInit

-----------------------------------------------------------------------------
(* The environment of the handlers.                                        *)

Tick ==
  /\ now < MaxClock
  /\ now' = now + 1
  /\ UNCHANGED <<cfg, reloads, starts, phase, aff, pc, snap, ask, cands, tried, result, origin, usageVars>>

(* TryReload keeps the active configuration if the new one is invalid. *)
TryReload(new) ==
  /\ Running
  /\ reloads < MaxReloads
  /\ reloads' = reloads + 1
  /\ cfg' = IF Validate(new) THEN new ELSE cfg
  /\ UNCHANGED <<now, starts, phase, aff, pc, snap, ask, cands, tried, result, origin, usageVars>>

-----------------------------------------------------------------------------
(* A request.                                                              *)

(* handleResponses pins the snapshot before anything else. *)
Receive(r, a) ==
  /\ Running
  /\ pc[r] = "idle"
  /\ a.prev \in Ids \cup {""}
  /\ pc' = [pc EXCEPT ![r] = "route"]
  /\ snap' = [snap EXCEPT ![r] = cfg]
  /\ LET sure == a.prev \in DOMAIN origin /\ pc[a.prev] # "pin" IN
       ask' = [ask EXCEPT ![r] = [name |-> a.name, needs |-> a.needs, prev |-> a.prev, sure |-> sure]]
  /\ UNCHANGED <<serverVars, aff, cands, tried, result, origin, usageVars>>

(* A mutant: candidates that were not called are counted too. *)
CountsCandidates(r) ==
  [req |-> r, attempts |-> Len(tried[r]) + Len(cands[r]), success |-> result[r] = "completed",
   provider |-> IF result[r] = "none" THEN "" ELSE tried[r][Len(tried[r])].provider]

(* The usage record of a request whose calls are over. *)
Record(r) ==
  [req |-> r, attempts |-> Len(tried[r]), success |-> result[r] = "completed",
   provider |-> IF result[r] = "none" THEN "" ELSE tried[r][Len(tried[r])].provider]

(* Without candidates the answer is 503, and then recorded. *)
Routed(r, list) ==
  /\ cands' = [cands EXCEPT ![r] = list]
  /\ pc' = [pc EXCEPT ![r] = IF list = <<>> THEN "log" ELSE "try"]

(* The handler returns, and its variables are gone. *)
Return(r) ==
  /\ pc' = [pc EXCEPT ![r] = "done"]
  /\ snap' = [snap EXCEPT ![r] = <<>>]
  /\ ask' = [ask EXCEPT ![r] = NoAsk]
  /\ cands' = [cands EXCEPT ![r] = <<>>]

Found(r) == ResolveCandidates(snap[r], ask[r].name, ask[r].needs)

RouteFresh(r) ==
  /\ pc[r] = "route"
  /\ ask[r].prev = ""
  /\ Routed(r, Found(r))
  /\ UNCHANGED <<serverVars, aff, snap, ask, tried, result, origin, usageVars>>

(* A mutant: a continuation goes where the model is now configured. *)
CurrentPlace(r, a) == Candidate(snap[r], a.local)

(* The provider that made the response, but the upstream model that the    *)
(* local model has now.                                                    *)
Pinned(r, a) ==
  [local |-> a.local, provider |-> a.provider, upstream |-> snap[r].models[a.local].upstream]

Expired(a) == now - a.at > TTL

(* A known previous response: its origin, or nobody (400, not recorded). *)
RouteSticky(r) ==
  /\ pc[r] = "route"
  /\ ask[r].prev \in DOMAIN aff
  /\ LET a == aff[ask[r].prev] IN
       /\ ~Expired(a)
       /\ IF /\ a.local \in DOMAIN snap[r].models
             /\ a.provider \in snap[r].providers
             /\ Eligible(snap[r], a.local, ask[r].needs)
          THEN Routed(r, <<Pinned(r, a)>>) /\ UNCHANGED <<snap, ask>>
          ELSE Return(r)
  /\ UNCHANGED <<serverVars, aff, tried, result, origin, usageVars>>

(* An unknown one is sent to the first candidate only. *)
FirstOnly(r) == Routed(r, IF Found(r) = <<>> THEN <<>> ELSE <<Head(Found(r))>>)

RouteUnknown(r) ==
  /\ pc[r] = "route"
  /\ ask[r].prev # ""
  /\ ask[r].prev \notin DOMAIN aff
  /\ FirstOnly(r)
  /\ UNCHANGED <<serverVars, aff, snap, ask, tried, result, origin, usageVars>>

(* Get found an expired affinity and has let go of the read lock. *)
FindExpired(r) ==
  /\ pc[r] = "route"
  /\ ask[r].prev \in DOMAIN aff
  /\ Expired(aff[ask[r].prev])
  /\ pc' = [pc EXCEPT ![r] = "purge"]
  /\ UNCHANGED <<serverVars, aff, snap, ask, cands, tried, result, origin, usageVars>>

PurgeExpired(r) ==
  /\ pc[r] = "purge"
  /\ aff' = [id \in DOMAIN aff \ {ask[r].prev} |-> aff[id]]
  /\ FirstOnly(r)
  /\ UNCHANGED <<serverVars, snap, ask, tried, result, origin, usageVars>>

Try(r, entries) == tried' = [tried EXCEPT ![r] = @ \o entries]

(* An attempt fails: the next candidate, or, after the last one or a       *)
(* client error, the end.  A non-streaming request whose context is done   *)
(* has two entries for its last candidate.                                 *)
CallFails(r) ==
  /\ pc[r] = "try"
  /\ LET c == Head(cands[r]) IN
       \/ /\ Len(cands[r]) > 1
          /\ Try(r, <<c>>)
          /\ UNCHANGED pc
       \/ /\ Try(r, <<c>>) \/ Try(r, <<c, c>>)
          /\ pc' = [pc EXCEPT ![r] = "record"]
  /\ cands' = [cands EXCEPT ![r] = Tail(@)]
  /\ UNCHANGED <<serverVars, aff, snap, ask, result, origin, usageVars>>

With(f, id, entry) == [i \in DOMAIN f \cup {id} |-> IF i = id THEN entry ELSE f[i]]

Made(c) == [provider |-> c.provider, upstream |-> c.upstream, at |-> now, start |-> starts]

Affinity(c) == [local |-> c.local, provider |-> c.provider, at |-> now]

(* A call without stream is answered: onOpenAISuccess pins a completed     *)
(* response to its origin before anything is written to the client.        *)
CallServes(r, res) ==
  /\ pc[r] = "try"
  /\ r \notin Streaming
  /\ Try(r, <<Head(cands[r])>>)
  /\ LET c == Head(cands[r]) IN
     IF res = "completed"
     THEN aff' = With(aff, r, Affinity(c)) /\ origin' = With(origin, r, Made(c))
     ELSE UNCHANGED <<aff, origin>>
  /\ result' = [result EXCEPT ![r] = res]
  /\ pc' = [pc EXCEPT ![r] = "record"]
  /\ UNCHANGED <<serverVars, snap, ask, cands, usageVars>>

(* A stream is committed to and written to its end: the client has the id  *)
(* when the terminal event is flushed, before the affinity is set.         *)
StreamServes(r, res) ==
  /\ pc[r] = "try"
  /\ r \in Streaming
  /\ Try(r, <<Head(cands[r])>>)
  /\ origin' = IF res = "completed" THEN With(origin, r, Made(Head(cands[r]))) ELSE origin
  /\ result' = [result EXCEPT ![r] = res]
  /\ pc' = [pc EXCEPT ![r] = IF res = "completed" THEN "pin" ELSE "log"]
  /\ UNCHANGED <<serverVars, aff, snap, ask, cands, usageVars>>

(* Back in serveResponsesStream: Affinity.Set. *)
PinStreamed(r) ==
  /\ pc[r] = "pin"
  /\ aff' = With(aff, r, Affinity(Head(cands[r])))
  /\ pc' = [pc EXCEPT ![r] = "log"]
  /\ UNCHANGED <<serverVars, snap, ask, cands, tried, result, origin, usageVars>>

(* The usage record comes before the answer, *)
RecordUsage(r) ==
  /\ pc[r] = "record"
  /\ RecordRequest(Record(r))
  /\ pc' = [pc EXCEPT ![r] = "answer"]
  /\ UNCHANGED <<serverVars, aff, snap, ask, cands, tried, result, origin>>

Answer(r) ==
  /\ pc[r] = "answer"
  /\ Return(r)
  /\ UNCHANGED <<serverVars, aff, tried, result, origin, usageVars>>

(* except after a committed stream and without candidates. *)
Finish(r) ==
  /\ pc[r] = "log"
  /\ RecordRequest(Record(r))
  /\ Return(r)
  /\ UNCHANGED <<serverVars, aff, tried, result, origin>>

Handle(r) ==
  /\ Running
  /\ \/ RouteFresh(r)
     \/ RouteSticky(r)
     \/ RouteUnknown(r)
     \/ FindExpired(r)
     \/ PurgeExpired(r)
     \/ CallFails(r)
     \/ \E res \in {"completed", "incomplete"} : CallServes(r, res) \/ StreamServes(r, res)
     \/ PinStreamed(r)
     \/ RecordUsage(r)
     \/ Answer(r)
     \/ Finish(r)

-----------------------------------------------------------------------------
(* The process.                                                            *)

Writer ==
  /\ Running
  /\ WriterTakes \/ \E rec \in writing : InsertRow(rec)
  /\ UNCHANGED <<serverVars, aff, pc, snap, ask, cands, tried, result, origin>>

(* On a signal, Shutdown refuses new requests (as if none were sent) and   *)
(* returns when no request is left, or after its 10 seconds; with the      *)
(* deferred Close the process ends, whatever is still queued.  Or it is    *)
(* killed at any time.                                                     *)
Ends ==
  /\ Running
  /\ phase' = "gone"
  /\ pc' = [r \in Requests |-> IF r \in Active THEN "dead" ELSE pc[r]]
  /\ snap' = [r \in Requests |-> <<>>]
  /\ ask' = [r \in Requests |-> NoAsk]
  /\ cands' = [r \in Requests |-> <<>>]
  /\ aff' = <<>>
  /\ CloseAndReopen
  /\ UNCHANGED <<cfg, reloads, now, starts, tried, result, origin>>

(* A new process: only the database and the configuration file are left. *)
Start ==
  /\ phase = "gone"
  /\ starts < MaxStarts
  /\ starts' = starts + 1
  /\ phase' = "up"
  /\ UNCHANGED <<cfg, reloads, now, aff, pc, snap, ask, cands, tried, result, origin, usageVars>>

Next ==
  \/ Tick
  \/ \E new \in Configs : TryReload(new)
  \/ \E r \in Requests, name \in Names, needs \in NeedsSets, prev \in Ids \cup {""} :
       Receive(r, [name |-> name, needs |-> needs, prev |-> prev])
  \/ \E r \in Requests : Handle(r)
  \/ Writer
  \/ Ends
  \/ Start

Spec == Init /\ [][Next]_vars

(* Handlers run, and every upstream call comes to an end (which the models *)
(* of the handlers show); nothing is assumed of the usage writer.          *)
Fairness == \A r \in Requests : WF_vars(Handle(r))

FairSpec == Spec /\ Fairness

-----------------------------------------------------------------------------
(* Properties.                                                             *)

(* The response r continues was completed in this process, within TTL, and *)
(* its handler had set the affinity when the continuation came in.         *)
Pinnable(r) ==
  /\ ask[r].sure
  /\ ask[r].prev \in DOMAIN origin
  /\ origin[ask[r].prev].start = starts
  /\ ~(now - origin[ask[r].prev].at > TTL)

(* previous_response_id is never moved about: no request sends it to two   *)
(* upstreams, and while its response is within its lifetime, in the        *)
(* process that received it, it goes to the provider that made it or to    *)
(* nobody, through every reload, purge and concurrent request.  It holds   *)
(* from the moment the affinity is set: always if the response was not     *)
(* streamed, and for a streamed one not for a client that continues it     *)
(* between its last event and PinStreamed.                                 *)
PreviousGoesHome ==
  [][\A r \in Requests : tried'[r] # tried[r] /\ ask[r].prev # "" =>
       /\ tried[r] = <<>>
       /\ Pinnable(r) => tried'[r][1].provider = origin[ask[r].prev].provider]_vars

(* "ResponseAffinity pins previous_response_id to its origin               *)
(* provider/model": the continuation also goes to the model that made the  *)
(* response.                                                               *)
PreviousKeepsModel ==
  [][\A r \in Requests : tried'[r] # tried[r] /\ Pinnable(r) =>
       /\ tried'[r][1].provider = origin[ask[r].prev].provider
       /\ tried'[r][1].upstream = origin[ask[r].prev].upstream]_vars

(* The calls of a request are over and recorded, or died with the process. *)
Over == {"answer", "done", "dead"}

(* What a record says of its request is what happened. *)
Honest(rec) ==
  /\ rec.req \in Requests
  /\ pc[rec.req] \in Over
  /\ rec.attempts = Len(tried[rec.req])
  /\ rec.success <=> result[rec.req] = "completed"
  /\ IF result[rec.req] = "none" THEN rec.provider = ""
     ELSE rec.provider = tried[rec.req][Len(tried[rec.req])].provider

(* No request is recorded twice, in the queue or in the tables. *)
Once ==
  /\ \A i, j \in DOMAIN queue : queue[i].req = queue[j].req => i = j
  /\ \A i \in DOMAIN queue : \A rec \in writing \cup rows : queue[i].req # rec.req
  /\ \A rec, row \in writing \cup rows : rec.req = row.req => rec = row

(* The usage tables tell the truth and tell it once, through full queues,  *)
(* failing statements, shutdowns and crashes in between two rows: a        *)
(* request row is of a request whose calls are over and has the number of  *)
(* its attempts, the provider that answered and whether that answer was    *)
(* complete; an attempt row is of such an attempt; no record is inserted   *)
(* twice.                                                                  *)
LedgerHonest ==
  /\ \A row \in rows : Honest(row)
  /\ \A t \in tries : pc[t[1]] \in Over /\ t[2] \in DOMAIN tried[t[1]]
  /\ Once

(* Storage failure is never inference failure: every request ends, though  *)
(* the usage writer may be stuck and its queue full forever.               *)
RequestsEnd == \A r \in Requests : pc[r] = "route" ~> pc[r] \in {"done", "dead"}
=============================================================================
