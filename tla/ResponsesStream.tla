--------------------------- MODULE ResponsesStream ---------------------------
(***************************************************************************)
(* A streaming POST /v1/responses (or /hoard/v1/responses) request: the    *)
(* failover loop of serveResponsesStream over the resolved candidates and  *)
(* the commit and post-commit halves of precommitAndStreamOpenAI.          *)
(***************************************************************************)
EXTENDS StreamAttempt

VARIABLES
  keyed,      \* the providers whose API key is configured (never changes)
  hoard,      \* the request came through the Hoard endpoint (never changes)
  attempts,   \* the AttemptErrors collected so far
  authFailed, \* providers that answered 401 or 403
  called,     \* candidates whose upstream was called
  status,     \* HTTP status written to the client, 0 before WriteHeader
  out,        \* SSE events written to the client after a commit
  committed,  \* the candidate committed to, 0 if none
  terminal,   \* a terminal event was observed
  success,
  errClass,
  usage,      \* usage records written for this request
  affinity    \* the candidate the response id was pinned to, 0 if none

requestVars == <<keyed, hoard>>
routeVars == <<attempts, authFailed, called>>
resultVars == <<terminal, success, errClass>>
answerVars == <<status, out, committed, resultVars, usage, affinity>>
vars == <<attemptVars, requestVars, routeVars, answerVars>>

TerminalKinds == {"completed", "empty", "incomplete", "failed"}

(* Events the gateway writes itself: the Hoard routing event, which is the *)
(* first of a committed stream, and the error event that ends a broken one. *)
GatewayKinds == {"routing", "error"}

EndErrors == {"", "client", "upstream", "upstream_eof", "timeout", "failed", "incomplete"}

AttemptErrors == [cand : Cands, class : Classes, skipped : BOOLEAN]
UsageRows == [cand : 0 .. N, success : BOOLEAN, class : EndErrors \cup Classes,
              attempts : Nat]

RouteTypeOK ==
  /\ keyed \subseteq Providers
  /\ hoard \in BOOLEAN
  /\ attempts \in Seq(AttemptErrors)
  /\ authFailed \subseteq Providers
  /\ called \subseteq Cands

AnswerTypeOK ==
  /\ status \in {0, 200, 400, 502, 503}
  /\ out \in Seq(Kinds \cup GatewayKinds)
  /\ committed \in 0 .. N
  /\ terminal \in BOOLEAN
  /\ success \in BOOLEAN
  /\ errClass \in EndErrors
  /\ usage \in Seq(UsageRows)
  /\ affinity \in 0 .. N

TypeOK == AttemptTypeOK /\ RouteTypeOK /\ AnswerTypeOK

Init ==
  /\ AttemptInit
  /\ keyed \in SUBSET Providers
  /\ hoard \in BOOLEAN
  /\ attempts = <<>>
  /\ authFailed = {}
  /\ called = {}
  /\ status = 0
  /\ out = <<>>
  /\ committed = 0
  /\ terminal = FALSE
  /\ success = FALSE
  /\ errClass = ""
  /\ usage = <<>>
  /\ affinity = 0

-----------------------------------------------------------------------------
(* Helpers of the failover loop. *)
Attempt(class, skipped) == [cand |-> cur, class |-> class, skipped |-> skipped]

Provider == ProviderOf[cur]

(* recordUsage with the attempts collected so far and no routed candidate. *)
RecordFailure(class, rows) ==
  usage' = Append(usage, [cand |-> 0, success |-> FALSE, class |-> class, attempts |-> Len(rows)])

AllKeyMissing(rows) == \A j \in DOMAIN rows : rows[j].skipped

(* A mutant: the refused provider is not remembered. *)
ForgetAuth(class) == UNCHANGED authFailed

NoteAuth(class) ==
  authFailed' = IF class = "auth" THEN authFailed \cup {Provider} ELSE authFailed

-----------------------------------------------------------------------------
(* Skip a candidate whose provider failed authentication or has no key. *)
SkipCandidate ==
  /\ pc = "next"
  /\ cur <= N
  /\ \/ /\ Provider \in authFailed
        /\ attempts' = Append(attempts, Attempt("auth", TRUE))
     \/ /\ Provider \notin authFailed
        /\ Provider \notin keyed
        /\ attempts' = Append(attempts, Attempt("unknown", TRUE))
  /\ cur' = cur + 1
  /\ UNCHANGED <<pc, dialErr, clientVars, deadlineVars, readerVars, releaseVars, bufferVars,
                 requestVars, authFailed, called, answerVars>>

TryCandidate ==
  /\ pc = "next"
  /\ cur <= N
  /\ Provider \notin authFailed
  /\ Provider \in keyed
  /\ called' = called \cup {cur}
  /\ BeginAttempt
  /\ UNCHANGED <<requestVars, attempts, authFailed, answerVars>>

(* A mutant: the class is taken from the error. *)
DialClassAsReported == dialErr

(* An expired deadline overrides the class of DoStream's error, which may  *)
(* say no more than that its context was cancelled.                        *)
DialClass == IF expired THEN "timeout" ELSE dialErr

(* DoStream returned an error. *)
DialFailed ==
  /\ pc = "judge"
  /\ dialErr # "none"
  /\ LET class == DialClass
         rows == Append(attempts, Attempt(class, FALSE)) IN
       /\ attempts' = rows
       /\ NoteAuth(class)
       /\ \/ /\ class = "client"
             /\ RecordFailure("client", rows)
             /\ status' = 400
             /\ pc' = "done"
             /\ cur' = cur
          \/ /\ class # "client"
             /\ pc' = "next"
             /\ cur' = cur + 1
             /\ UNCHANGED <<usage, status>>
  /\ ReleaseAttempt
  /\ UNCHANGED <<dialErr, clientVars, deadlineVars, readerVars, closed, stop, bufferVars,
                 requestVars, called, out, committed, resultVars, affinity>>

(* DoStream succeeded, but only after the deadline had fired. *)
DialTimedOut ==
  /\ pc = "judge"
  /\ dialErr = "none"
  /\ expired
  /\ closed' = [closed EXCEPT ![cur] = TRUE]
  /\ ReleaseAttempt
  /\ attempts' = Append(attempts, Attempt("timeout", FALSE))
  /\ pc' = "next"
  /\ cur' = cur + 1
  /\ UNCHANGED <<dialErr, clientVars, deadlineVars, readerVars, stop, bufferVars,
                 requestVars, authFailed, called, answerVars>>

DialSucceeded ==
  /\ pc = "judge"
  /\ dialErr = "none"
  /\ ~expired
  /\ StartReader
  /\ UNCHANGED <<requestVars, routeVars, answerVars>>

-----------------------------------------------------------------------------
(* r.Context().Err() # nil: the request context, not the attempt's. *)
ClientLeft == clientGone

(* The precommit failed.  A client error ends the request with a 400; a    *)
(* client that left gets no answer; otherwise the loop moves on.           *)
PrecommitFailed ==
  /\ pc = "failed"
  /\ ReleaseAttempt
  /\ LET rows == Append(attempts, Attempt(failErr, FALSE)) IN
       /\ attempts' = rows
       /\ NoteAuth(failErr)
       /\ \/ /\ failErr = "client"
             /\ RecordFailure("client", rows)
             /\ status' = 400
             /\ pc' = "done"
             /\ UNCHANGED <<cur, closed>>
          \/ /\ failErr # "client"
             /\ ClientLeft
             /\ closed' = [closed EXCEPT ![cur] = TRUE]
             /\ RecordFailure("client", rows)
             /\ pc' = "done"
             /\ UNCHANGED <<cur, status>>
          \/ /\ failErr # "client"
             /\ ~ClientLeft
             /\ closed' = [closed EXCEPT ![cur] = TRUE]
             /\ pc' = "next"
             /\ cur' = cur + 1
             /\ UNCHANGED <<usage, status>>
  /\ UNCHANGED <<dialErr, clientVars, deadlineVars, readerVars, stop, bufferVars,
                 requestVars, called, out, committed, resultVars, affinity>>

(* Every candidate failed or was skipped before a commit. *)
AllFailed ==
  /\ pc = "next"
  /\ cur = N + 1
  /\ status' = IF attempts # <<>> /\ AllKeyMissing(attempts) THEN 503 ELSE 502
  /\ RecordFailure("upstream", attempts)
  /\ pc' = "done"
  /\ UNCHANGED <<cur, dialErr, clientVars, deadlineVars, readerVars, releaseVars, bufferVars,
                 requestVars, routeVars, out, committed, resultVars, affinity>>

-----------------------------------------------------------------------------
(* A mutant: a truncated response counts as a success. *)
ObserveLax(k) ==
  /\ terminal' = (k \in TerminalKinds \/ terminal)
  /\ success' = (k \in {"completed", "empty", "incomplete"} \/ (k \notin TerminalKinds /\ success))
  /\ errClass' = IF k \in {"failed", "incomplete"} THEN k ELSE errClass

(* observe: what an upstream event says about the outcome. *)
Observe(k) ==
  /\ terminal' = (k \in TerminalKinds \/ terminal)
  /\ success' = (k \in {"completed", "empty"} \/ (k \notin TerminalKinds /\ success))
  /\ errClass' = IF k \in {"failed", "incomplete"} THEN k ELSE errClass

(* Commit: write the 200 header, announce the route (Hoard) and forward    *)
(* the buffered events, of which only the last is meaningful.              *)
CommitStream ==
  /\ pc = "commit"
  /\ status' = 200
  /\ committed' = cur
  /\ out' = (IF hoard THEN <<"routing">> ELSE <<>>) \o buf
  /\ LET last == buf[Len(buf)] IN
       /\ Observe(last)
       /\ \/ /\ last \in TerminalKinds
             /\ closed' = [closed EXCEPT ![cur] = TRUE]
             /\ stop' = [stop EXCEPT ![cur] = TRUE]
             /\ pc' = "finish"
          \/ /\ last \notin TerminalKinds
             /\ pc' = "stream"
             /\ UNCHANGED <<closed, stop>>
  /\ UNCHANGED <<cur, dialErr, clientVars, deadlineVars, readerVars, cancelled, bufferVars,
                 requestVars, routeVars, usage, affinity>>

(* A mutant: a broken committed stream is tried again. *)
EndStreamRetries ==
  /\ pc' = "next"
  /\ closed' = [closed EXCEPT ![cur] = TRUE]
  /\ stop' = [stop EXCEPT ![cur] = TRUE]

(* The post-commit loop returns: it closes st and (deferred) stopReader. *)
EndStream ==
  /\ pc' = "finish"
  /\ closed' = [closed EXCEPT ![cur] = TRUE]
  /\ stop' = [stop EXCEPT ![cur] = TRUE]

StreamCancelled ==
  /\ pc = "stream"
  /\ CtxDone(cur)
  /\ success' = FALSE
  /\ errClass' = "client"
  /\ EndStream
  /\ UNCHANGED <<cur, dialErr, clientVars, deadlineVars, readerVars, cancelled, bufferVars,
                 requestVars, routeVars, status, out, committed, terminal, usage, affinity>>

(* A mutant: the broken stream just ends. *)
ErrorEventForgotten == UNCHANGED out

(* errorEvent: the gateway ends the client's stream itself. *)
ErrorEvent == out' = Append(out, "error")

(* Forward one event; on Hoard an empty completion becomes an error event. *)
StreamForward ==
  /\ pc = "stream"
  /\ chan[cur] # <<>>
  /\ LET k == Head(chan[cur]) IN
       \/ /\ hoard /\ IsEmptyCompletion(k)
          /\ terminal' = TRUE
          /\ success' = FALSE
          /\ errClass' = "upstream"
          /\ ErrorEvent
          /\ EndStream
       \/ /\ ~(hoard /\ IsEmptyCompletion(k))
          /\ Observe(k)
          /\ out' = Append(out, k)
          /\ \/ k \in TerminalKinds /\ EndStream
             \/ k \notin TerminalKinds /\ UNCHANGED <<pc, closed, stop>>
  /\ chan' = [chan EXCEPT ![cur] = <<>>]
  /\ UNCHANGED <<cur, dialErr, clientVars, deadlineVars, prod, held, nread, read, stErr,
                 cancelled, bufferVars, requestVars, routeVars, status, committed, usage,
                 affinity>>

(* steps is closed: the upstream broke off, the gateway ends the stream. *)
StreamBroken ==
  /\ pc = "stream"
  /\ prod[cur] = "exit"
  /\ chan[cur] = <<>>
  /\ success' = FALSE
  /\ errClass' = IF stErr[cur] # "none" THEN "upstream" ELSE "upstream_eof"
  /\ ErrorEvent
  /\ EndStream
  /\ UNCHANGED <<cur, dialErr, clientVars, deadlineVars, readerVars, cancelled, bufferVars,
                 requestVars, routeVars, status, committed, terminal, usage, affinity>>

StreamIdle ==
  /\ pc = "stream"
  /\ success' = FALSE
  /\ errClass' = "timeout"
  /\ ErrorEvent
  /\ EndStream
  /\ UNCHANGED <<cur, dialErr, clientVars, deadlineVars, readerVars, cancelled, bufferVars,
                 requestVars, routeVars, status, committed, terminal, usage, affinity>>

(* Affinity.Set, if the response succeeded and its events carried an id. *)
PinResponse == \E hasID \in BOOLEAN : affinity' = IF success /\ hasID THEN cur ELSE affinity

(* After the committed stream: release the attempt, pin the response, and  *)
(* record usage.                                                           *)
FinishCommitted ==
  /\ pc = "finish"
  /\ ReleaseAttempt
  /\ PinResponse
  /\ usage' = Append(usage, [cand |-> cur, success |-> success, class |-> errClass,
                             attempts |-> Len(attempts) + 1])
  /\ pc' = "done"
  /\ UNCHANGED <<cur, dialErr, clientVars, deadlineVars, readerVars, closed, stop, bufferVars,
                 requestVars, routeVars, status, out, committed, resultVars>>

-----------------------------------------------------------------------------
Route ==
  \/ SkipCandidate
  \/ TryCandidate
  \/ DialFailed
  \/ DialTimedOut
  \/ DialSucceeded
  \/ PrecommitFailed
  \/ AllFailed

Deliver ==
  \/ CommitStream
  \/ StreamCancelled
  \/ StreamForward
  \/ StreamBroken
  \/ StreamIdle
  \/ FinishCommitted

Attempting ==
  /\ Dial \/ Collect \/ \E c \in Cands : Reader(c)
  /\ UNCHANGED <<requestVars, routeVars, answerVars>>

(* The request is over and every goroutine it started has exited. *)
Quiescent ==
  /\ pc = "done"
  /\ \A c \in Cands : prod[c] \in {"idle", "exit"}
  /\ UNCHANGED vars

Next == Route \/ Deliver \/ Attempting \/ Quiescent

Fairness == AttemptFairness /\ WF_vars(Route \/ Deliver)

Spec == Init /\ [][Next]_vars

FairSpec == Spec /\ Fairness

-----------------------------------------------------------------------------
(* The inductive invariant behind the safety properties.                   *)

(* The loop is at candidate cur: it has called no later one, and it has    *)
(* called cur exactly while (or after) the attempt on cur runs.            *)
LoopInv ==
  /\ called \subseteq 1 .. cur
  /\ pc = "next" => cur \notin called
  /\ pc \notin {"next", "done"} => cur \in called
  /\ pc = "failed" => failErr # "none"

(* The commit state of each control point: no answer before the commit,    *)
(* the current candidate's 200 after it.                                   *)
CommitInv ==
  /\ pc \in {"next", "dialing", "dialed", "judge", "collect", "failed", "commit"} =>
       committed = 0 /\ status = 0
  /\ pc \in {"stream", "finish"} => committed = cur /\ status = 200
  /\ pc = "done" => IF committed = 0 THEN status # 200 ELSE committed = cur /\ status = 200
  /\ pc = "done" /\ status = 0 => clientGone
  /\ pc = "done" /\ status = 400 /\ committed = 0 => cur \in called
  /\ pc = "done" /\ status = 0 => cur \in called
  /\ pc = "done" /\ status \in {502, 503} => cur = N + 1

(* The deadline callback can only run while the handler is inside DoStream *)
(* or waiting for it, and only a cancelled candidate is behind the loop.   *)
DeadlineInv ==
  /\ timer \in {"armed", "firing", "expired"} => pc \in {"dialing", "dialed"}
  /\ timer \in {"expired", "finished"} => expired
  /\ \A c \in Cands : c > cur \/ (c = cur /\ pc = "next") => ~cancelled[c]
  /\ pc \in {"dialing", "dialed", "judge"} /\ cancelled[cur] => timer = "finished"
  /\ pc \in {"collect", "commit", "stream"} => ~cancelled[cur]

IInv == TypeOK /\ LoopInv /\ CommitInv /\ DeadlineInv

-----------------------------------------------------------------------------
(* Safety.                                                                 *)

(* The abstract failover promise, with this handler's state mapped to it. *)
Considered == IF cur \in called /\ pc # "next" THEN cur ELSE cur - 1

Verdict ==
  IF pc # "done" THEN "open"
  ELSE IF committed # 0 THEN "served"
  ELSE IF status = 400 THEN "rejected"
  ELSE IF status = 0 THEN "abandoned"
  ELSE "exhausted"

Promise == INSTANCE Failover WITH
  considered <- Considered, called <- called, winner <- committed, verdict <- Verdict

(* serveResponsesStream implements the failover promise: configured order, *)
(* each candidate at most once, no call after a commit or an answer.       *)
FailoverSpec == Promise!Spec

(* Only a client that left goes without an answer: every return of the     *)
(* handler has written a status, except the one after a disconnect.        *)
AnsweredOrGone == pc = "done" /\ ~clientGone => status # 0

(* WriteHeader is final: no later candidate, error path or exhausted loop  *)
(* writes a second status, and nothing is written once the handler is done. *)
AnsweredOnce ==
  [][/\ status # 0 => status' = status
     /\ pc = "done" => out' = out]_vars

(* A committed SSE stream ends with exactly one terminal event, upstream's *)
(* or the gateway's own error, unless the client disconnected.             *)
EndsClientStream(k) == k \in TerminalKinds \cup {"error"}

TerminatedOnce ==
  pc = "done" /\ committed # 0 /\ errClass # "client" =>
    /\ out # <<>>
    /\ EndsClientStream(out[Len(out)])
    /\ \A j \in 1 .. Len(out) - 1 : ~EndsClientStream(out[j])

(* "Events are never split or lost": what the handler holds or forwarded,  *)
(* the channel and the reader's hand make up what the upstream sent.       *)
Forwarded == IF hoard THEN Tail(out) ELSE out

NoEventLost ==
  /\ pc \in {"collect", "commit"} => buf \o chan[cur] \o held[cur] = read
  /\ pc = "stream" => Forwarded \o chan[cur] \o held[cur] = read

(* A provider that answered 401/403 is not called again for this request. *)
AuthFailureSticks ==
  \A j, m \in DOMAIN attempts :
    /\ j < m
    /\ attempts[j].class = "auth"
    /\ ProviderOf[attempts[j].cand] = ProviderOf[attempts[m].cand]
    => attempts[m].skipped

(* While a stream is being collected or forwarded, only the client can     *)
(* have cancelled its context: the deadline callback never reaches a       *)
(* stream whose DoStream returned in time.                                 *)
HealthyNotCancelled == pc \in {"collect", "commit", "stream"} => ~cancelled[cur]

(* At most one upstream call is alive: an attempt is cancelled before the  *)
(* next one starts, and all are when the handler returns.                  *)
OneLiveUpstream ==
  \A c \in called : c # cur \/ pc \in {"next", "done"} => cancelled[c]

(* The loop over the candidates as a whole: refused providers, the release *)
(* of attempts, and an answer for every client that is still there.        *)
RoutingInv == AuthFailureSticks /\ OneLiveUpstream /\ AnsweredOrGone

(* Exactly one usage record per request; it names the committed candidate, *)
(* counts every candidate considered, and says success exactly if the      *)
(* client's stream ended with response.completed.  previous_response_id is *)
(* pinned only to the candidate that served such a response.               *)
RecordsTellOutcome ==
  pc = "done" =>
    /\ Len(usage) = 1
    /\ usage[1].cand = committed
    /\ usage[1].attempts = Considered
    /\ usage[1].success <=> out # <<>> /\ out[Len(out)] \in {"completed", "empty"}
    /\ affinity # 0 => affinity = committed /\ usage[1].success

(* A success delivered output: an upstream whose whole answer is an empty  *)
(* completion is failed over, and Hoard never reports one as success.      *)
NoEmptyAnswer ==
  success =>
    /\ \E j \in DOMAIN out : out[j] \in {"delta", "completed"}
    /\ hoard => out[Len(out)] # "empty"

(* 503 means no upstream was called, 502 that at least one was; 400 blames *)
(* the client only if it left, or an upstream or the request's preparation *)
(* rejected the request in time, never because of a gateway timeout.       *)
HonestStatus ==
  /\ status = 503 => called = {}
  /\ status = 502 => called # {}
  /\ status = 400 =>
       \/ clientGone
       \/ dialErr = "client" /\ ~expired
       \/ \E c \in Cands : stErr[c] = "client"

(* The precommit buffer never holds more than MaxEvents events, nor grows  *)
(* once it holds MaxBytes bytes.                                           *)
BufferBounded ==
  /\ Len(buf) <= MaxEvents
  /\ bytes < 2 * MaxBytes

-----------------------------------------------------------------------------
(* Liveness, under FairSpec.                                               *)

(* Every request ends, even if every upstream stalls forever, and leaves   *)
(* no reader goroutine of a failed, abandoned or finished attempt behind.  *)
RequestEnds == <>(pc = "done" /\ \A c \in Cands : prod[c] \in {"idle", "exit"})
=============================================================================
