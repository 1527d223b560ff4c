---------------------------- MODULE MessagesStream ----------------------------
(***************************************************************************)
(* A streaming POST /v1/messages request: the failover loop of             *)
(* serveMessagesStream and the commit and post-commit halves of            *)
(* precommitAndStreamAnthropic, which passes every upstream event through  *)
(* a stateful encoder and keeps the client alive with pings.               *)
(***************************************************************************)
EXTENDS StreamAttempt

CONSTANT MaxPings   \* bound: pings written during one stream

ASSUME PingAssumption == MaxPings \in Nat

VARIABLES
  keyed,      \* the providers whose API key is configured (never changes)
  attempts,   \* the AttemptErrors collected so far
  authFailed, \* providers that answered 401 or 403
  called,     \* candidates whose upstream was called
  status,     \* HTTP status written to the client, 0 before WriteHeader
  out,        \* Anthropic SSE events written to the client after a commit
  committed,  \* the candidate committed to, 0 if none
  enc,        \* the encoder: terminal, success, and max_tokens as stop reason
  contin,     \* a reasoning continuation was seen with the final event
  errClass,
  usage,      \* usage records written for this request
  stored      \* the candidate whose reasoning continuation was stored, or 0

routeVars == <<keyed, attempts, authFailed, called>>
encoderVars == <<enc, contin, errClass>>
answerVars == <<status, out, committed, encoderVars, usage, stored>>
vars == <<attemptVars, routeVars, answerVars>>

EndErrors == {"", "client", "upstream", "upstream_eof", "timeout", "incomplete"}

AttemptErrors == [cand : Cands, class : Classes, skipped : BOOLEAN]
UsageRows == [cand : 0 .. N, success : BOOLEAN, class : EndErrors \cup Classes,
              attempts : Nat]
Wire == {"message_start", "content", "message_stop", "error", "ping"}
Encoders == [terminal : BOOLEAN, success : BOOLEAN, maxTokens : BOOLEAN]

RouteTypeOK ==
  /\ keyed \subseteq Providers
  /\ attempts \in Seq(AttemptErrors)
  /\ authFailed \subseteq Providers
  /\ called \subseteq Cands

AnswerTypeOK ==
  /\ status \in {0, 200, 400, 502, 503}
  /\ out \in Seq(Wire)
  /\ committed \in 0 .. N
  /\ enc \in Encoders
  /\ contin \in BOOLEAN
  /\ errClass \in EndErrors
  /\ usage \in Seq(UsageRows)
  /\ stored \in 0 .. N

TypeOK == AttemptTypeOK /\ RouteTypeOK /\ AnswerTypeOK

NewStreamEncoder == [terminal |-> FALSE, success |-> FALSE, maxTokens |-> FALSE]

Init ==
  /\ AttemptInit
  /\ keyed \in SUBSET Providers
  /\ attempts = <<>>
  /\ authFailed = {}
  /\ called = {}
  /\ status = 0
  /\ out = <<>>
  /\ committed = 0
  /\ enc = NewStreamEncoder
  /\ contin = FALSE
  /\ errClass = ""
  /\ usage = <<>>
  /\ stored = 0

-----------------------------------------------------------------------------
Attempt(class, skipped) == [cand |-> cur, class |-> class, skipped |-> skipped]

Provider == ProviderOf[cur]

RecordFailure(class, rows) ==
  usage' = Append(usage, [cand |-> 0, success |-> FALSE, class |-> class, attempts |-> Len(rows)])

AllKeyMissing(rows) == \A j \in DOMAIN rows : rows[j].skipped

(* A mutant: the refused provider is not remembered. *)
ForgetAuth(class) == UNCHANGED authFailed

NoteAuth(class) ==
  authFailed' = IF class = "auth" THEN authFailed \cup {Provider} ELSE authFailed

(* Skip a candidate whose provider failed authentication or has no key. *)
SkipCandidate ==
  /\ pc = "next"
  /\ cur <= N
  /\ \/ /\ Provider \in authFailed
        /\ attempts' = Append(attempts, Attempt("auth", TRUE))
     \/ /\ Provider \notin authFailed
        /\ Provider \notin keyed
        /\ attempts' = Append(attempts, Attempt("unknown", TRUE))
  /\ cur' = cur + 1
  /\ UNCHANGED <<pc, dialErr, clientVars, deadlineVars, readerVars, releaseVars, bufferVars,
                 keyed, authFailed, called, answerVars>>

(* The request cannot be translated for this candidate's wire API: 400,    *)
(* without a usage record.                                                 *)
RejectRequest ==
  /\ pc = "next"
  /\ cur <= N
  /\ Provider \notin authFailed
  /\ Provider \in keyed
  /\ status' = 400
  /\ pc' = "done"
  /\ UNCHANGED <<cur, dialErr, clientVars, deadlineVars, readerVars, releaseVars, bufferVars,
                 routeVars, out, committed, encoderVars, usage, stored>>

TryCandidate ==
  /\ pc = "next"
  /\ cur <= N
  /\ Provider \notin authFailed
  /\ Provider \in keyed
  /\ called' = called \cup {cur}
  /\ BeginAttempt
  /\ UNCHANGED <<keyed, attempts, authFailed, answerVars>>

(* DoStream returned an error: an expired deadline overrides its class.    *)
(* The 400 of a client error leaves no usage record here.                  *)
DialFailed ==
  /\ pc = "judge"
  /\ dialErr # "none"
  /\ LET class == IF expired THEN "timeout" ELSE dialErr IN
       /\ attempts' = Append(attempts, Attempt(class, FALSE))
       /\ NoteAuth(class)
       /\ \/ /\ class = "client"
             /\ status' = 400
             /\ pc' = "done"
             /\ cur' = cur
          \/ /\ class # "client"
             /\ pc' = "next"
             /\ cur' = cur + 1
             /\ UNCHANGED status
  /\ ReleaseAttempt
  /\ UNCHANGED <<dialErr, clientVars, deadlineVars, readerVars, closed, stop, bufferVars,
                 keyed, called, out, committed, encoderVars, usage, stored>>

DialTimedOut ==
  /\ pc = "judge"
  /\ dialErr = "none"
  /\ expired
  /\ closed' = [closed EXCEPT ![cur] = TRUE]
  /\ ReleaseAttempt
  /\ attempts' = Append(attempts, Attempt("timeout", FALSE))
  /\ pc' = "next"
  /\ cur' = cur + 1
  /\ UNCHANGED <<dialErr, clientVars, deadlineVars, readerVars, stop, bufferVars,
                 keyed, authFailed, called, answerVars>>

DialSucceeded ==
  /\ pc = "judge"
  /\ dialErr = "none"
  /\ ~expired
  /\ StartReader
  /\ UNCHANGED <<routeVars, answerVars>>

(* precommitAndStreamAnthropic has its own copy of the reader goroutine    *)
(* and of the precommit loop; both are the ones of StreamAttempt.          *)
ReadUpstream(c) == Reader(c)

CollectAnthropic == Collect

(* r.Context().Err() # nil: the request context, not the attempt's. *)
ClientLeft == clientGone

(* The precommit failed.  A client that left ends the request first, with  *)
(* neither an answer nor a usage record; then a client error is a 400.     *)
PrecommitFailed ==
  /\ pc = "failed"
  /\ ReleaseAttempt
  /\ LET rows == Append(attempts, Attempt(failErr, FALSE)) IN
       /\ attempts' = rows
       /\ \/ /\ ClientLeft
             /\ pc' = "done"
             /\ UNCHANGED <<cur, authFailed, status, usage>>
          \/ /\ ~ClientLeft
             /\ NoteAuth(failErr)
             /\ failErr = "client"
             /\ status' = 400
             /\ RecordFailure("client", rows)
             /\ pc' = "done"
             /\ cur' = cur
          \/ /\ ~ClientLeft
             /\ NoteAuth(failErr)
             /\ failErr # "client"
             /\ pc' = "next"
             /\ cur' = cur + 1
             /\ UNCHANGED <<status, usage>>
  /\ closed' = [closed EXCEPT ![cur] = TRUE]
  /\ UNCHANGED <<dialErr, clientVars, deadlineVars, readerVars, stop, bufferVars,
                 keyed, called, out, committed, encoderVars, stored>>

AllFailed ==
  /\ pc = "next"
  /\ cur = N + 1
  /\ status' = IF attempts # <<>> /\ AllKeyMissing(attempts) THEN 503 ELSE 502
  /\ RecordFailure("upstream", attempts)
  /\ pc' = "done"
  /\ UNCHANGED <<cur, dialErr, clientVars, deadlineVars, readerVars, releaseVars, bufferVars,
                 routeVars, out, committed, encoderVars, stored>>

-----------------------------------------------------------------------------
(* The encoder, as far as the handler sees it.  Each operator is the set   *)
(* of results a call may have: the wire events written and the new state.  *)
Encoded(events, e) == [events |-> events, enc |-> e]

Finish(maxTokens) ==
  Encoded(<<"message_stop">>,
          [terminal |-> TRUE, success |-> ~maxTokens, maxTokens |-> maxTokens])

Fail(e) == Encoded(<<"error">>, [e EXCEPT !.terminal = TRUE, !.success = FALSE])

(* A delta may be inconsistent with the tool calls seen so far and a final *)
(* event may find unusable tool arguments: both fail the stream.           *)
HandleResponsesEvent(e, k) ==
  CASE k \in {"life", "bulk"}       -> {Encoded(<<>>, e)}
    [] k = "delta"                  -> {Encoded(<<"content">>, e), Fail(e)}
    [] k \in {"completed", "empty"} -> {Finish(FALSE), Fail(e)}
    [] k = "incomplete"             -> {Finish(TRUE), Fail(e)}
    [] k = "failed"                 -> {Fail(e)}

(* errClass of a stream the encoder ended. *)
EncoderErrClass(e) ==
  IF e.success THEN "" ELSE IF e.maxTokens THEN "incomplete" ELSE "upstream"

(* A mutant: a broken committed stream is tried again. *)
EndStreamRetries ==
  /\ pc' = "next"
  /\ closed' = [closed EXCEPT ![cur] = TRUE]
  /\ stop' = [stop EXCEPT ![cur] = TRUE]

EndStream ==
  /\ pc' = "finish"
  /\ closed' = [closed EXCEPT ![cur] = TRUE]
  /\ stop' = [stop EXCEPT ![cur] = TRUE]

(* flushEncode: encode one event, write the result, and keep the reasoning *)
(* continuation a final event may carry.  Return once the encoder is done. *)
FlushEncode(k, prologue, streaming) ==
  /\ \E r \in HandleResponsesEvent(enc, k) :
       /\ enc' = r.enc
       /\ out' = prologue \o r.events
       /\ \/ /\ r.enc.terminal
             /\ errClass' = EncoderErrClass(r.enc)
             /\ EndStream
          \/ /\ ~r.enc.terminal
             /\ pc' = streaming
             /\ UNCHANGED <<errClass, closed, stop>>
  /\ \/ contin' = contin
     \/ k \in {"completed", "incomplete"} /\ contin' = TRUE

(* Commit: 200, message_start, then the buffered events through the        *)
(* encoder; all but the last carry no output.                              *)
CommitStream ==
  /\ pc = "commit"
  /\ status' = 200
  /\ committed' = cur
  /\ FlushEncode(buf[Len(buf)], <<"message_start">>, "stream")
  /\ UNCHANGED <<cur, dialErr, clientVars, deadlineVars, readerVars, cancelled, bufferVars,
                 routeVars, usage, stored>>

StreamCancelled ==
  /\ pc = "stream"
  /\ CtxDone(cur)
  /\ errClass' = "client"
  /\ EndStream
  /\ UNCHANGED <<cur, dialErr, clientVars, deadlineVars, readerVars, cancelled, bufferVars,
                 routeVars, status, out, committed, enc, contin, usage, stored>>

StreamForward ==
  /\ pc = "stream"
  /\ chan[cur] # <<>>
  /\ FlushEncode(Head(chan[cur]), out, pc)
  /\ chan' = [chan EXCEPT ![cur] = <<>>]
  /\ UNCHANGED <<cur, dialErr, clientVars, deadlineVars, prod, held, nread, read, stErr,
                 cancelled, bufferVars, routeVars, status, committed, usage, stored>>

StreamBroken ==
  /\ pc = "stream"
  /\ prod[cur] = "exit"
  /\ chan[cur] = <<>>
  /\ errClass' = IF stErr[cur] # "none" THEN "upstream" ELSE "upstream_eof"
  /\ enc' = Fail(enc).enc
  /\ out' = out \o Fail(enc).events
  /\ EndStream
  /\ UNCHANGED <<cur, dialErr, clientVars, deadlineVars, readerVars, cancelled, bufferVars,
                 routeVars, status, committed, contin, usage, stored>>

StreamIdle ==
  /\ pc = "stream"
  /\ errClass' = "timeout"
  /\ enc' = Fail(enc).enc
  /\ out' = out \o Fail(enc).events
  /\ EndStream
  /\ UNCHANGED <<cur, dialErr, clientVars, deadlineVars, readerVars, cancelled, bufferVars,
                 routeVars, status, committed, contin, usage, stored>>

Pings == Len(SelectSeq(out, LAMBDA w : w = "ping"))

(* A mutant: a ping that was due is still written after the last event. *)
StreamPingLate ==
  /\ pc \in {"stream", "finish"}
  /\ Pings < MaxPings
  /\ out' = Append(out, "ping")
  /\ UNCHANGED <<attemptVars, routeVars, status, committed, encoderVars, usage, stored>>

(* A ping keeps the client's watchdog quiet; it does not reset the idle timer. *)
StreamPing ==
  /\ pc = "stream"
  /\ Pings < MaxPings
  /\ out' = Append(out, "ping")
  /\ UNCHANGED <<attemptVars, routeVars, status, committed, encoderVars, usage, stored>>

(* The success the result reports, on which the continuation depends. *)
ResultSuccess == enc.success /\ errClass = ""

(* A mutant: the continuation of an unfinished response is kept. *)
RememberAnyReasoning == stored' = IF contin THEN cur ELSE stored

(* rememberReasoning, for a success only. *)
RememberReasoning == stored' = IF ResultSuccess /\ contin THEN cur ELSE stored

FinishCommitted ==
  /\ pc = "finish"
  /\ ReleaseAttempt
  /\ RememberReasoning
  /\ usage' = Append(usage, [cand |-> cur, success |-> ResultSuccess, class |-> errClass,
                             attempts |-> Len(attempts) + 1])
  /\ pc' = "done"
  /\ UNCHANGED <<cur, dialErr, clientVars, deadlineVars, readerVars, closed, stop, bufferVars,
                 routeVars, status, out, committed, encoderVars>>

-----------------------------------------------------------------------------
Route ==
  \/ SkipCandidate
  \/ RejectRequest
  \/ TryCandidate
  \/ DialFailed
  \/ DialTimedOut
  \/ DialSucceeded
  \/ PrecommitFailed
  \/ AllFailed

Deliver ==
  \/ CommitStream
  \/ StreamCancelled
  \/ StreamForward
  \/ StreamBroken
  \/ StreamIdle
  \/ FinishCommitted

Attempting ==
  /\ Dial \/ CollectAnthropic \/ \E c \in Cands : ReadUpstream(c)
  /\ UNCHANGED <<routeVars, answerVars>>

(* The request is over and every goroutine it started has exited. *)
Quiescent ==
  /\ pc = "done"
  /\ \A c \in Cands : prod[c] \in {"idle", "exit"}
  /\ UNCHANGED vars

Next == Route \/ Deliver \/ StreamPing \/ Attempting \/ Quiescent

(* Pings are not part of the progress assumption: only the timers, the     *)
(* reader and the client move a stream on.                                 *)
Fairness == AttemptFairness /\ WF_vars(Route \/ Deliver)

Spec == Init /\ [][Next]_vars

FairSpec == Spec /\ Fairness

-----------------------------------------------------------------------------
(* Safety.                                                                 *)

Considered == IF cur \in called /\ pc # "next" THEN cur ELSE cur - 1

Verdict ==
  IF pc # "done" THEN "open"
  ELSE IF committed # 0 THEN "served"
  ELSE IF status = 400 THEN "rejected"
  ELSE IF status = 0 THEN "abandoned"
  ELSE "exhausted"

Promise == INSTANCE Failover WITH
  considered <- Considered, called <- called, winner <- committed, verdict <- Verdict

(* serveMessagesStream implements the same failover promise as the         *)
(* Responses handler.                                                      *)
FailoverSpec == Promise!Spec

(* Only a client that left goes without an answer. *)
AnsweredOrGone == pc = "done" /\ ~clientGone => status # 0

(* A committed Anthropic stream starts with message_start and ends with    *)
(* exactly one terminator (message_stop or error) with no event, not even  *)
(* a ping, after it, unless the client disconnected.                       *)
IsTerminator(w) == w \in {"message_stop", "error"}

TerminatedOnce ==
  /\ pc \in {"stream", "finish", "done"} /\ out # <<>> => out[1] = "message_start"
  /\ \A j \in 1 .. Len(out) - 1 : ~IsTerminator(out[j])
  /\ pc = "done" /\ committed # 0 /\ errClass # "client" =>
       IsTerminator(out[Len(out)])

(* A committed request leaves one usage record, and it says success        *)
(* exactly if the client received message_stop for a completed response;   *)
(* no request leaves two.  A reasoning continuation is kept only for such  *)
(* a success, never for a truncated or broken response.                    *)
RecordsTellOutcome ==
  /\ Len(usage) <= 1
  /\ pc = "done" /\ committed # 0 =>
       /\ Len(usage) = 1
       /\ usage[1].cand = committed
       /\ usage[1].success <=> out[Len(out)] = "message_stop" /\ ~enc.maxTokens
  /\ stored # 0 => stored = committed /\ out[Len(out)] = "message_stop" /\ ~enc.maxTokens

(* A provider that answered 401/403 is not called again for this request. *)
AuthFailureSticks ==
  \A j, m \in DOMAIN attempts :
    /\ j < m
    /\ attempts[j].class = "auth"
    /\ ProviderOf[attempts[j].cand] = ProviderOf[attempts[m].cand]
    => attempts[m].skipped

(* At most one upstream call is alive. *)
OneLiveUpstream ==
  \A c \in called : c # cur \/ pc \in {"next", "done"} => cancelled[c]

(* The loop as a whole: types, refused providers, the release of attempts, *)
(* and an answer for every client that is still there.                     *)
RoutingInv == TypeOK /\ AuthFailureSticks /\ OneLiveUpstream /\ AnsweredOrGone

-----------------------------------------------------------------------------
(* Liveness, under FairSpec.                                               *)

(* Every request ends, although pings keep being written, and leaves no    *)
(* reader goroutine behind.                                                *)
RequestEnds == <>(pc = "done" /\ \A c \in Cands : prod[c] \in {"idle", "exit"})
=============================================================================
