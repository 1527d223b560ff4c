------------------------ MODULE MessagesStreamProofs ------------------------
(***************************************************************************)
(* Proofs about MessagesStream, for any number of candidates, events,      *)
(* pings and any buffer limits: the failover loop, the Anthropic stream    *)
(* the client reads, the records, and the failover promise.                *)
(***************************************************************************)
EXTENDS MessagesStream, StreamAttemptProofs

-----------------------------------------------------------------------------
(* The inductive invariant.                                                *)

(* The loop is at candidate cur: it has called no later one, and it has    *)
(* called cur exactly while (or after) the attempt on cur runs.            *)
LoopInv ==
  /\ called \subseteq 1 .. cur
  /\ pc = "next" => cur \notin called
  /\ pc \notin {"next", "done"} => cur \in called
  /\ pc = "failed" => failErr # "none"

(* No answer before the commit, the current candidate's 200 after it, and  *)
(* only a client that left goes without one.                               *)
CommitInv ==
  /\ pc \notin {"stream", "finish", "done"} => committed = 0 /\ status = 0
  /\ pc \in {"stream", "finish"} => committed = cur /\ status = 200
  /\ pc = "done" => IF committed = 0 THEN status # 200 ELSE committed = cur /\ status = 200
  /\ pc = "done" /\ status = 0 => clientGone

(* The log has one entry per candidate before cur and remembers refusals   *)
(* (a request given up because the client left does not note its last), so *)
(* no candidate of a refused provider is being tried.                      *)
LogInv ==
  /\ pc # "done" => Logged(attempts, authFailed, called) /\ Len(attempts) = cur - 1
  /\ pc \notin {"next", "done"} => Provider \notin authFailed

(* A stream that is not over, as its client has received it. *)
Unfinished(wire) ==
  /\ wire # <<>> /\ wire[1] = "message_start"
  /\ \A j \in DOMAIN wire : ~IsTerminator(wire[j])

(* What the client has been sent, and what the encoder knows of it. *)
OutInv ==
  /\ committed = 0 => out = <<>> /\ ~enc.terminal
  /\ pc = "stream" => Unfinished(out) /\ ~enc.terminal
  /\ pc = "finish" \/ (pc = "done" /\ committed # 0) =>
       /\ out # <<>> /\ out[1] = "message_start"
       /\ \A j \in 1 .. (Len(out) - 1) : ~IsTerminator(out[j])
       /\ errClass # "client" => IsTerminator(out[Len(out)])
       /\ ResultSuccess <=> out[Len(out)] = "message_stop" /\ ~enc.maxTokens

(* Nothing is recorded before the end. *)
LedgerInv ==
  /\ pc # "done" => usage = <<>> /\ stored = 0
  /\ RecordsTellOutcome

IInv ==
  /\ TypeOK /\ LoopInv /\ CommitInv /\ LogInv
  /\ AuthFailureSticks /\ OneLiveUpstream
  /\ BufferInv /\ OutInv /\ LedgerInv

-----------------------------------------------------------------------------
(* What the steps of the handler do.                                       *)

LEMMA AtCandidate ==
  ASSUME TypeOK, LoopInv, pc \notin {"next", "done"} \/ cur <= N
  PROVE  /\ cur \in Cands /\ cur \in Nat /\ cur # 0 /\ cur \in 0 .. N
         /\ cur + 1 \in 1 .. (N + 1)
         /\ pc \notin {"next", "done"} => cur \in called
<1>1. cur \in 1 .. (N + 1) /\ called \subseteq 1 .. N /\ N \in Nat
  BY AttemptAssumption DEF TypeOK, AttemptTypeOK, RouteTypeOK, Cands
<1>2. pc \notin {"next", "done"} => cur \in called
  BY DEF LoopInv
<1>3. cur \in 1 .. N
  BY <1>1, <1>2
<1> QED BY <1>1, <1>2, <1>3 DEF Cands

(* An attempt that failed with the given class before a commit. *)
FailedAttempt(class) ==
  /\ pc \in {"judge", "failed"}
  /\ class \in Classes
  /\ attempts' = Append(attempts, Attempt(class, FALSE))
  /\ cancelled' = [cancelled EXCEPT ![cur] = TRUE]
  /\ closed' = closed \/ closed' = [closed EXCEPT ![cur] = TRUE]
  /\ stop' = stop
  /\ \/ pc' = "next" /\ cur' = cur + 1 /\ NoteAuth(class) /\ UNCHANGED <<status, usage>>
     \/ /\ pc' = "done" /\ cur' = cur /\ NoteAuth(class) /\ status' = 400
        /\ usage' = usage \/ RecordFailure("client", attempts')
     \/ pc' = "done" /\ cur' = cur /\ clientGone /\ UNCHANGED <<authFailed, status, usage>>
  /\ UNCHANGED <<dialErr, clientVars, deadlineVars, readerVars, bufferVars, keyed, called,
                 out, committed, encoderVars, stored>>

LEMMA AttemptsFail ==
  ASSUME TypeOK, LoopInv, DialFailed \/ DialTimedOut \/ PrecommitFailed
  PROVE  \E class : FailedAttempt(class)
<1> USE DEF ReleaseAttempt
<1>1. CASE DialFailed
  <2> DEFINE class == IF expired THEN "timeout" ELSE dialErr
  <2>1. class \in Classes
    BY <1>1 DEF DialFailed, TypeOK, AttemptTypeOK, Classes
  <2>2. FailedAttempt(class)
    BY <1>1, <2>1 DEF DialFailed, FailedAttempt
  <2> QED BY <2>2
<1>2. CASE DialTimedOut
  <2>1. "timeout" \in Classes
    BY DEF Classes
  <2>2. FailedAttempt("timeout")
    BY <1>2, <2>1 DEF DialTimedOut, FailedAttempt, NoteAuth, answerVars
  <2> QED BY <2>2
<1>3. CASE PrecommitFailed
  <2>1. failErr \in Classes
    BY <1>3 DEF PrecommitFailed, LoopInv, TypeOK, AttemptTypeOK
  <2>2. FailedAttempt(failErr)
    BY <1>3, <2>1 DEF PrecommitFailed, FailedAttempt, ClientLeft
  <2> QED BY <2>2
<1> QED BY <1>1, <1>2, <1>3

LEMMA SkipEffect ==
  ASSUME SkipCandidate
  PROVE  /\ pc = "next" /\ pc' = "next" /\ cur <= N /\ cur' = cur + 1
         /\ UNCHANGED <<dialErr, clientVars, deadlineVars, readerVars, cancelled, closed, stop,
                        bufferVars, buf, bytes, keyed, authFailed, called, status, out, committed,
                        enc, contin, errClass, usage, stored>>
BY DEF SkipCandidate, releaseVars, bufferVars, answerVars, encoderVars

LEMMA RejectEffect ==
  ASSUME RejectRequest
  PROVE  /\ pc = "next" /\ pc' = "done" /\ cur <= N /\ status' = 400
         /\ UNCHANGED <<cur, dialErr, clientVars, deadlineVars, readerVars, cancelled, closed, stop,
                        bufferVars, buf, bytes, keyed, attempts, authFailed, called, out, committed,
                        enc, contin, errClass, usage, stored>>
BY DEF RejectRequest, releaseVars, bufferVars, routeVars, encoderVars

LEMMA TryEffect ==
  ASSUME TryCandidate
  PROVE  /\ pc = "next" /\ pc' = "dialing" /\ cur <= N /\ called' = called \cup {cur}
         /\ Provider \notin authFailed /\ BeginAttempt
         /\ UNCHANGED <<cur, cancelled, keyed, attempts, authFailed, status, out, committed,
                        enc, contin, errClass, usage, stored>>
BY DEF TryCandidate, BeginAttempt, releaseVars, answerVars, encoderVars

LEMMA StartEffect ==
  ASSUME DialSucceeded
  PROVE  /\ pc = "judge" /\ pc' = "collect" /\ StartReader
         /\ UNCHANGED <<cur, cancelled, keyed, attempts, authFailed, called, status, out, committed,
                        enc, contin, errClass, usage, stored>>
BY DEF DialSucceeded, StartReader, releaseVars, routeVars, answerVars, encoderVars

LEMMA ExhaustEffect ==
  ASSUME AllFailed
  PROVE  /\ pc = "next" /\ pc' = "done" /\ cur = N + 1 /\ status' \in {502, 503}
         /\ RecordFailure("upstream", attempts)
         /\ UNCHANGED <<cur, dialErr, clientVars, deadlineVars, readerVars, cancelled, closed, stop,
                        bufferVars, buf, bytes, keyed, attempts, authFailed, called, out, committed,
                        enc, contin, errClass, stored>>
BY DEF AllFailed, releaseVars, bufferVars, routeVars, encoderVars

(* The end of a committed stream: the encoder wrote a terminator. *)
Ends(prologue, w) ==
  /\ w \in {"message_stop", "error"}
  /\ out' = prologue \o <<w>>
  /\ EndStream
  /\ enc' \in Encoders
  /\ errClass' \in EndErrors \ {"client"}
  /\ ResultSuccess' <=> w = "message_stop" /\ ~enc'.maxTokens

(* The encoder wrote output, or nothing. *)
GoesOn(prologue, streaming) ==
  /\ out' = prologue \o <<>> \/ out' = prologue \o <<"content">>
  /\ pc' = streaming
  /\ UNCHANGED <<enc, errClass, closed, stop>>

-----------------------------------------------------------------------------
(* The encoder.                                                            *)

(* The two ways an encoder ends a stream. *)
LEMMA FailResult ==
  ASSUME NEW e \in Encoders
  PROVE  /\ Fail(e).events = <<"error">> /\ Fail(e).enc \in Encoders
         /\ Fail(e).enc.terminal /\ ~Fail(e).enc.success
         /\ EncoderErrClass(Fail(e).enc) \in EndErrors \ {"", "client"}
<1> DEFINE f == [e EXCEPT !.terminal = TRUE, !.success = FALSE]
<1>1. f \in Encoders /\ f.terminal /\ ~f.success
  BY DEF Encoders
<1> HIDE DEF f
<1>2. Encoded(<<"error">>, f).events = <<"error">> /\ Encoded(<<"error">>, f).enc = f
  BY DEF Encoded
<1>3. Fail(e) = Encoded(<<"error">>, f)
  BY DEF Fail, f
<1>4. EncoderErrClass(f) \in EndErrors \ {"", "client"}
  BY <1>1 DEF EncoderErrClass, EndErrors
<1> QED BY <1>1, <1>2, <1>3, <1>4

LEMMA FinishResult ==
  ASSUME NEW m \in BOOLEAN
  PROVE  /\ Finish(m).events = <<"message_stop">> /\ Finish(m).enc \in Encoders
         /\ Finish(m).enc.terminal
         /\ Finish(m).enc.success <=> ~m
         /\ Finish(m).enc.maxTokens <=> m
         /\ EncoderErrClass(Finish(m).enc) \in EndErrors \ {"client"}
         /\ EncoderErrClass(Finish(m).enc) = "" <=> ~m
<1> DEFINE f == [terminal |-> TRUE, success |-> ~m, maxTokens |-> m]
<1>1. f \in Encoders /\ f.terminal /\ (f.success <=> ~m) /\ (f.maxTokens <=> m)
  BY DEF Encoders
<1> HIDE DEF f
<1>2. Encoded(<<"message_stop">>, f).events = <<"message_stop">>
      /\ Encoded(<<"message_stop">>, f).enc = f
  BY DEF Encoded
<1>3. Finish(m) = Encoded(<<"message_stop">>, f)
  BY DEF Finish, f
<1>4. /\ EncoderErrClass(f) \in EndErrors \ {"client"}
      /\ EncoderErrClass(f) = "" <=> ~m
  BY <1>1 DEF EncoderErrClass, EndErrors
<1> QED BY <1>1, <1>2, <1>3, <1>4

(* The results of encoding one event. *)
LEMMA Results ==
  ASSUME NEW e, NEW k \in AllKinds, NEW r \in HandleResponsesEvent(e, k)
  PROVE  r \in {Encoded(<<>>, e), Encoded(<<"content">>, e), Fail(e), Finish(FALSE), Finish(TRUE)}
BY DEF HandleResponsesEvent, AllKinds

LEMMA FlushResult ==
  ASSUME enc \in Encoders, ~enc.terminal, NEW k \in AllKinds, NEW prologue, NEW streaming,
         FlushEncode(k, prologue, streaming)
  PROVE  GoesOn(prologue, streaming) \/ \E w : Ends(prologue, w)
<1>1. PICK r \in HandleResponsesEvent(enc, k) :
        /\ enc' = r.enc
        /\ out' = prologue \o r.events
        /\ \/ r.enc.terminal /\ errClass' = EncoderErrClass(r.enc) /\ EndStream
           \/ ~r.enc.terminal /\ pc' = streaming /\ UNCHANGED <<errClass, closed, stop>>
  BY DEF FlushEncode
<1>2. r \in {Encoded(<<>>, enc), Encoded(<<"content">>, enc), Fail(enc), Finish(FALSE), Finish(TRUE)}
  BY Results
<1>3. ASSUME NEW ev, ev = <<>> \/ ev = <<"content">>, r = Encoded(ev, enc)
      PROVE  GoesOn(prologue, streaming)
  <2>1. r.enc = enc /\ r.events = ev
    BY <1>3 DEF Encoded
  <2> QED BY <1>1, <1>3, <2>1 DEF GoesOn
<1>4. CASE r = Fail(enc)
  <2>1. /\ r.events = <<"error">> /\ r.enc \in Encoders /\ r.enc.terminal /\ ~r.enc.success
        /\ EncoderErrClass(r.enc) \in EndErrors \ {"", "client"}
    BY <1>4, FailResult
  <2>2. out' = prologue \o <<"error">>
    BY <1>1, <2>1
  <2>3. ~ResultSuccess'
    BY <1>1, <2>1 DEF ResultSuccess
  <2>4. Ends(prologue, "error")
    BY <1>1, <2>1, <2>2, <2>3 DEF Ends
  <2> QED BY <2>4
<1>5. ASSUME NEW m \in BOOLEAN, r = Finish(m)
      PROVE  \E w : Ends(prologue, w)
  <2>1. /\ r.events = <<"message_stop">> /\ r.enc \in Encoders /\ r.enc.terminal
        /\ (r.enc.success <=> ~m) /\ (r.enc.maxTokens <=> m)
        /\ EncoderErrClass(r.enc) \in EndErrors \ {"client"}
        /\ (EncoderErrClass(r.enc) = "" <=> ~m)
    BY <1>5, FinishResult
  <2>2. out' = prologue \o <<"message_stop">>
    BY <1>1, <2>1
  <2>3. ResultSuccess' <=> ~enc'.maxTokens
    BY <1>1, <2>1 DEF ResultSuccess
  <2>4. Ends(prologue, "message_stop")
    BY <1>1, <2>1, <2>2, <2>3 DEF Ends
  <2> QED BY <2>4
<1> QED BY <1>2, <1>3, <1>4, <1>5

-----------------------------------------------------------------------------
(* The steps of a committed stream.                                        *)

(* Before and after a step on a committed stream: nothing but the stream,  *)
(* the encoder and the control point changes.                              *)
Delivering ==
  /\ cancelled' = cancelled
  /\ chan' = chan \/ chan' = [chan EXCEPT ![cur] = <<>>]
  /\ contin' \in {contin, TRUE}
  /\ UNCHANGED <<cur, dialErr, clientVars, deadlineVars, prod, held, nread, read, stErr, bufferVars,
                 keyed, attempts, authFailed, called, usage, stored>>

LEMMA CommitEffect ==
  ASSUME TypeOK, BufferInv, OutInv, CommitInv, CommitStream
  PROVE  /\ pc = "commit" /\ committed' = cur /\ status' = 200 /\ Delivering
         /\ GoesOn(<<"message_start">>, "stream") \/ \E w : Ends(<<"message_start">>, w)
<1>1. pc = "commit" /\ committed' = cur /\ status' = 200 /\ Delivering
  BY DEF CommitStream, Delivering, FlushEncode, readerVars, routeVars
<1>2. enc \in Encoders /\ ~enc.terminal
  BY <1>1 DEF TypeOK, AnswerTypeOK, CommitInv, OutInv
<1>3. buf[Len(buf)] \in AllKinds
  BY <1>1 DEF BufferInv, AllKinds
<1> QED BY <1>1, <1>2, <1>3, FlushResult DEF CommitStream

(* The steps of a committed stream after the commit. *)
Forwarding == StreamCancelled \/ StreamForward \/ StreamBroken \/ StreamIdle \/ StreamPing

(* The client left a stream that was not over. *)
Leaves ==
  /\ EndStream /\ errClass' = "client"
  /\ UNCHANGED <<out, enc>>

Pinged ==
  /\ out' = Append(out, "ping")
  /\ UNCHANGED <<pc, closed, stop, enc, errClass>>

LEMMA ForwardingEffect ==
  ASSUME TypeOK, LoopInv, OutInv, Forwarding
  PROVE  /\ pc = "stream" /\ UNCHANGED <<status, committed>> /\ Delivering
         /\ Leaves \/ Pinged \/ GoesOn(out, "stream") \/ \E w : Ends(out, w)
<1>0. pc = "stream"
  BY DEF Forwarding, StreamCancelled, StreamForward, StreamBroken, StreamIdle, StreamPing
<1>1. UNCHANGED <<status, committed>> /\ Delivering
  BY DEF Forwarding, StreamCancelled, StreamForward, StreamBroken, StreamIdle, StreamPing,
         FlushEncode, Delivering, attemptVars, readerVars, releaseVars, routeVars, encoderVars
<1>2. enc \in Encoders /\ ~enc.terminal /\ cur \in Cands
  BY <1>0, AtCandidate DEF TypeOK, AnswerTypeOK, OutInv
<1>3. CASE StreamCancelled
  BY <1>0, <1>1, <1>3 DEF StreamCancelled, Leaves
<1>4. CASE StreamForward
  <2>1. Head(chan[cur]) \in AllKinds
    BY <1>2, <1>4, HeadOfSlot, AttemptAssumption DEF StreamForward, TypeOK, AttemptTypeOK
  <2> QED BY <1>0, <1>1, <1>2, <1>4, <2>1, FlushResult DEF StreamForward
<1>5. ASSUME enc' = Fail(enc).enc, out' = out \o Fail(enc).events, EndStream,
             errClass' \in {"upstream", "upstream_eof", "timeout"}
      PROVE  Ends(out, "error")
  <2>1. /\ Fail(enc).events = <<"error">> /\ Fail(enc).enc \in Encoders /\ ~Fail(enc).enc.success
    BY <1>2, FailResult
  <2>2. out' = out \o <<"error">>
    BY <1>5, <2>1
  <2>3. ~ResultSuccess'
    BY <1>5, <2>1 DEF ResultSuccess
  <2> QED BY <1>5, <2>1, <2>2, <2>3 DEF Ends, EndErrors
<1>6. CASE StreamBroken
  BY <1>0, <1>1, <1>5, <1>6 DEF StreamBroken
<1>7. CASE StreamIdle
  BY <1>0, <1>1, <1>5, <1>7 DEF StreamIdle
<1>8. CASE StreamPing
  BY <1>0, <1>1, <1>8 DEF StreamPing, Pinged, attemptVars, releaseVars, encoderVars
<1> QED BY <1>3, <1>4, <1>6, <1>7, <1>8 DEF Forwarding

LEMMA FinishEffect ==
  ASSUME FinishCommitted
  PROVE  /\ pc = "finish" /\ pc' = "done"
         /\ cancelled' = [cancelled EXCEPT ![cur] = TRUE]
         /\ UNCHANGED <<cur, dialErr, clientVars, deadlineVars, readerVars, closed, stop,
                        bufferVars, buf, bytes, keyed, attempts, authFailed, called, status, out,
                        committed, enc, contin, errClass>>
BY DEF FinishCommitted, ReleaseAttempt, bufferVars, routeVars, encoderVars

(* The steps inside an attempt leave the handler's state alone. *)
LEMMA AttemptingEffect ==
  ASSUME TypeOK, LoopInv, Attempting
  PROVE  /\ UNCHANGED <<cur, keyed, attempts, authFailed, called, status, out, committed, enc, contin,
                        errClass, usage, stored>>
         /\ clientGone => clientGone'
         /\ \/ pc' = pc
            \/ /\ pc \notin {"next", "stream", "finish", "done"}
               /\ pc' \notin {"next", "stream", "finish", "done"}
         /\ \A c \in Cands : cancelled[c] => cancelled'[c]
         /\ AttemptTypeOK'
         /\ pc' = "failed" => failErr' # "none"
<1>1. UNCHANGED <<keyed, attempts, authFailed, called, status, out, committed, enc, contin,
                  errClass, usage, stored>>
  BY DEF Attempting, routeVars, answerVars, encoderVars
<1>2. AttemptTypeOK
  BY DEF TypeOK
<1>3. CASE Dial
  <2>1. \A c \in Cands : cancelled[c] => cancelled'[c]
    BY <1>2, <1>3, DialEffect DEF AttemptTypeOK
  <2>2. pc' = "failed" => failErr' # "none"
    BY <1>3, DialEffect DEF LoopInv
  <2> QED BY <1>1, <1>2, <1>3, <2>1, <2>2, DialEffect, DialAttemptType
<1>4. CASE CollectAnthropic
  <2>1. Collect /\ pc = "collect"
    BY <1>4 DEF CollectAnthropic, Collect, CollectLimit, CollectDeadline, CollectIdle,
                CollectCancelled, CollectClosed, CollectStep
  <2>2. cur \in Cands
    BY <2>1, AtCandidate
  <2> QED BY <1>1, <1>2, <2>1, <2>2, CollectEffect, CollectAttemptType
<1>5. ASSUME NEW c \in Cands, ReadUpstream(c)
      PROVE  /\ UNCHANGED <<pc, cur, clientGone, cancelled, failErr>> /\ AttemptTypeOK'
  BY <1>2, <1>5, ReaderEffect, ReaderAttemptType DEF ReadUpstream
<1>6. CASE \E c \in Cands : ReadUpstream(c)
  BY <1>1, <1>5, <1>6 DEF LoopInv
<1> QED BY <1>3, <1>4, <1>6 DEF Attempting

-----------------------------------------------------------------------------
(* The stream the client reads.                                            *)

(* One more event on a stream that is not over. *)
LEMMA SendOne ==
  ASSUME NEW s \in Seq(Wire), Unfinished(s), NEW w \in Wire, out' = s \o <<w>>
  PROVE  /\ out' \in Seq(Wire) /\ out' # <<>> /\ out'[1] = "message_start" /\ out'[Len(out')] = w
         /\ \A j \in 1 .. (Len(out') - 1) : ~IsTerminator(out'[j])
         /\ ~IsTerminator(w) => Unfinished(out')
<1>1. out' = Append(s, w)
  BY AppendIsConcat
<1>2. /\ out' \in Seq(Wire) /\ Len(out') = Len(s) + 1 /\ out'[Len(s) + 1] = w
      /\ \A j \in 1 .. Len(s) : out'[j] = s[j]
      /\ DOMAIN s = 1 .. Len(s) /\ DOMAIN out' = 1 .. (Len(s) + 1) /\ Len(s) \in Nat
  BY <1>1, AppendProperties, LenProperties
<1>3. Len(s) # 0
  BY EmptySeq DEF Unfinished
<1>4. out' # <<>> /\ out'[1] = "message_start"
  BY <1>2, <1>3 DEF Unfinished
<1>5. \A j \in 1 .. Len(s) : ~IsTerminator(out'[j])
  BY <1>2 DEF Unfinished
<1>6. Len(out') - 1 = Len(s)
  BY <1>2
<1>7. ~IsTerminator(w) => \A j \in DOMAIN out' : ~IsTerminator(out'[j])
  BY <1>2, <1>5
<1> QED BY <1>2, <1>4, <1>5, <1>6, <1>7 DEF Unfinished

LEMMA GoesOnWell ==
  ASSUME NEW s \in Seq(Wire), Unfinished(s), NEW streaming, GoesOn(s, streaming)
  PROVE  out' \in Seq(Wire) /\ Unfinished(out')
<1>1. CASE out' = s \o <<>>
  <2>1. out' = s
    BY <1>1, ConcatEmptySeq
  <2> QED BY <2>1
<1>2. CASE out' = s \o <<"content">>
  <2>1. "content" \in Wire /\ ~IsTerminator("content")
    BY DEF Wire, IsTerminator
  <2> QED BY <1>2, <2>1, SendOne
<1> QED BY <1>1, <1>2 DEF GoesOn

LEMMA EndsWell ==
  ASSUME NEW s \in Seq(Wire), Unfinished(s), NEW w, Ends(s, w)
  PROVE  /\ out' \in Seq(Wire) /\ out' # <<>> /\ out'[1] = "message_start"
         /\ \A j \in 1 .. (Len(out') - 1) : ~IsTerminator(out'[j])
         /\ IsTerminator(out'[Len(out')])
         /\ ResultSuccess' <=> out'[Len(out')] = "message_stop" /\ ~enc'.maxTokens
<1>1. w \in Wire /\ IsTerminator(w) /\ out' = s \o <<w>>
  BY DEF Ends, Wire, IsTerminator
<1>2. /\ out' \in Seq(Wire) /\ out' # <<>> /\ out'[1] = "message_start" /\ out'[Len(out')] = w
      /\ \A j \in 1 .. (Len(out') - 1) : ~IsTerminator(out'[j])
  BY <1>1, SendOne
<1>3. ResultSuccess' <=> w = "message_stop" /\ ~enc'.maxTokens
  BY DEF Ends
<1> QED BY <1>1, <1>2, <1>3

(* The first event of a stream. *)
LEMMA StreamStarts == <<"message_start">> \in Seq(Wire) /\ Unfinished(<<"message_start">>)
BY DEF Wire, Unfinished, IsTerminator

LEMMA PingedWell ==
  ASSUME out \in Seq(Wire), Unfinished(out), Pinged
  PROVE  out' \in Seq(Wire) /\ Unfinished(out')
<1>1. "ping" \in Wire /\ ~IsTerminator("ping")
  BY DEF Wire, IsTerminator
<1>2. out' = out \o <<"ping">>
  BY <1>1, AppendIsConcat DEF Pinged
<1> QED BY <1>1, <1>2, SendOne

-----------------------------------------------------------------------------
(* Type correctness.                                                       *)

LEMMA InitType == Init => TypeOK
<1> SUFFICES ASSUME Init PROVE TypeOK
  OBVIOUS
<1>1. contin \in BOOLEAN
  BY Zenon DEF Init
<1>2. /\ keyed \subseteq Providers /\ attempts = <<>> /\ authFailed = {} /\ called = {}
      /\ status = 0 /\ out = <<>> /\ committed = 0 /\ errClass = "" /\ usage = <<>>
      /\ stored = 0
  BY Zenon DEF Init
<1>3. enc \in Encoders
  BY DEF Init, NewStreamEncoder, Encoders
<1>4. AttemptTypeOK
  BY AttemptInitType DEF Init
<1>5. \A S : <<>> \in Seq(S)
  OBVIOUS
<1>6. 0 \in 0 .. N /\ 0 \in {0, 200, 400, 502, 503} /\ "" \in EndErrors
  BY AttemptAssumption DEF EndErrors
<1>7. RouteTypeOK /\ AnswerTypeOK
  BY <1>1, <1>2, <1>3, <1>5, <1>6, Zenon DEF RouteTypeOK, AnswerTypeOK
<1> QED BY <1>4, <1>7 DEF TypeOK

(* The fields of an attempt error of the candidate the loop is at. *)
LEMMA AttemptFields ==
  ASSUME cur \in Cands, NEW class \in Classes, NEW skipped \in BOOLEAN
  PROVE  /\ Attempt(class, skipped) \in AttemptErrors
         /\ Attempt(class, skipped).cand = cur
         /\ Attempt(class, skipped).class = class
         /\ Attempt(class, skipped).skipped = skipped
BY DEF Attempt, AttemptErrors

LEMMA FailureRecorded ==
  ASSUME TypeOK, NEW class \in Classes, NEW rows \in Seq(AttemptErrors),
         RecordFailure(class, rows)
  PROVE  usage' \in Seq(UsageRows)
<1>1. [cand |-> 0, success |-> FALSE, class |-> class, attempts |-> Len(rows)] \in UsageRows
  BY AttemptAssumption DEF UsageRows
<1> QED BY <1>1 DEF RecordFailure, TypeOK, AnswerTypeOK

LEMMA RouteType ==
  ASSUME TypeOK, LoopInv, Route
  PROVE  TypeOK'
<1>0. /\ AttemptTypeOK /\ RouteTypeOK /\ AnswerTypeOK
      /\ attempts \in Seq(AttemptErrors) /\ usage \in Seq(UsageRows)
      /\ status \in {0, 200, 400, 502, 503}
  BY DEF TypeOK, RouteTypeOK, AnswerTypeOK
<1>a. "auth" \in Classes /\ "unknown" \in Classes /\ "client" \in Classes /\ "upstream" \in Classes
  BY DEF Classes
<1>b. "next" \in PcStates /\ "done" \in PcStates
  BY DEF PcStates
<1>c. 400 \in {0, 200, 400, 502, 503}
  OBVIOUS
<1>d. ASSUME cur \in Cands, NEW class \in Classes, NEW skipped \in BOOLEAN
      PROVE  Append(attempts, Attempt(class, skipped)) \in Seq(AttemptErrors)
  BY <1>0, <1>d, AttemptFields
<1>e. cur \in 1 .. (N + 1)
  BY <1>0 DEF AttemptTypeOK
<1>1. CASE SkipCandidate
  <2>1. cur \in Cands /\ cur' \in 1 .. (N + 1)
    BY <1>1, AtCandidate, SkipEffect
  <2>2. attempts' \in Seq(AttemptErrors)
    BY <1>1, <1>a, <1>d, <2>1 DEF SkipCandidate
  <2>3. AttemptTypeOK'
    BY <1>0, <1>1, <1>b, <2>1, SkipEffect, LeaveAttemptType
  <2>4. RouteTypeOK' /\ AnswerTypeOK'
    BY <1>0, <1>1, <2>2, SkipEffect DEF RouteTypeOK, AnswerTypeOK
  <2> QED BY <2>3, <2>4 DEF TypeOK
<1>2. CASE RejectRequest
  <2>1. AttemptTypeOK'
    BY <1>0, <1>2, <1>b, <1>e, RejectEffect, LeaveAttemptType
  <2>2. RouteTypeOK' /\ AnswerTypeOK'
    BY <1>0, <1>2, <1>c, RejectEffect DEF RouteTypeOK, AnswerTypeOK
  <2> QED BY <2>1, <2>2 DEF TypeOK
<1>3. CASE TryCandidate
  <2>1. cur \in Cands
    BY <1>3, AtCandidate, TryEffect
  <2>2. AttemptTypeOK'
    BY <1>0, <1>3, TryEffect, BeginAttemptType
  <2>3. RouteTypeOK' /\ AnswerTypeOK'
    BY <1>0, <1>3, <2>1, TryEffect DEF RouteTypeOK, AnswerTypeOK
  <2> QED BY <2>2, <2>3 DEF TypeOK
<1>4. CASE DialFailed \/ DialTimedOut \/ PrecommitFailed
  <2>1. PICK class : FailedAttempt(class)
    BY <1>4, AttemptsFail
  <2>2. cur \in Cands /\ cur + 1 \in 1 .. (N + 1) /\ class \in Classes
    BY <2>1, AtCandidate DEF FailedAttempt
  <2>3. attempts' \in Seq(AttemptErrors)
    BY <1>d, <2>1, <2>2 DEF FailedAttempt
  <2>4. authFailed' \subseteq Providers
    <3>1. authFailed' = authFailed \/ authFailed' = authFailed \cup {Provider}
      BY <2>1 DEF FailedAttempt, NoteAuth
    <3>2. Provider \in Providers /\ authFailed \subseteq Providers
      BY <1>0, <2>2, AttemptAssumption DEF Provider, RouteTypeOK
    <3> QED BY <3>1, <3>2
  <2>5. usage' = usage \/ RecordFailure("client", attempts')
    BY <2>1 DEF FailedAttempt
  <2>6. usage' \in Seq(UsageRows)
    BY <1>0, <1>a, <2>3, <2>5, FailureRecorded
  <2>7. status' = status \/ status' = 400
    BY <2>1 DEF FailedAttempt
  <2>8. status' \in {0, 200, 400, 502, 503}
    BY <1>0, <2>7
  <2>9. AttemptTypeOK'
    <3>1. pc' \in PcStates /\ cur' \in 1 .. (N + 1)
      BY <1>b, <1>e, <2>1, <2>2 DEF FailedAttempt
    <3> QED BY <1>0, <2>1, <3>1, LeaveAttemptType DEF FailedAttempt
  <2>10. UNCHANGED <<keyed, called, out, committed, enc, contin, errClass, stored>>
    BY <2>1 DEF FailedAttempt, encoderVars
  <2>11. RouteTypeOK' /\ AnswerTypeOK'
    BY <1>0, <2>3, <2>4, <2>6, <2>8, <2>10 DEF RouteTypeOK, AnswerTypeOK
  <2> QED BY <2>9, <2>11 DEF TypeOK
<1>5. CASE DialSucceeded
  <2>1. AttemptTypeOK'
    BY <1>0, <1>5, StartEffect, StartReaderType
  <2>2. RouteTypeOK' /\ AnswerTypeOK'
    BY <1>0, <1>5, StartEffect DEF RouteTypeOK, AnswerTypeOK
  <2> QED BY <2>1, <2>2 DEF TypeOK
<1>6. CASE AllFailed
  <2>1. usage' \in Seq(UsageRows)
    BY <1>0, <1>6, <1>a, ExhaustEffect, FailureRecorded
  <2>2. AttemptTypeOK'
    BY <1>0, <1>6, <1>b, <1>e, ExhaustEffect, LeaveAttemptType
  <2>3. status' \in {0, 200, 400, 502, 503}
    BY <1>6, ExhaustEffect
  <2>4. RouteTypeOK' /\ AnswerTypeOK'
    BY <1>0, <1>6, <2>1, <2>3, ExhaustEffect DEF RouteTypeOK, AnswerTypeOK
  <2> QED BY <2>2, <2>4 DEF TypeOK
<1> QED BY <1>1, <1>2, <1>3, <1>4, <1>5, <1>6 DEF Route

(* A step on a committed stream keeps the state well typed. *)
LEMMA DeliveringType ==
  ASSUME TypeOK, LoopInv, pc \in {"commit", "stream"}, Delivering,
         pc' \in PcStates,
         closed' = closed \/ closed' = [closed EXCEPT ![cur] = TRUE],
         stop' = stop \/ stop' = [stop EXCEPT ![cur] = TRUE],
         out' \in Seq(Wire), enc' \in Encoders, errClass' \in EndErrors,
         status' = status \/ status' = 200, committed' = committed \/ committed' = cur
  PROVE  TypeOK'
<1>0. /\ AttemptTypeOK /\ RouteTypeOK /\ AnswerTypeOK
      /\ cur \in Cands /\ cur \in 0 .. N
  BY AtCandidate DEF TypeOK
<1>1. /\ closed' \in [Cands -> BOOLEAN] /\ stop' \in [Cands -> BOOLEAN]
      /\ chan' \in [Cands -> SeqUpTo1(Kinds)]
  <2>1. chan \in [Cands -> SeqUpTo1(Kinds)] /\ closed \in [Cands -> BOOLEAN]
        /\ stop \in [Cands -> BOOLEAN]
    BY <1>0 DEF AttemptTypeOK
  <2>2. <<>> \in SeqUpTo1(Kinds)
    BY DEF SeqUpTo1
  <2>3. chan' \in [Cands -> SeqUpTo1(Kinds)]
    BY <2>1, <2>2 DEF Delivering
  <2> QED BY <2>1, <2>3, SetFlag
<1>2. AttemptTypeOK'
  BY <1>0, <1>1 DEF Delivering, AttemptTypeOK, clientVars, deadlineVars, bufferVars
<1>3. RouteTypeOK'
  BY <1>0 DEF Delivering, RouteTypeOK
<1>4. contin' \in BOOLEAN /\ status' \in {0, 200, 400, 502, 503} /\ committed' \in 0 .. N
  <2>1. contin \in BOOLEAN /\ status \in {0, 200, 400, 502, 503} /\ committed \in 0 .. N
    BY <1>0 DEF AnswerTypeOK
  <2>2. contin' \in BOOLEAN
    BY <2>1 DEF Delivering
  <2>3. status' \in {0, 200, 400, 502, 503}
    BY <2>1
  <2>4. committed' \in 0 .. N
    BY <1>0, <2>1
  <2> QED BY <2>2, <2>3, <2>4
<1>5. AnswerTypeOK'
  BY <1>0, <1>4 DEF Delivering, AnswerTypeOK
<1> QED BY <1>2, <1>3, <1>5 DEF TypeOK

LEMMA DeliverType ==
  ASSUME TypeOK, LoopInv, CommitInv, BufferInv, OutInv, Deliver \/ StreamPing
  PROVE  TypeOK'
<1>0. /\ out \in Seq(Wire) /\ enc \in Encoders /\ errClass \in EndErrors
      /\ "stream" \in PcStates /\ "finish" \in PcStates
  BY DEF TypeOK, AnswerTypeOK, PcStates
<1>1. ASSUME NEW s \in Seq(Wire), Unfinished(s), pc \in {"commit", "stream"}, Delivering,
             status' = status \/ status' = 200, committed' = committed \/ committed' = cur,
             GoesOn(s, "stream") \/ \E w : Ends(s, w)
      PROVE  TypeOK'
  <2>1. CASE GoesOn(s, "stream")
    <3>1. out' \in Seq(Wire)
      BY <1>1, <2>1, GoesOnWell
    <3> QED BY <1>0, <1>1, <2>1, <3>1, DeliveringType DEF GoesOn
  <2>2. ASSUME NEW w, Ends(s, w)
        PROVE  TypeOK'
    <3>1. out' \in Seq(Wire)
      BY <1>1, <2>2, EndsWell
    <3> QED BY <1>0, <1>1, <2>2, <3>1, DeliveringType DEF Ends, EndStream
  <2> QED BY <1>1, <2>1, <2>2
<1>2. CASE CommitStream
  BY <1>1, <1>2, StreamStarts, CommitEffect
<1>3. CASE Forwarding
  <2>1. /\ pc = "stream" /\ UNCHANGED <<status, committed>> /\ Delivering /\ Unfinished(out)
        /\ Leaves \/ Pinged \/ GoesOn(out, "stream") \/ \E w : Ends(out, w)
    BY <1>3, ForwardingEffect DEF OutInv
  <2>2. CASE Leaves
    <3>1. "client" \in EndErrors
      BY DEF EndErrors
    <3> QED BY <1>0, <2>1, <2>2, <3>1, DeliveringType DEF Leaves, EndStream
  <2>3. CASE Pinged
    <3>1. out' \in Seq(Wire)
      BY <1>0, <2>1, <2>3, PingedWell
    <3> QED BY <1>0, <2>1, <2>3, <3>1, DeliveringType DEF Pinged
  <2> QED BY <1>0, <1>1, <2>1, <2>2, <2>3
<1>4. CASE FinishCommitted
  <2>1. cur \in Cands /\ cur \in 0 .. N /\ cur \in 1 .. (N + 1)
    BY <1>4, FinishEffect, AtCandidate DEF TypeOK, AttemptTypeOK
  <2>2. AttemptTypeOK'
    <3>1. "done" \in PcStates
      BY DEF PcStates
    <3> QED BY <1>4, <2>1, <3>1, FinishEffect, LeaveAttemptType DEF TypeOK
  <2>3. stored' \in 0 .. N
    BY <1>4, <2>1 DEF FinishCommitted, RememberReasoning, TypeOK, AnswerTypeOK
  <2> DEFINE row == [cand |-> cur, success |-> ResultSuccess, class |-> errClass,
                     attempts |-> Len(attempts) + 1]
  <2>4. ResultSuccess \in BOOLEAN
    BY DEF ResultSuccess
  <2>5. row \in UsageRows
    BY <1>0, <2>1, <2>4 DEF UsageRows, TypeOK, RouteTypeOK
  <2>6. usage' = Append(usage, row)
    BY <1>4 DEF FinishCommitted
  <2> HIDE DEF row
  <2>7. usage' \in Seq(UsageRows)
    BY <2>5, <2>6 DEF TypeOK, AnswerTypeOK
  <2>8. RouteTypeOK' /\ AnswerTypeOK'
    BY <1>4, <2>3, <2>7, FinishEffect DEF TypeOK, RouteTypeOK, AnswerTypeOK
  <2> QED BY <2>2, <2>8 DEF TypeOK
<1> QED BY <1>2, <1>3, <1>4 DEF Deliver, Forwarding

LEMMA NextType ==
  ASSUME TypeOK, LoopInv, CommitInv, BufferInv, OutInv, [Next]_vars
  PROVE  TypeOK'
<1>1. CASE Route BY <1>1, RouteType
<1>2. CASE Deliver \/ StreamPing BY <1>2, DeliverType
<1>3. CASE Attempting
  BY <1>3, AttemptingEffect DEF TypeOK, RouteTypeOK, AnswerTypeOK
<1>4. CASE UNCHANGED vars
  BY <1>4 DEF vars, attemptVars, clientVars, deadlineVars, readerVars, releaseVars, bufferVars,
              routeVars, answerVars, encoderVars, TypeOK, AttemptTypeOK, RouteTypeOK, AnswerTypeOK
<1> QED BY <1>1, <1>2, <1>3, <1>4 DEF Next, Quiescent

-----------------------------------------------------------------------------
(* The loop and the answer.                                                *)

LEMMA NextLoop ==
  ASSUME TypeOK, LoopInv, CommitInv, BufferInv, OutInv, [Next]_vars
  PROVE  LoopInv' /\ CommitInv'
<1>0. cur \in 1 .. (N + 1) /\ cur \in Nat
  BY AttemptAssumption DEF TypeOK, AttemptTypeOK
<1>1. CASE SkipCandidate
  <2>1. pc = "next" /\ pc' = "next" /\ cur' = cur + 1 /\ UNCHANGED <<called, committed, status>>
    BY <1>1, SkipEffect
  <2> QED BY <1>0, <2>1 DEF LoopInv, CommitInv
<1>2. CASE RejectRequest
  <2>1. /\ pc = "next" /\ pc' = "done" /\ status' = 400
        /\ UNCHANGED <<cur, called, committed>>
    BY <1>2, RejectEffect
  <2> QED BY <2>1 DEF LoopInv, CommitInv
<1>3. CASE TryCandidate
  <2>1. /\ pc = "next" /\ pc' = "dialing" /\ cur' = cur /\ called' = called \cup {cur}
        /\ UNCHANGED <<committed, status>>
    BY <1>3, TryEffect
  <2> QED BY <1>0, <2>1 DEF LoopInv, CommitInv
<1>4. CASE DialFailed \/ DialTimedOut \/ PrecommitFailed
  <2>1. PICK class : FailedAttempt(class)
    BY <1>4, AttemptsFail
  <2>2. pc \in {"judge", "failed"} /\ UNCHANGED <<called, committed, clientGone>>
    BY <2>1 DEF FailedAttempt, clientVars
  <2>3. committed = 0 /\ status = 0 /\ called \subseteq 1 .. cur
    BY <2>2 DEF CommitInv, LoopInv
  <2>4. CASE pc' = "next"
    <3>1. cur' = cur + 1 /\ status' = status
      BY <2>1, <2>4 DEF FailedAttempt
    <3> QED BY <1>0, <2>2, <2>3, <2>4, <3>1 DEF LoopInv, CommitInv
  <2>5. CASE pc' = "done"
    <3>1. cur' = cur /\ (status' = 400 \/ (status' = status /\ clientGone))
      BY <2>1, <2>5 DEF FailedAttempt
    <3> QED BY <2>2, <2>3, <2>5, <3>1 DEF LoopInv, CommitInv
  <2> QED BY <2>1, <2>4, <2>5 DEF FailedAttempt
<1>5. CASE DialSucceeded
  <2>1. pc = "judge" /\ pc' = "collect" /\ UNCHANGED <<cur, called, committed, status>>
    BY <1>5, StartEffect
  <2> QED BY <2>1 DEF LoopInv, CommitInv
<1>6. CASE AllFailed
  <2>1. /\ pc = "next" /\ pc' = "done" /\ status' \in {502, 503}
        /\ UNCHANGED <<cur, called, committed>>
    BY <1>6, ExhaustEffect
  <2> QED BY <2>1 DEF LoopInv, CommitInv
<1>7. CASE CommitStream
  <2>1. /\ pc = "commit" /\ pc' \in {"stream", "finish"} /\ committed' = cur /\ status' = 200
        /\ UNCHANGED <<cur, called>>
    BY <1>7, CommitEffect DEF Delivering, GoesOn, Ends, EndStream
  <2> QED BY <2>1 DEF LoopInv, CommitInv
<1>8. CASE Forwarding
  <2>1. /\ pc = "stream" /\ pc' \in {"stream", "finish"}
        /\ UNCHANGED <<cur, called, committed, status>>
    BY <1>8, ForwardingEffect DEF Delivering, GoesOn, Ends, EndStream, Leaves, Pinged
  <2> QED BY <2>1 DEF LoopInv, CommitInv
<1>9. CASE FinishCommitted
  <2>1. /\ pc = "finish" /\ pc' = "done" /\ UNCHANGED <<cur, called, committed, status>>
    BY <1>9, FinishEffect
  <2>2. committed = cur /\ status = 200 /\ cur # 0
    BY <1>0, <2>1 DEF CommitInv
  <2> QED BY <2>1, <2>2 DEF LoopInv, CommitInv
<1>10. CASE Attempting
  BY <1>10, AttemptingEffect DEF LoopInv, CommitInv
<1>11. CASE UNCHANGED vars
  BY <1>11 DEF vars, attemptVars, clientVars, bufferVars, routeVars, answerVars, LoopInv, CommitInv
<1> QED BY <1>1, <1>2, <1>3, <1>4, <1>5, <1>6, <1>7, <1>8, <1>9, <1>10, <1>11
        DEF Next, Route, Deliver, Forwarding, Quiescent

-----------------------------------------------------------------------------
(* The log.                                                                *)

(* An entry for cur is added to the log. *)
LEMMA LogGrows ==
  ASSUME TypeOK, LogInv, AuthFailureSticks, pc # "done", cur \in Cands,
         NEW class \in Classes, NEW skipped \in BOOLEAN,
         attempts' = Append(attempts, Attempt(class, skipped)), called' = called,
         skipped <=> cur \notin called,
         skipped \/ Provider \notin authFailed,
         \/ /\ pc' = "next" /\ cur' = cur + 1 /\ authFailed \subseteq authFailed'
            /\ class = "auth" => Provider \in authFailed'
         \/ pc' = "done"
  PROVE  LogInv' /\ AuthFailureSticks'
<1> DEFINE e == Attempt(class, skipped)
           more == authFailed \cup {Provider}
<1>1. e \in AttemptErrors /\ e.cand = cur /\ e.class = class /\ e.skipped = skipped
  BY AttemptFields
<1>2. /\ attempts \in Seq(AttemptErrors)
      /\ Logged(attempts, authFailed, called)
      /\ Sticks(attempts)
      /\ Len(attempts) = cur - 1
  BY DEF TypeOK, RouteTypeOK, LogInv, AuthFailureSticks, Sticks
<1>3. cur \in Nat /\ cur = Len(attempts) + 1
  BY <1>2 DEF Cands
<1>4. attempts' = Append(attempts, e)
  OBVIOUS
<1>5. authFailed \subseteq more /\ ProviderOf[e.cand] \in more
  BY <1>1 DEF Provider
<1>6. e.skipped \/ ProviderOf[e.cand] \notin authFailed
  BY <1>1 DEF Provider
<1>7. pc' = "next" => /\ authFailed \subseteq authFailed'
                      /\ e.class = "auth" => ProviderOf[e.cand] \in authFailed'
  BY <1>1 DEF Provider
<1> HIDE DEF e, more
<1>8. e.cand = Len(attempts) + 1 /\ (e.skipped <=> e.cand \notin called)
  BY <1>1, <1>3
<1>9. Sticks(attempts')
  BY <1>1, <1>2, <1>4, <1>5, <1>6, <1>8, LogAppend
<1>10. pc' = "next" => Logged(attempts', authFailed', called)
  BY <1>1, <1>2, <1>4, <1>6, <1>7, <1>8, LogAppend
<1>11. Len(attempts') = cur
  BY <1>1, <1>2, <1>3, <1>4
<1>12. pc' # "done" => Len(attempts') = cur' - 1 /\ pc' = "next"
  BY <1>3, <1>11
<1> QED BY <1>9, <1>10, <1>12 DEF LogInv, AuthFailureSticks, Sticks

LEMMA NextLog ==
  ASSUME IInv, [Next]_vars
  PROVE  LogInv' /\ AuthFailureSticks'
<1>0. TypeOK /\ LoopInv /\ CommitInv /\ LogInv /\ AuthFailureSticks /\ BufferInv /\ OutInv
  BY DEF IInv
<1>1. ASSUME UNCHANGED <<cur, attempts, authFailed, called>>,
             pc' = pc \/ pc' = "done" \/ (pc \notin {"next", "done"} /\ pc' # "next")
      PROVE  LogInv' /\ AuthFailureSticks'
  BY <1>0, <1>1 DEF LogInv, Logged, AuthFailureSticks, Provider
<1>2. CASE SkipCandidate
  <2>1. /\ pc = "next" /\ pc' = "next" /\ cur' = cur + 1 /\ cur \in Cands /\ cur \notin called
        /\ UNCHANGED <<called, authFailed>>
    BY <1>0, <1>2, SkipEffect, AtCandidate DEF LoopInv
  <2>2. \/ Provider \in authFailed /\ attempts' = Append(attempts, Attempt("auth", TRUE))
        \/ attempts' = Append(attempts, Attempt("unknown", TRUE))
    BY <1>2 DEF SkipCandidate
  <2>3. "auth" \in Classes /\ "unknown" \in Classes
    BY DEF Classes
  <2> QED BY <1>0, <2>1, <2>2, <2>3, LogGrows
<1>3. CASE RejectRequest BY <1>1, <1>3, RejectEffect
<1>4. CASE TryCandidate
  <2>1. /\ pc = "next" /\ pc' = "dialing" /\ UNCHANGED <<cur, attempts, authFailed>>
        /\ called' = called \cup {cur} /\ Provider \notin authFailed
    BY <1>4, TryEffect
  <2>2. attempts \in Seq(AttemptErrors) /\ cur \in Nat /\ Len(attempts) = cur - 1
    BY <1>0, <2>1 DEF TypeOK, RouteTypeOK, AttemptTypeOK, LogInv
  <2>3. cur = Len(attempts) + 1 /\ Logged(attempts, authFailed, called)
    BY <1>0, <2>1, <2>2 DEF LogInv
  <2>4. Logged(attempts, authFailed, called \cup {cur})
    BY <2>2, <2>3, LogCall
  <2> QED BY <1>0, <2>1, <2>2, <2>4 DEF LogInv, Logged, AuthFailureSticks, Provider
<1>5. CASE DialFailed \/ DialTimedOut \/ PrecommitFailed
  <2>1. PICK class : FailedAttempt(class)
    BY <1>0, <1>5, AttemptsFail
  <2>2. /\ pc \in {"judge", "failed"} /\ class \in Classes /\ called' = called
        /\ attempts' = Append(attempts, Attempt(class, FALSE))
        /\ \/ pc' = "next" /\ cur' = cur + 1 /\ NoteAuth(class)
           \/ pc' = "done"
    BY <2>1 DEF FailedAttempt
  <2>3. cur \in Cands /\ cur \in called /\ Provider \notin authFailed
    BY <1>0, <2>2, AtCandidate DEF LogInv
  <2>4. NoteAuth(class) => /\ authFailed \subseteq authFailed'
                           /\ class = "auth" => Provider \in authFailed'
    BY DEF NoteAuth
  <2> QED BY <1>0, <2>2, <2>3, <2>4, LogGrows
<1>6. CASE DialSucceeded BY <1>1, <1>6, StartEffect
<1>7. CASE AllFailed BY <1>1, <1>7, ExhaustEffect
<1>8. CASE CommitStream
  BY <1>0, <1>1, <1>8, CommitEffect DEF Delivering, GoesOn, Ends, EndStream
<1>9. CASE Forwarding
  BY <1>0, <1>1, <1>9, ForwardingEffect DEF Delivering, GoesOn, Ends, EndStream, Leaves, Pinged
<1>10. CASE FinishCommitted BY <1>1, <1>10, FinishEffect
<1>11. CASE Attempting BY <1>0, <1>1, <1>11, AttemptingEffect
<1>12. CASE UNCHANGED vars BY <1>1, <1>12 DEF vars, attemptVars, routeVars
<1> QED BY <1>2, <1>3, <1>4, <1>5, <1>6, <1>7, <1>8, <1>9, <1>10, <1>11, <1>12
        DEF Next, Route, Deliver, Forwarding, Quiescent

-----------------------------------------------------------------------------
(* Attempts are released.                                                  *)

LEMMA Released ==
  ASSUME OneLiveUpstream, called' = called, called \subseteq Cands, cur \in Nat,
         \A c \in Cands : cancelled[c] => cancelled'[c],
         \/ cur' = cur /\ (pc' \in {"next", "done"} => pc \in {"next", "done"})
         \/ cur' = cur + 1 /\ pc = "next"
         \/ cur \in Cands => cancelled'[cur]
  PROVE  OneLiveUpstream'
BY DEF OneLiveUpstream, Cands

LEMMA NextRelease ==
  ASSUME IInv, [Next]_vars
  PROVE  OneLiveUpstream'
<1>0. /\ TypeOK /\ LoopInv /\ CommitInv /\ BufferInv /\ OutInv /\ OneLiveUpstream
      /\ called \subseteq Cands /\ cur \in Nat /\ cancelled \in [Cands -> BOOLEAN]
  BY DEF IInv, TypeOK, RouteTypeOK, AttemptTypeOK
<1>1. ASSUME cancelled' = [cancelled EXCEPT ![cur] = TRUE], called' = called
      PROVE  OneLiveUpstream'
  <2>1. \A c \in Cands : cancelled[c] => cancelled'[c]
    BY <1>0, <1>1
  <2>2. cur \in Cands => cancelled'[cur]
    BY <1>0, <1>1
  <2> QED BY <1>0, <1>1, <2>1, <2>2, Released
<1>2. ASSUME cancelled' = cancelled, called' = called, cur' = cur,
             pc' \in {"next", "done"} => pc \in {"next", "done"}
      PROVE  OneLiveUpstream'
  BY <1>0, <1>2, Released
<1>3. CASE SkipCandidate BY <1>0, <1>3, SkipEffect, Released
<1>4. CASE RejectRequest BY <1>2, <1>4, RejectEffect
<1>5. CASE TryCandidate BY <1>0, <1>5, TryEffect DEF OneLiveUpstream
<1>6. CASE DialFailed \/ DialTimedOut \/ PrecommitFailed
  BY <1>0, <1>1, <1>6, AttemptsFail DEF FailedAttempt
<1>7. CASE DialSucceeded BY <1>2, <1>7, StartEffect
<1>8. CASE AllFailed BY <1>2, <1>8, ExhaustEffect
<1>9. CASE CommitStream
  BY <1>0, <1>2, <1>9, CommitEffect DEF Delivering, GoesOn, Ends, EndStream
<1>10. CASE Forwarding
  BY <1>0, <1>2, <1>10, ForwardingEffect DEF Delivering, GoesOn, Ends, EndStream, Leaves, Pinged
<1>11. CASE FinishCommitted BY <1>1, <1>11, FinishEffect
<1>12. CASE Attempting BY <1>0, <1>12, AttemptingEffect, Released
<1>13. CASE UNCHANGED vars BY <1>2, <1>13 DEF vars, attemptVars, releaseVars, routeVars
<1> QED BY <1>3, <1>4, <1>5, <1>6, <1>7, <1>8, <1>9, <1>10, <1>11, <1>12, <1>13
        DEF Next, Route, Deliver, Forwarding, Quiescent

-----------------------------------------------------------------------------
(* The precommit buffer.                                                   *)
LEMMA NextBuffer ==
  ASSUME IInv, [Next]_vars
  PROVE  BufferInv'
<1>0. TypeOK /\ LoopInv /\ CommitInv /\ BufferInv /\ OutInv
  BY DEF IInv
<1>1. CASE SkipCandidate BY <1>0, <1>1, SkipEffect, BufferKept
<1>2. CASE RejectRequest BY <1>0, <1>2, RejectEffect, BufferKept
<1>3. CASE TryCandidate BY <1>3, TryEffect, BufferBegins
<1>4. CASE DialFailed \/ DialTimedOut \/ PrecommitFailed
  BY <1>0, <1>4, AttemptsFail, BufferKept DEF FailedAttempt, bufferVars
<1>5. CASE DialSucceeded BY <1>0, <1>5, StartEffect, BufferStarts
<1>6. CASE AllFailed BY <1>0, <1>6, ExhaustEffect, BufferKept
<1>7. CASE CommitStream
  BY <1>0, <1>7, CommitEffect, BufferKept DEF Delivering, GoesOn, Ends, EndStream, bufferVars
<1>8. CASE Forwarding
  BY <1>0, <1>8, ForwardingEffect, BufferKept
  DEF Delivering, GoesOn, Ends, EndStream, Leaves, Pinged, bufferVars
<1>9. CASE FinishCommitted BY <1>0, <1>9, FinishEffect, BufferKept
<1>10. CASE Attempting
  <2>1. pc = "collect" => cur \in Cands
    BY <1>0, AtCandidate
  <2>2. Dial \/ Collect \/ \E c \in Cands : Reader(c)
    BY <1>10 DEF Attempting, CollectAnthropic, ReadUpstream
  <2> QED BY <1>0, <2>1, <2>2, BufferAttempting DEF TypeOK
<1>11. CASE UNCHANGED vars BY <1>0, <1>11 DEF vars, attemptVars, bufferVars, BufferInv
<1> QED BY <1>1, <1>2, <1>3, <1>4, <1>5, <1>6, <1>7, <1>8, <1>9, <1>10, <1>11
        DEF Next, Route, Deliver, Forwarding, Quiescent

-----------------------------------------------------------------------------
(* What the client has been sent.                                          *)

LEMMA SentEarlier ==
  ASSUME OutInv, UNCHANGED <<out, enc, errClass, committed>>,
         \/ pc' = pc
         \/ pc = "finish" /\ pc' = "done"
         \/ committed = 0 /\ pc' \notin {"stream", "finish"}
  PROVE  OutInv'
BY DEF OutInv, ResultSuccess

LEMMA StreamGoesOn ==
  ASSUME pc' = "stream", committed' # 0, Unfinished(out'), ~enc'.terminal
  PROVE  OutInv'
BY DEF OutInv

LEMMA NextOut ==
  ASSUME IInv, [Next]_vars
  PROVE  OutInv'
<1>0. /\ TypeOK /\ LoopInv /\ CommitInv /\ BufferInv /\ OutInv
      /\ out \in Seq(Wire) /\ errClass \in EndErrors
  BY DEF IInv, TypeOK, AnswerTypeOK
<1>a. pc \notin {"stream", "finish", "done"} => committed = 0
  BY <1>0 DEF CommitInv
<1>b. pc \notin {"next", "done"} => cur # 0
  BY <1>0, AtCandidate
<1>1. ASSUME NEW s \in Seq(Wire), Unfinished(s), committed' # 0, ~enc.terminal,
             GoesOn(s, "stream") \/ \E w : Ends(s, w)
      PROVE  OutInv'
  <2>1. CASE GoesOn(s, "stream")
    <3>1. Unfinished(out') /\ pc' = "stream" /\ enc' = enc
      BY <1>1, <2>1, GoesOnWell DEF GoesOn
    <3> QED BY <1>1, <3>1, StreamGoesOn
  <2>2. ASSUME NEW w, Ends(s, w)
        PROVE  OutInv'
    <3>1. pc' = "finish"
      BY <2>2 DEF Ends, EndStream
    <3> QED BY <1>1, <2>2, <3>1, EndsWell DEF OutInv
  <2> QED BY <1>1, <2>1, <2>2
<1>2. CASE SkipCandidate BY <1>0, <1>a, <1>2, SkipEffect, SentEarlier
<1>3. CASE RejectRequest BY <1>0, <1>a, <1>3, RejectEffect, SentEarlier
<1>4. CASE TryCandidate BY <1>0, <1>a, <1>4, TryEffect, SentEarlier
<1>5. CASE DialFailed \/ DialTimedOut \/ PrecommitFailed
  <2>1. PICK class : FailedAttempt(class)
    BY <1>0, <1>5, AttemptsFail
  <2> QED BY <1>0, <1>a, <2>1, SentEarlier DEF FailedAttempt, encoderVars
<1>6. CASE DialSucceeded BY <1>0, <1>a, <1>6, StartEffect, SentEarlier
<1>7. CASE AllFailed BY <1>0, <1>a, <1>7, ExhaustEffect, SentEarlier
<1>8. CASE CommitStream
  <2>1. committed' # 0 /\ ~enc.terminal
    BY <1>0, <1>a, <1>b, <1>8, CommitEffect DEF OutInv
  <2> QED BY <1>0, <1>1, <1>8, <2>1, CommitEffect, StreamStarts
<1>9. CASE Forwarding
  <2>1. /\ pc = "stream" /\ committed' = committed /\ Unfinished(out) /\ ~enc.terminal
        /\ Leaves \/ Pinged \/ GoesOn(out, "stream") \/ \E w : Ends(out, w)
    BY <1>0, <1>9, ForwardingEffect DEF OutInv
  <2>2. committed' # 0
    BY <1>0, <1>b, <2>1 DEF CommitInv
  <2>3. CASE Leaves
    <3>1. pc' = "finish" /\ errClass' = "client" /\ UNCHANGED <<out, enc>>
      BY <2>3 DEF Leaves, EndStream
    <3>2. DOMAIN out = 1 .. Len(out) /\ Len(out) \in Nat /\ Len(out) # 0
      BY <1>0, <2>1, LenProperties, EmptySeq DEF Unfinished
    <3>3. out[Len(out)] # "message_stop" /\ \A j \in 1 .. (Len(out) - 1) : ~IsTerminator(out[j])
      BY <2>1, <3>2 DEF Unfinished, IsTerminator
    <3>4. ~ResultSuccess'
      BY <3>1 DEF ResultSuccess
    <3> QED BY <2>1, <2>2, <3>1, <3>3, <3>4 DEF OutInv, Unfinished
  <2>4. CASE Pinged
    <3>1. pc' = "stream" /\ enc' = enc /\ Unfinished(out')
      BY <1>0, <2>1, <2>4, PingedWell DEF Pinged
    <3> QED BY <2>1, <2>2, <3>1, StreamGoesOn
  <2> QED BY <1>0, <1>1, <2>1, <2>2, <2>3, <2>4
<1>10. CASE FinishCommitted BY <1>0, <1>10, FinishEffect, SentEarlier
<1>11. CASE Attempting
  <2>1. /\ UNCHANGED <<out, enc, errClass, committed>>
        /\ \/ pc' = pc
           \/ /\ pc \notin {"stream", "finish", "done"}
              /\ pc' \notin {"stream", "finish"}
    BY <1>0, <1>11, AttemptingEffect
  <2> QED BY <1>0, <1>a, <2>1, SentEarlier
<1>12. CASE UNCHANGED vars
  BY <1>0, <1>12, SentEarlier DEF vars, attemptVars, answerVars, encoderVars
<1> QED BY <1>2, <1>3, <1>4, <1>5, <1>6, <1>7, <1>8, <1>9, <1>10, <1>11, <1>12
        DEF Next, Route, Deliver, Forwarding, Quiescent

-----------------------------------------------------------------------------
(* The records.                                                            *)

(* The only usage record of a request. *)
LEMMA OnlyRow ==
  ASSUME usage = <<>>, NEW cand, NEW ok \in BOOLEAN, NEW class, NEW count,
         usage' = Append(usage, [cand |-> cand, success |-> ok, class |-> class,
                                 attempts |-> count])
  PROVE  Len(usage') = 1 /\ usage'[1].cand = cand /\ usage'[1].success = ok
<1> DEFINE row == [cand |-> cand, success |-> ok, class |-> class, attempts |-> count]
<1>1. row.cand = cand /\ row.success = ok
  OBVIOUS
<1>2. usage' = Append(usage, row)
  OBVIOUS
<1> HIDE DEF row
<1>3. usage' = <<row>>
  BY <1>2
<1>4. Len(<<row>>) = 1 /\ <<row>>[1] = row
  OBVIOUS
<1>5. Len(usage') = 1 /\ usage'[1] = row
  BY <1>3, <1>4
<1> QED BY <1>1, <1>5

(* A request that ends without a commit leaves at most one record. *)
LEMMA Uncommitted ==
  ASSUME usage = <<>>, stored = 0, pc' = "done", committed' = 0, stored' = stored,
         usage' = usage \/ \E class, rows : RecordFailure(class, rows)
  PROVE  LedgerInv'
<1>1. CASE usage' = usage
  <2>1. Len(usage') = 0
    BY <1>1
  <2> QED BY <2>1 DEF LedgerInv, RecordsTellOutcome
<1>2. ASSUME NEW class, NEW rows, RecordFailure(class, rows)
      PROVE  LedgerInv'
  <2>1. Len(usage') = 1
    BY <1>2, OnlyRow DEF RecordFailure
  <2> QED BY <2>1 DEF LedgerInv, RecordsTellOutcome
<1> QED BY <1>1, <1>2

LEMMA NextLedger ==
  ASSUME IInv, [Next]_vars
  PROVE  LedgerInv'
<1>0. /\ TypeOK /\ LoopInv /\ CommitInv /\ BufferInv /\ OutInv /\ LedgerInv
      /\ pc # "done" => usage = <<>> /\ stored = 0
  BY DEF IInv, LedgerInv
<1>1. ASSUME pc # "done", pc' # "done", UNCHANGED <<usage, stored>>
      PROVE  LedgerInv'
  <2>1. usage' = <<>> /\ stored' = 0
    BY <1>0, <1>1
  <2>2. Len(usage') = 0
    BY <2>1
  <2> QED BY <1>1, <2>1, <2>2 DEF LedgerInv, RecordsTellOutcome
<1>a. pc \notin {"stream", "finish", "done"} => committed = 0
  BY <1>0 DEF CommitInv
<1>2. CASE SkipCandidate BY <1>1, <1>2, SkipEffect
<1>3. CASE RejectRequest BY <1>0, <1>a, <1>3, RejectEffect, Uncommitted
<1>4. CASE TryCandidate BY <1>1, <1>4, TryEffect
<1>5. CASE DialFailed \/ DialTimedOut \/ PrecommitFailed
  <2>1. PICK class : FailedAttempt(class)
    BY <1>0, <1>5, AttemptsFail
  <2>2. pc \in {"judge", "failed"} /\ committed' = 0 /\ stored' = stored
    BY <1>a, <2>1 DEF FailedAttempt
  <2>3. CASE pc' = "next"
    BY <1>1, <2>1, <2>2, <2>3 DEF FailedAttempt
  <2>4. CASE pc' = "done"
    <3>1. usage' = usage \/ RecordFailure("client", attempts')
      BY <2>1 DEF FailedAttempt
    <3> QED BY <1>0, <2>2, <2>4, <3>1, Uncommitted
  <2> QED BY <2>1, <2>3, <2>4 DEF FailedAttempt
<1>6. CASE DialSucceeded BY <1>1, <1>6, StartEffect
<1>7. CASE AllFailed BY <1>0, <1>a, <1>7, ExhaustEffect, Uncommitted
<1>8. CASE CommitStream
  BY <1>0, <1>1, <1>8, CommitEffect DEF Delivering, GoesOn, Ends, EndStream
<1>9. CASE Forwarding
  BY <1>0, <1>1, <1>9, ForwardingEffect DEF Delivering, GoesOn, Ends, EndStream, Leaves, Pinged
<1>10. CASE FinishCommitted
  <2>1. /\ pc = "finish" /\ pc' = "done" /\ UNCHANGED <<cur, out, committed, enc, errClass>>
        /\ usage' = Append(usage, [cand |-> cur, success |-> ResultSuccess, class |-> errClass,
                                   attempts |-> Len(attempts) + 1])
    BY <1>10, FinishEffect DEF FinishCommitted
  <2>2. usage = <<>> /\ stored = 0 /\ ResultSuccess \in BOOLEAN /\ committed = cur
    BY <1>0, <2>1 DEF ResultSuccess, CommitInv
  <2>3. Len(usage') = 1 /\ usage'[1].cand = cur /\ usage'[1].success = ResultSuccess
    BY <2>1, <2>2, OnlyRow
  <2>4. stored' # 0 => stored' = cur /\ ResultSuccess
    BY <1>10, <2>2 DEF FinishCommitted, RememberReasoning
  <2>5. ResultSuccess <=> out[Len(out)] = "message_stop" /\ ~enc.maxTokens
    BY <1>0, <2>1 DEF OutInv
  <2> QED BY <2>1, <2>2, <2>3, <2>4, <2>5 DEF LedgerInv, RecordsTellOutcome
<1>11. CASE Attempting
  <2>1. /\ UNCHANGED <<out, committed, enc, usage, stored>>
        /\ pc' = pc \/ (pc # "done" /\ pc' # "done")
    BY <1>0, <1>11, AttemptingEffect
  <2> QED BY <1>0, <1>1, <2>1 DEF LedgerInv, RecordsTellOutcome
<1>12. CASE UNCHANGED vars
  BY <1>0, <1>12
  DEF vars, attemptVars, answerVars, encoderVars, LedgerInv, RecordsTellOutcome
<1> QED BY <1>2, <1>3, <1>4, <1>5, <1>6, <1>7, <1>8, <1>9, <1>10, <1>11, <1>12
        DEF Next, Route, Deliver, Forwarding, Quiescent

-----------------------------------------------------------------------------
(* The invariant, and what it says.                                        *)

LEMMA InitInv == Init => IInv
<1> SUFFICES ASSUME Init PROVE IInv
  OBVIOUS
<1>1. TypeOK /\ BufferInv
  BY InitType, BufferInit DEF Init
<1>2. pc = "next" /\ cur = 1 /\ called = {} /\ committed = 0 /\ status = 0 /\ stored = 0
  BY Zenon DEF Init, AttemptInit
<1>3. attempts = <<>> /\ out = <<>> /\ usage = <<>>
  BY Zenon DEF Init
<1>4. ~enc.terminal
  BY DEF Init, NewStreamEncoder
<1>5. LoopInv /\ CommitInv /\ OneLiveUpstream
  BY <1>2 DEF LoopInv, CommitInv, OneLiveUpstream
<1>6. LogInv /\ AuthFailureSticks
  BY <1>2, <1>3 DEF LogInv, Logged, AuthFailureSticks
<1>7. OutInv
  BY <1>2, <1>3, <1>4 DEF OutInv
<1>8. Len(usage) = 0
  BY <1>3
<1>9. LedgerInv
  BY <1>2, <1>3, <1>8 DEF LedgerInv, RecordsTellOutcome
<1> QED BY <1>1, <1>5, <1>6, <1>7, <1>9 DEF IInv

LEMMA NextInv == IInv /\ [Next]_vars => IInv'
<1> SUFFICES ASSUME IInv, [Next]_vars PROVE IInv'
  OBVIOUS
<1>1. TypeOK' /\ LoopInv' /\ CommitInv'
  BY NextType, NextLoop DEF IInv
<1>2. LogInv' /\ AuthFailureSticks' /\ OneLiveUpstream'
  BY NextLog, NextRelease
<1>3. BufferInv' /\ OutInv' /\ LedgerInv'
  BY NextBuffer, NextOut, NextLedger
<1> QED BY <1>1, <1>2, <1>3 DEF IInv

(* The inductive invariant of a streaming Messages request: the loop, its  *)
(* log, the stream with its encoder, and the records.                      *)
THEOREM InvariantHolds == Spec => []IInv
BY InitInv, NextInv, PTL DEF Spec

(* serveMessagesStream never calls a provider again that answered 401 or   *)
(* 403, cancels every attempt before the next one, and returns without an  *)
(* answer only when the client left.                                       *)
THEOREM RoutingIsSound == Spec => []RoutingInv
<1>1. IInv => RoutingInv
  BY DEF IInv, CommitInv, AnsweredOrGone, RoutingInv
<1> QED BY <1>1, InvariantHolds, PTL

(* A committed Anthropic stream begins with message_start and ends with    *)
(* exactly one message_stop or error, with not even a ping after it,       *)
(* unless the client left: for any number of pings and events.             *)
THEOREM StreamsEndOnce == Spec => []TerminatedOnce
<1>1. IInv => TerminatedOnce
  <2> SUFFICES ASSUME IInv PROVE TerminatedOnce
    OBVIOUS
  <2>1. CommitInv /\ OutInv /\ out \in Seq(Wire)
    BY DEF IInv, TypeOK, AnswerTypeOK
  <2>2. CASE out = <<>>
    <3>1. Len(out) = 0
      BY <2>2
    <3> QED BY <2>1, <2>2, <3>1 DEF OutInv, Unfinished, TerminatedOnce
  <2>3. CASE out # <<>>
    <3>1. pc \in {"stream", "finish"} \/ (pc = "done" /\ committed # 0)
      BY <2>1, <2>3 DEF CommitInv, OutInv
    <3>2. out[1] = "message_start" /\ \A j \in 1 .. (Len(out) - 1) : ~IsTerminator(out[j])
      BY <2>1, <3>1 DEF OutInv, Unfinished
    <3> QED BY <2>1, <3>2 DEF OutInv, TerminatedOnce
  <2> QED BY <2>2, <2>3
<1> QED BY <1>1, InvariantHolds, PTL

(* A committed request leaves one usage record, which tells the outcome    *)
(* its client saw; reasoning is remembered only for a completed response.  *)
THEOREM RecordsAreTrue == Spec => []RecordsTellOutcome
<1>1. IInv => RecordsTellOutcome
  BY DEF IInv, LedgerInv
<1> QED BY <1>1, InvariantHolds, PTL

-----------------------------------------------------------------------------
(* The handler implements the failover promise.                            *)

(* A step that leaves the loop where it is, commits to nothing and does    *)
(* not end the request is invisible to the promise.                        *)
LEMMA InvisibleStep ==
  ASSUME UNCHANGED <<cur, called, committed>>, pc # "done", pc' # "done",
         pc = "next" <=> pc' = "next"
  PROVE  UNCHANGED Promise!vars
BY DEF Promise!vars, Considered, Verdict

LEMMA FailedStep ==
  ASSUME IInv, NEW class, FailedAttempt(class)
  PROVE  [Promise!Next]_(Promise!vars)
<1>1. /\ pc \in {"judge", "failed"} /\ UNCHANGED <<called, committed>>
      /\ \/ pc' = "done" /\ cur' = cur /\ status' = 400
         \/ pc' = "done" /\ cur' = cur /\ status' = status
         \/ pc' = "next" /\ cur' = cur + 1
  BY DEF FailedAttempt
<1>2. /\ cur \in 1 .. N /\ cur \in called /\ called \subseteq 1 .. cur
      /\ committed = 0 /\ status = 0
  BY <1>1, AtCandidate DEF IInv, LoopInv, CommitInv, Cands
<1>3. Considered = cur /\ Verdict = "open"
  BY <1>1, <1>2 DEF Considered, Verdict
<1>4. CASE pc' = "done" /\ cur' = cur /\ status' = 400
  <2>1. Considered' = cur /\ Verdict' = "rejected"
    BY <1>1, <1>2, <1>4 DEF Considered, Verdict
  <2> QED BY <1>1, <1>2, <1>3, <2>1 DEF Promise!Next, Promise!Reject, Promise!Undecided
<1>5. CASE pc' = "done" /\ cur' = cur /\ status' = status
  <2>1. Considered' = cur /\ Verdict' = "abandoned"
    BY <1>1, <1>2, <1>5 DEF Considered, Verdict
  <2> QED BY <1>1, <1>2, <1>3, <2>1 DEF Promise!Next, Promise!Abandon, Promise!Undecided
<1>6. CASE pc' = "next" /\ cur' = cur + 1
  <2>1. Considered' = cur /\ Verdict' = "open"
    BY <1>1, <1>2, <1>6 DEF Considered, Verdict
  <2> QED BY <1>1, <1>3, <2>1 DEF Promise!vars
<1> QED BY <1>1, <1>4, <1>5, <1>6

LEMMA PromiseStep ==
  ASSUME IInv, [Next]_vars
  PROVE  [Promise!Next]_(Promise!vars)
<1>0. /\ TypeOK /\ LoopInv /\ CommitInv /\ BufferInv /\ OutInv
      /\ cur \in 1 .. (N + 1) /\ called \subseteq 1 .. cur /\ N \in Nat
      /\ pc = "next" => cur \notin called /\ committed = 0
  BY AttemptAssumption DEF IInv, LoopInv, CommitInv, TypeOK, AttemptTypeOK
<1>a. pc = "next" => Considered = cur - 1 /\ Verdict = "open"
  BY <1>0 DEF Considered, Verdict
<1>b. pc \in {"commit", "stream", "finish"} => cur \in called /\ cur # 0
  BY <1>0 DEF LoopInv
<1>1. CASE SkipCandidate
  <2>1. /\ pc = "next" /\ pc' = "next" /\ cur <= N /\ cur' = cur + 1
        /\ UNCHANGED <<called, committed>>
    BY <1>1, SkipEffect
  <2>2. Considered' = cur /\ Verdict' = "open"
    BY <2>1, <1>0 DEF Considered, Verdict
  <2> QED BY <1>0, <1>a, <2>1, <2>2 DEF Promise!Next, Promise!Skip, Promise!Undecided
<1>2. CASE RejectRequest
  <2>1. /\ pc = "next" /\ pc' = "done" /\ status' = 400 /\ UNCHANGED <<cur, called, committed>>
    BY <1>2, RejectEffect
  <2>2. Considered' = Considered /\ Verdict' = "rejected"
    BY <2>1, <1>0, <1>a DEF Considered, Verdict
  <2> QED BY <1>0, <1>a, <2>1, <2>2 DEF Promise!Next, Promise!Reject, Promise!Undecided
<1>3. CASE TryCandidate
  <2>1. /\ pc = "next" /\ pc' = "dialing" /\ cur <= N /\ cur' = cur
        /\ called' = called \cup {cur} /\ committed' = committed
    BY <1>3, TryEffect
  <2>2. Considered' = cur /\ Verdict' = "open"
    BY <2>1, <1>0 DEF Considered, Verdict
  <2>3. called' = called \cup {Considered + 1}
    BY <1>0, <1>a, <2>1
  <2> QED BY <1>0, <1>a, <2>1, <2>2, <2>3 DEF Promise!Next, Promise!Call, Promise!Undecided
<1>4. CASE DialFailed \/ DialTimedOut \/ PrecommitFailed
  BY <1>0, <1>4, AttemptsFail, FailedStep
<1>5. CASE DialSucceeded BY <1>5, StartEffect, InvisibleStep
<1>6. CASE AllFailed
  <2>1. /\ pc = "next" /\ pc' = "done" /\ cur = N + 1 /\ cur' = cur /\ status' \in {502, 503}
        /\ UNCHANGED <<called, committed>>
    BY <1>6, ExhaustEffect
  <2>2. Considered' = N /\ Considered = N /\ Verdict' = "exhausted"
    BY <2>1, <1>0 DEF Considered, Verdict
  <2> QED BY <1>0, <1>a, <2>1, <2>2 DEF Promise!Next, Promise!Exhaust, Promise!Undecided
<1>7. CASE CommitStream
  <2>1. /\ pc = "commit" /\ pc' \in {"finish", "stream"} /\ committed = 0 /\ committed' = cur
        /\ UNCHANGED <<cur, called>>
    BY <1>0, <1>7, CommitEffect DEF Delivering, GoesOn, Ends, EndStream, CommitInv
  <2>2. Considered = cur /\ Considered' = cur /\ Verdict = "open" /\ Verdict' = "open"
    BY <1>b, <2>1 DEF Considered, Verdict
  <2> QED BY <1>b, <2>1, <2>2 DEF Promise!Next, Promise!Commit, Promise!Undecided
<1>8. CASE Forwarding
  <2>1. /\ pc = "stream" /\ pc' \in {"stream", "finish"} /\ UNCHANGED <<cur, called, committed>>
    BY <1>0, <1>8, ForwardingEffect DEF Delivering, GoesOn, Ends, EndStream, Leaves, Pinged
  <2> QED BY <2>1, InvisibleStep
<1>9. CASE FinishCommitted
  <2>1. /\ pc = "finish" /\ pc' = "done" /\ committed = cur
        /\ UNCHANGED <<cur, called, committed>>
    BY <1>0, <1>9, FinishEffect DEF CommitInv
  <2>2. Considered' = Considered /\ Verdict = "open" /\ Verdict' = "served"
    BY <1>b, <2>1 DEF Considered, Verdict
  <2> QED BY <1>b, <2>1, <2>2 DEF Promise!Next, Promise!Serve
<1>10. CASE Attempting
  <2>1. /\ UNCHANGED <<cur, called, committed, status>>
        /\ \/ pc' = pc
           \/ pc \notin {"next", "done"} /\ pc' \notin {"next", "done"}
    BY <1>0, <1>10, AttemptingEffect
  <2> QED BY <2>1 DEF Promise!vars, Considered, Verdict
<1>11. CASE UNCHANGED vars
  <2>1. UNCHANGED <<pc, cur, called, committed, status>>
    BY <1>11 DEF vars, attemptVars, routeVars, answerVars
  <2> QED BY <2>1 DEF Promise!vars, Considered, Verdict
<1> QED BY <1>1, <1>2, <1>3, <1>4, <1>5, <1>6, <1>7, <1>8, <1>9, <1>10, <1>11
        DEF Next, Route, Deliver, Forwarding, Quiescent

(* serveMessagesStream implements the failover promise for any number of   *)
(* candidates: configured order, each at most once, at most one commit,    *)
(* and no upstream call after a commit, a rejection or an answer.          *)
THEOREM KeepsFailoverPromise == Spec => FailoverSpec
<1>1. Init => Promise!Init
  <2> SUFFICES ASSUME Init PROVE Promise!Init
    OBVIOUS
  <2>1. pc = "next" /\ cur = 1 /\ called = {} /\ committed = 0
    BY Zenon DEF Init, AttemptInit
  <2> QED BY <2>1 DEF Promise!Init, Considered, Verdict
<1>2. IInv /\ [Next]_vars => [Promise!Next]_(Promise!vars)
  BY PromiseStep
<1> QED BY <1>1, <1>2, InvariantHolds, PTL DEF Spec, FailoverSpec, Promise!Spec
=============================================================================
