------------------------ MODULE ResponsesStreamProofs ------------------------
(***************************************************************************)
(* Proofs about ResponsesStream, for every number of candidates and every  *)
(* bound: type correctness and the failover promise first, then what a     *)
(* request leaves behind: which providers are called, which attempts are   *)
(* released, the status, the events that reach the client, the records.    *)
(***************************************************************************)
EXTENDS ResponsesStream, StreamAttemptProofs

-----------------------------------------------------------------------------
(* Type correctness.                                                       *)

(* The initial state is well typed. *)
LEMMA InitType == Init => TypeOK
<1> SUFFICES ASSUME Init PROVE TypeOK
  OBVIOUS
<1>1. hoard \in BOOLEAN /\ terminal \in BOOLEAN /\ success \in BOOLEAN
  BY Zenon DEF Init
<1>3. /\ keyed \subseteq Providers /\ attempts = <<>> /\ authFailed = {} /\ called = {}
      /\ status = 0 /\ out = <<>> /\ committed = 0 /\ errClass = "" /\ usage = <<>>
      /\ affinity = 0
  BY Zenon DEF Init
<1>4. AttemptTypeOK
  BY AttemptInitType DEF Init
<1>5. \A S : <<>> \in Seq(S)
  OBVIOUS
<1>6. 0 \in 0 .. N /\ 0 \in {0, 200, 400, 502, 503} /\ "" \in EndErrors
  BY AttemptAssumption DEF EndErrors
<1>7. RouteTypeOK /\ AnswerTypeOK
  BY <1>1, <1>3, <1>5, <1>6, Zenon DEF RouteTypeOK, AnswerTypeOK
<1> QED
  BY <1>4, <1>7 DEF TypeOK

(* The steps inside an attempt keep the state well typed. *)
LEMMA AttemptingType ==
  ASSUME TypeOK, LoopInv, Attempting
  PROVE  TypeOK'
<1>1. AttemptTypeOK'
  <2>1. AttemptTypeOK
    BY DEF TypeOK
  <2>2. CASE Dial BY <2>1, <2>2, DialAttemptType
  <2>3. CASE Collect
    <3>1. pc = "collect"
      BY <2>3 DEF Collect, CollectLimit, CollectDeadline, CollectIdle, CollectCancelled,
                  CollectClosed, CollectStep
    <3>2. cur \in Cands
      BY <3>1 DEF LoopInv, TypeOK, RouteTypeOK
    <3> QED BY <2>1, <2>3, <3>2, CollectAttemptType
  <2>4. CASE \E c \in Cands : Reader(c) BY <2>1, <2>4, ReaderAttemptType
  <2> QED BY <2>2, <2>3, <2>4 DEF Attempting
<1>2. RouteTypeOK' /\ AnswerTypeOK'
  BY DEF Attempting, TypeOK, RouteTypeOK, AnswerTypeOK, requestVars, routeVars, answerVars, resultVars
<1> QED BY <1>1, <1>2 DEF TypeOK

(* The handler's own record operations. *)
LEMMA RecordTypes ==
  ASSUME TypeOK, cur \in Cands, NEW class \in Classes, NEW skipped \in BOOLEAN
  PROVE  /\ Append(attempts, Attempt(class, skipped)) \in Seq(AttemptErrors)
         /\ NoteAuth(class) => authFailed' \subseteq Providers
<1>1. Attempt(class, skipped) \in AttemptErrors
  BY DEF Attempt, AttemptErrors
<1>2. Append(attempts, Attempt(class, skipped)) \in Seq(AttemptErrors)
  BY <1>1 DEF TypeOK, RouteTypeOK
<1>3. NoteAuth(class) => authFailed' \subseteq Providers
  BY AttemptAssumption DEF NoteAuth, Provider, TypeOK, RouteTypeOK
<1> QED BY <1>2, <1>3

LEMMA FailureRecorded ==
  ASSUME TypeOK, NEW class \in Classes, NEW rows \in Seq(AttemptErrors),
         RecordFailure(class, rows)
  PROVE  usage' \in Seq(UsageRows)
<1>1. [cand |-> 0, success |-> FALSE, class |-> class, attempts |-> Len(rows)] \in UsageRows
  BY AttemptAssumption DEF UsageRows
<1> QED BY <1>1 DEF RecordFailure, TypeOK, AnswerTypeOK

(* The failover loop keeps the state well typed. *)
LEMMA RouteType ==
  ASSUME TypeOK, LoopInv, Route
  PROVE  TypeOK'
<1> USE DEF ReleaseAttempt, ClientLeft, requestVars, routeVars, answerVars, resultVars,
      clientVars, deadlineVars, readerVars, releaseVars, bufferVars, PcStates
<1>a. /\ cur \in 1 .. (N + 1)
      /\ pc \notin {"next", "done"} => cur \in Cands
      /\ cur <= N => cur \in Cands
      /\ cur \in Cands => cur + 1 \in 1 .. (N + 1)
  BY AttemptAssumption DEF TypeOK, AttemptTypeOK, RouteTypeOK, LoopInv, Cands
<1>b. Classes = {"client", "auth", "timeout", "upstream", "unknown"}
  BY DEF Classes
<1>1. CASE SkipCandidate
  <2>1. attempts' \in Seq(AttemptErrors)
    BY <1>1, <1>a, <1>b, RecordTypes DEF SkipCandidate
  <2>2. AttemptTypeOK'
    BY <1>1, <1>a DEF SkipCandidate, TypeOK, AttemptTypeOK
  <2>3. RouteTypeOK' /\ AnswerTypeOK'
    BY <1>1, <2>1 DEF SkipCandidate, TypeOK, RouteTypeOK, AnswerTypeOK
  <2> QED BY <2>2, <2>3 DEF TypeOK
<1>2. CASE TryCandidate
  <2>4. AttemptTypeOK'
    BY <1>2, BeginAttemptType DEF TryCandidate, TypeOK
  <2>5. RouteTypeOK' /\ AnswerTypeOK'
    BY <1>2, <1>a DEF TryCandidate, TypeOK, RouteTypeOK, AnswerTypeOK
  <2> QED BY <2>4, <2>5 DEF TypeOK
<1>3. CASE DialFailed
  <2> DEFINE class == IF expired THEN "timeout" ELSE dialErr
  <2>1. class \in Classes
    BY <1>3 DEF DialFailed, DialClass, TypeOK, AttemptTypeOK, Classes
  <2>2. /\ attempts' = Append(attempts, Attempt(class, FALSE))
        /\ NoteAuth(class)
        /\ \/ RecordFailure("client", attempts') /\ status' = 400 /\ pc' = "done" /\ cur' = cur
           \/ UNCHANGED <<usage, status>> /\ pc' = "next" /\ cur' = cur + 1
    BY <1>3 DEF DialFailed, DialClass
  <2> HIDE DEF class
  <2>3. attempts' \in Seq(AttemptErrors) /\ authFailed' \subseteq Providers
    BY <1>3, <1>a, <2>1, <2>2, RecordTypes DEF DialFailed, DialClass
  <2>4. usage' \in Seq(UsageRows)
    BY <2>2, <2>3, <1>b, FailureRecorded DEF TypeOK, AnswerTypeOK
  <2>5. cancelled' \in [Cands -> BOOLEAN]
    BY <1>3, SetFlag DEF DialFailed, DialClass, TypeOK, AttemptTypeOK
  <2>6. AttemptTypeOK'
    BY <1>3, <1>a, <2>2, <2>5 DEF DialFailed, DialClass, TypeOK, AttemptTypeOK
  <2>7. UNCHANGED <<requestVars, called, out, committed, resultVars, affinity>>
    BY <1>3 DEF DialFailed, DialClass
  <2>8. RouteTypeOK'
    BY <2>3, <2>7 DEF TypeOK, RouteTypeOK
  <2>a. status' \in {400, status} \/ status' = status
    BY <2>2, Zenon
  <2>b. status \in {0, 200, 400, 502, 503}
    BY DEF TypeOK, AnswerTypeOK
  <2>c. status' \in {0, 200, 400, 502, 503}
    BY <2>a, <2>b
  <2>9. AnswerTypeOK'
    BY <2>4, <2>7, <2>c DEF TypeOK, AnswerTypeOK
  <2> QED BY <2>6, <2>8, <2>9 DEF TypeOK
<1>4. CASE DialTimedOut
  <2>1. attempts' \in Seq(AttemptErrors)
    BY <1>4, <1>a, <1>b, RecordTypes DEF DialTimedOut
  <2>2. cancelled' \in [Cands -> BOOLEAN] /\ closed' \in [Cands -> BOOLEAN]
    BY <1>4, SetFlag DEF DialTimedOut, TypeOK, AttemptTypeOK
  <2>3. AttemptTypeOK'
    BY <1>4, <1>a, <2>2 DEF DialTimedOut, TypeOK, AttemptTypeOK
  <2>4. RouteTypeOK' /\ AnswerTypeOK'
    BY <1>4, <2>1, ZenonT(60) DEF DialTimedOut, TypeOK, RouteTypeOK, AnswerTypeOK
  <2> QED BY <2>3, <2>4 DEF TypeOK
<1>5. CASE DialSucceeded
  <2>2. AttemptTypeOK'
    BY <1>5, StartReaderType DEF DialSucceeded, TypeOK
  <2>3. RouteTypeOK' /\ AnswerTypeOK'
    BY <1>5 DEF DialSucceeded, TypeOK, RouteTypeOK, AnswerTypeOK
  <2> QED BY <2>2, <2>3 DEF TypeOK
<1>6. CASE PrecommitFailed
  <2>1. failErr \in Classes
    BY <1>6 DEF PrecommitFailed, LoopInv, TypeOK, AttemptTypeOK
  <2>2. /\ attempts' = Append(attempts, Attempt(failErr, FALSE))
        /\ NoteAuth(failErr)
        /\ \/ RecordFailure("client", attempts') /\ status' \in {400, status}
           \/ UNCHANGED <<usage, status>>
    BY <1>6 DEF PrecommitFailed
  <2>3. attempts' \in Seq(AttemptErrors) /\ authFailed' \subseteq Providers
    BY <1>6, <1>a, <2>1, <2>2, RecordTypes DEF PrecommitFailed
  <2>4. usage' \in Seq(UsageRows)
    BY <2>2, <2>3, <1>b, FailureRecorded DEF TypeOK, AnswerTypeOK
  <2>5. cancelled' \in [Cands -> BOOLEAN] /\ closed' \in [Cands -> BOOLEAN]
    BY <1>6, SetFlag DEF PrecommitFailed, TypeOK, AttemptTypeOK
  <2>6. AttemptTypeOK'
    BY <1>6, <1>a, <2>5 DEF PrecommitFailed, TypeOK, AttemptTypeOK
  <2>7. UNCHANGED <<requestVars, called, out, committed, resultVars, affinity>>
    BY <1>6 DEF PrecommitFailed
  <2>8. RouteTypeOK'
    BY <2>3, <2>7 DEF TypeOK, RouteTypeOK
  <2>a. status' \in {400, status} \/ status' = status
    BY <2>2, Zenon
  <2>b. status \in {0, 200, 400, 502, 503}
    BY DEF TypeOK, AnswerTypeOK
  <2>c. status' \in {0, 200, 400, 502, 503}
    BY <2>a, <2>b
  <2>9. AnswerTypeOK'
    BY <2>4, <2>7, <2>c DEF TypeOK, AnswerTypeOK
  <2> QED BY <2>6, <2>8, <2>9 DEF TypeOK
<1>7. CASE AllFailed
  <2>1. usage' \in Seq(UsageRows)
    BY <1>7, <1>b, FailureRecorded DEF AllFailed, TypeOK, RouteTypeOK
  <2>2. AttemptTypeOK'
    BY <1>7 DEF AllFailed, TypeOK, AttemptTypeOK
  <2>3. RouteTypeOK' /\ AnswerTypeOK'
    BY <1>7, <2>1 DEF AllFailed, TypeOK, RouteTypeOK, AnswerTypeOK
  <2> QED BY <2>2, <2>3 DEF TypeOK
<1> QED BY <1>1, <1>2, <1>3, <1>4, <1>5, <1>6, <1>7 DEF Route

(* So does the delivery of a committed stream. *)
LEMMA DeliverType ==
  ASSUME TypeOK, LoopInv, Deliver
  PROVE  TypeOK'
<1> USE DEF ReleaseAttempt, ErrorEvent, PinResponse, requestVars, routeVars, answerVars, resultVars,
      clientVars, deadlineVars, readerVars, releaseVars, bufferVars, PcStates
<1>a. pc \notin {"next", "done"} => cur \in Cands /\ cur \in 0 .. N
  <2>1. pc \notin {"next", "done"} => cur \in Cands
    BY DEF TypeOK, RouteTypeOK, LoopInv
  <2> QED BY <2>1, AttemptAssumption DEF Cands
<1>b. /\ <<"routing">> \in Seq(Kinds \cup GatewayKinds)
      /\ <<>> \in Seq(Kinds \cup GatewayKinds)
      /\ buf \in Seq(Kinds \cup GatewayKinds)
      /\ Append(out, "error") \in Seq(Kinds \cup GatewayKinds)
  BY DEF TypeOK, AttemptTypeOK, AnswerTypeOK, GatewayKinds
<1>c. ASSUME NEW k, Observe(k)
      PROVE  terminal' \in BOOLEAN /\ success' \in BOOLEAN /\ errClass' \in EndErrors
  <2>1. terminal' \in BOOLEAN /\ success' \in BOOLEAN
    BY <1>c, Zenon DEF Observe, TypeOK, AnswerTypeOK
  <2>2. errClass' \in EndErrors
    BY <1>c DEF Observe, TypeOK, AnswerTypeOK, EndErrors
  <2> QED BY <2>1, <2>2
<1>d. ASSUME EndStream
      PROVE  closed' \in [Cands -> BOOLEAN] /\ stop' \in [Cands -> BOOLEAN] /\ pc' \in PcStates
  BY <1>d, SetFlag DEF EndStream, TypeOK, AttemptTypeOK
<1>1. CASE CommitStream
  <2>1. out' \in Seq(Kinds \cup GatewayKinds)
    <3>1. CASE hoard
      BY <1>1, <1>b, <3>1 DEF CommitStream
    <3>2. CASE ~hoard
      BY <1>1, <1>b, <3>2 DEF CommitStream
    <3> QED BY <3>1, <3>2
  <2>2. terminal' \in BOOLEAN /\ success' \in BOOLEAN /\ errClass' \in EndErrors
    BY <1>1, <1>c DEF CommitStream
  <2>3. closed' \in [Cands -> BOOLEAN] /\ stop' \in [Cands -> BOOLEAN]
    BY <1>1, SetFlag DEF CommitStream, TypeOK, AttemptTypeOK
  <2>4. AttemptTypeOK'
    BY <1>1, <2>3 DEF CommitStream, TypeOK, AttemptTypeOK
  <2>5. RouteTypeOK' /\ AnswerTypeOK'
    BY <1>1, <1>a, <2>1, <2>2 DEF CommitStream, TypeOK, RouteTypeOK, AnswerTypeOK
  <2> QED BY <2>4, <2>5 DEF TypeOK
<1>2. CASE StreamCancelled
  <2>1. AttemptTypeOK'
    BY <1>2, <1>d DEF StreamCancelled, TypeOK, AttemptTypeOK
  <2>2. RouteTypeOK' /\ AnswerTypeOK'
    BY <1>2, ZenonT(60) DEF StreamCancelled, TypeOK, RouteTypeOK, AnswerTypeOK, EndErrors
  <2> QED BY <2>1, <2>2 DEF TypeOK
<1>3. CASE StreamForward
  <2>1. Head(chan[cur]) \in Kinds
    BY <1>3, <1>a, HeadOfSlot DEF StreamForward, TypeOK, AttemptTypeOK
  <2>2. out' \in Seq(Kinds \cup GatewayKinds)
    <3>1. Append(out, Head(chan[cur])) \in Seq(Kinds \cup GatewayKinds)
      BY <2>1 DEF TypeOK, AnswerTypeOK
    <3>2. out' \in {Append(out, "error"), Append(out, Head(chan[cur]))}
      BY <1>3 DEF StreamForward
    <3> QED BY <1>b, <3>1, <3>2
  <2>3. terminal' \in BOOLEAN /\ success' \in BOOLEAN /\ errClass' \in EndErrors
    BY <1>3, <1>c DEF StreamForward, EndErrors
  <2>4. closed' \in [Cands -> BOOLEAN] /\ stop' \in [Cands -> BOOLEAN] /\ pc' \in PcStates
    BY <1>3, <1>d DEF StreamForward, TypeOK, AttemptTypeOK
  <2>5. chan' \in [Cands -> SeqUpTo1(Kinds)]
    BY <1>3 DEF StreamForward, TypeOK, AttemptTypeOK, SeqUpTo1
  <2>6. AttemptTypeOK'
    BY <1>3, <2>4, <2>5 DEF StreamForward, TypeOK, AttemptTypeOK
  <2>7. RouteTypeOK' /\ AnswerTypeOK'
    BY <1>3, <2>2, <2>3 DEF StreamForward, TypeOK, RouteTypeOK, AnswerTypeOK
  <2> QED BY <2>6, <2>7 DEF TypeOK
<1>4. CASE StreamBroken
  <2>1. AttemptTypeOK'
    BY <1>4, <1>d DEF StreamBroken, TypeOK, AttemptTypeOK
  <2>2. RouteTypeOK' /\ AnswerTypeOK'
    BY <1>4, <1>b, ZenonT(60) DEF StreamBroken, TypeOK, RouteTypeOK, AnswerTypeOK, EndErrors
  <2> QED BY <2>1, <2>2 DEF TypeOK
<1>5. CASE StreamIdle
  <2>1. AttemptTypeOK'
    BY <1>5, <1>d DEF StreamIdle, TypeOK, AttemptTypeOK
  <2>2. RouteTypeOK' /\ AnswerTypeOK'
    BY <1>5, <1>b, ZenonT(60) DEF StreamIdle, TypeOK, RouteTypeOK, AnswerTypeOK, EndErrors
  <2> QED BY <2>1, <2>2 DEF TypeOK
<1>6. CASE FinishCommitted
  <2> DEFINE row == [cand |-> cur, success |-> success, class |-> errClass,
                     attempts |-> Len(attempts) + 1]
  <2>1. row \in UsageRows
    BY <1>6, <1>a DEF FinishCommitted, UsageRows, TypeOK, RouteTypeOK, AnswerTypeOK
  <2>2. usage' = Append(usage, row)
    BY <1>6 DEF FinishCommitted
  <2> HIDE DEF row
  <2>3. usage' \in Seq(UsageRows)
    BY <2>1, <2>2 DEF TypeOK, AnswerTypeOK
  <2>4. cancelled' \in [Cands -> BOOLEAN]
    BY <1>6, SetFlag DEF FinishCommitted, TypeOK, AttemptTypeOK
  <2>5. affinity' \in 0 .. N
    BY <1>6, <1>a DEF FinishCommitted, TypeOK, AnswerTypeOK
  <2>6. AttemptTypeOK'
    BY <1>6, <2>4 DEF FinishCommitted, TypeOK, AttemptTypeOK
  <2>7. RouteTypeOK' /\ AnswerTypeOK'
    BY <1>6, <2>3, <2>5 DEF FinishCommitted, TypeOK, RouteTypeOK, AnswerTypeOK
  <2> QED BY <2>6, <2>7 DEF TypeOK
<1> QED BY <1>1, <1>2, <1>3, <1>4, <1>5, <1>6 DEF Deliver

-----------------------------------------------------------------------------
(* The inductive invariant.                                                *)

(* Cancelling the current attempt leaves the others alone. *)
LEMMA CancelOnlyCurrent ==
  ASSUME TypeOK, cancelled' = [cancelled EXCEPT ![cur] = TRUE]
  PROVE  \A c \in Cands : c # cur => cancelled'[c] = cancelled[c]
BY DEF TypeOK, AttemptTypeOK

(* The environment, the deadline and DoStream keep the invariant. *)
LEMMA DialInv ==
  ASSUME IInv, Dial, UNCHANGED <<requestVars, routeVars, answerVars>>
  PROVE  (LoopInv /\ CommitInv /\ DeadlineInv)'
<1> USE DEF IInv, LoopInv, CommitInv, DeadlineInv, requestVars, routeVars, answerVars,
      clientVars, deadlineVars, releaseVars, bufferVars
<1>1. CASE ClientDisconnects BY <1>1 DEF ClientDisconnects
<1>2. CASE DeadlinePasses BY <1>2 DEF DeadlinePasses
<1>3. CASE TimerFires BY <1>3 DEF TimerFires
<1>4. CASE TimerExpires BY <1>4 DEF TimerExpires
<1>5. CASE TimerCancels
  <2>1. pc \in {"dialing", "dialed"} /\ timer' = "finished" /\ expired' = expired
    BY <1>5 DEF TimerCancels
  <2>2. \A c \in Cands : c # cur => cancelled'[c] = cancelled[c]
    BY <1>5, CancelOnlyCurrent DEF TimerCancels
  <2>3. \A c \in Cands : c > cur => c # cur
    BY DEF TypeOK, AttemptTypeOK, Cands
  <2>4. (LoopInv /\ CommitInv)'
    BY <1>5 DEF TimerCancels
  <2>5. UNCHANGED <<pc, cur>>
    BY <1>5 DEF TimerCancels
  <2>6. DeadlineInv'
    BY <1>5, <2>1, <2>2, <2>3, <2>5 DEF TimerCancels
  <2> QED BY <2>4, <2>6
<1>6. CASE DoStreamOpens BY <1>6 DEF DoStreamOpens
<1>7. CASE DoStreamFails BY <1>7 DEF DoStreamFails
<1>8. CASE StopOutputDeadline BY <1>8 DEF StopOutputDeadline
<1> QED BY <1>1, <1>2, <1>3, <1>4, <1>5, <1>6, <1>7, <1>8 DEF Dial, Timer

(* So do the reader goroutines and the precommit loop. *)
LEMMA AttemptingInv ==
  ASSUME IInv, Attempting
  PROVE  (LoopInv /\ CommitInv /\ DeadlineInv)'
<1> USE DEF IInv, LoopInv, CommitInv, DeadlineInv, requestVars, routeVars, answerVars
<1>1. CASE Dial BY <1>1, DialInv DEF Attempting
<1>2. CASE Collect
  <2>1. pc = "collect"
    BY <1>2 DEF Collect, CollectLimit, CollectDeadline, CollectIdle, CollectCancelled,
                CollectClosed, CollectStep
  <2>2. cur \in Cands /\ AttemptTypeOK
    BY <2>1 DEF TypeOK, RouteTypeOK
  <2> QED BY <1>2, <2>2, CollectEffect DEF Attempting
<1>3. CASE \E c \in Cands : Reader(c) BY <1>3, ReaderEffect DEF Attempting
<1> QED BY <1>1, <1>2, <1>3 DEF Attempting

(* An attempt that failed before the commit leaves the loop at the next    *)
(* candidate, or ends the request with a 400 or, for a client that left,   *)
(* without an answer.                                                      *)
LEMMA AttemptFailed ==
  ASSUME IInv,
         pc \in {"judge", "failed"},
         \/ pc' = "done" /\ cur' = cur /\ (status' = 400 \/ (status' = status /\ clientGone))
         \/ pc' = "next" /\ cur' = cur + 1 /\ status' = status,
         cancelled' = [cancelled EXCEPT ![cur] = TRUE],
         UNCHANGED <<called, committed, clientGone, timer, expired>>
  PROVE  (LoopInv /\ CommitInv /\ DeadlineInv)'
<1>1. cur \in 1 .. N /\ cur \in called /\ called \subseteq 1 .. cur
  BY DEF IInv, LoopInv, TypeOK, RouteTypeOK, Cands
<1>2. \A c \in Cands : c # cur => cancelled'[c] = cancelled[c]
  BY CancelOnlyCurrent DEF IInv
<1>3. committed = 0 /\ status = 0
  BY DEF IInv, CommitInv
<1>4. LoopInv'
  <2>1. CASE pc' = "done" /\ cur' = cur
    BY <2>1, <1>1 DEF LoopInv
  <2>2. CASE pc' = "next" /\ cur' = cur + 1
    BY <2>2, <1>1 DEF LoopInv
  <2> QED BY <2>1, <2>2
<1>5. CommitInv'
  BY <1>1, <1>3 DEF CommitInv
<1>6. DeadlineInv'
  BY <1>1, <1>2, AttemptAssumption DEF IInv, DeadlineInv, Cands
<1> QED BY <1>4, <1>5, <1>6

(* So does the failover loop. *)
LEMMA RouteInv ==
  ASSUME IInv, Route
  PROVE  (LoopInv /\ CommitInv /\ DeadlineInv)'
<1> USE AttemptAssumption DEF ReleaseAttempt, ClientLeft, IInv, LoopInv, CommitInv, DeadlineInv, requestVars, routeVars, answerVars,
      clientVars, deadlineVars, releaseVars, bufferVars, TypeOK, AttemptTypeOK, RouteTypeOK, Cands
<1>1. CASE SkipCandidate BY <1>1 DEF SkipCandidate
<1>2. CASE TryCandidate BY <1>2 DEF TryCandidate, BeginAttempt, CandidateStreamContext
<1>3. CASE DialFailed BY <1>3, AttemptFailed DEF DialFailed, DialClass
<1>4. CASE DialTimedOut BY <1>4 DEF DialTimedOut
<1>5. CASE DialSucceeded BY <1>5 DEF DialSucceeded, StartReader
<1>6. CASE PrecommitFailed BY <1>6, AttemptFailed DEF PrecommitFailed
<1>7. CASE AllFailed BY <1>7 DEF AllFailed
<1> QED BY <1>1, <1>2, <1>3, <1>4, <1>5, <1>6, <1>7 DEF Route

(* So does the delivery of a committed stream. *)
LEMMA DeliverInv ==
  ASSUME IInv, Deliver
  PROVE  (LoopInv /\ CommitInv /\ DeadlineInv)'
<1> USE AttemptAssumption DEF ReleaseAttempt, ErrorEvent, PinResponse, IInv, LoopInv, CommitInv, DeadlineInv, requestVars, routeVars, answerVars,
      clientVars, deadlineVars, releaseVars, bufferVars, EndStream, TypeOK, AttemptTypeOK, RouteTypeOK, Cands
<1>1. CASE CommitStream BY <1>1 DEF CommitStream
<1>2. CASE StreamCancelled BY <1>2 DEF StreamCancelled
<1>3. CASE StreamForward BY <1>3 DEF StreamForward
<1>4. CASE StreamBroken BY <1>4 DEF StreamBroken
<1>5. CASE StreamIdle BY <1>5 DEF StreamIdle
<1>6. CASE FinishCommitted BY <1>6 DEF FinishCommitted
<1> QED BY <1>1, <1>2, <1>3, <1>4, <1>5, <1>6 DEF Deliver
-----------------------------------------------------------------------------
(* Safety theorems.                                                        *)

(* The invariant holds initially. *)
LEMMA InitInv == Init => IInv
<1> SUFFICES ASSUME Init PROVE IInv
  OBVIOUS
<1>1. TypeOK
  BY InitType
<1>2. /\ pc = "next" /\ cur = 1 /\ timer = "off" /\ cancelled = [c \in Cands |-> FALSE]
      /\ called = {} /\ status = 0 /\ committed = 0
  BY Zenon DEF Init, AttemptInit
<1>3. LoopInv /\ CommitInv
  BY <1>2 DEF LoopInv, CommitInv
<1>4. DeadlineInv
  BY <1>2 DEF DeadlineInv
<1> QED BY <1>1, <1>3, <1>4 DEF IInv

(* Every step of the request, stuttering included, preserves it. *)
LEMMA NextInv == IInv /\ [Next]_vars => IInv'
<1> SUFFICES ASSUME IInv, [Next]_vars PROVE IInv'
  OBVIOUS
<1>1. CASE Route
  BY <1>1, RouteType, RouteInv DEF IInv
<1>2. CASE Deliver
  BY <1>2, DeliverType, DeliverInv DEF IInv
<1>3. CASE Attempting
  <2>1. TypeOK'
    BY <1>3, AttemptingType DEF IInv
  <2> QED BY <1>3, <2>1, AttemptingInv DEF IInv
<1>4. CASE UNCHANGED vars
  <2> USE <1>4 DEF vars, attemptVars, clientVars, deadlineVars, readerVars, releaseVars,
        bufferVars, requestVars, routeVars, answerVars, resultVars
  <2>1. AttemptTypeOK' /\ RouteTypeOK' /\ AnswerTypeOK'
    BY DEF IInv, TypeOK, AttemptTypeOK, RouteTypeOK, AnswerTypeOK
  <2>2. (LoopInv /\ CommitInv /\ DeadlineInv)'
    BY DEF IInv, LoopInv, CommitInv, DeadlineInv
  <2> QED BY <2>1, <2>2 DEF IInv, TypeOK
<1> QED BY <1>1, <1>2, <1>3, <1>4 DEF Next, Quiescent

(* The invariant of the streaming handler holds in every reachable state,  *)
(* for any number of candidates and any buffer limits: types, where the    *)
(* failover loop stands, what was answered, and when the deadline callback *)
(* of candidateStreamContext can still run.                                *)
THEOREM InvariantHolds == Spec => []IInv
<1>1. Init => IInv
  BY InitInv
<1>2. IInv /\ [Next]_vars => IInv'
  BY NextInv
<1> QED BY <1>1, <1>2, PTL DEF Spec

(* A stream that opened in time is never cancelled by its own first-output *)
(* deadline: stopTimer waits for a callback that already runs.             *)
THEOREM HealthyStreamsSurvive == Spec => []HealthyNotCancelled
<1>1. IInv => HealthyNotCancelled
  BY DEF IInv, DeadlineInv, HealthyNotCancelled
<1> QED BY <1>1, InvariantHolds, PTL

(* Every return of serveResponsesStream has answered the client, unless    *)
(* the client left.                                                        *)
THEOREM ClientIsAnswered == Spec => []AnsweredOrGone
<1>1. IInv => AnsweredOrGone
  BY DEF IInv, CommitInv, AnsweredOrGone
<1> QED BY <1>1, InvariantHolds, PTL
-----------------------------------------------------------------------------
(* The handler implements the failover promise.                            *)

(* A step that leaves the loop where it is, commits to nothing and does    *)
(* not end the request is invisible to the promise.                        *)
LEMMA InvisibleStep ==
  ASSUME IInv, UNCHANGED <<cur, called, committed>>, pc # "done", pc' # "done",
         pc = "next" <=> pc' = "next"
  PROVE  UNCHANGED Promise!vars
BY DEF Promise!vars, Considered, Verdict

(* A failed attempt either moves on, unseen, or ends an undecided request. *)
LEMMA AttemptFailedStep ==
  ASSUME IInv,
         pc \in {"judge", "failed"},
         \/ pc' = "done" /\ cur' = cur /\ (status' = 400 \/ (status' = status /\ clientGone))
         \/ pc' = "next" /\ cur' = cur + 1 /\ status' = status,
         UNCHANGED <<called, committed>>
  PROVE  [Promise!Next]_(Promise!vars)
<1>1. /\ cur \in 1 .. N /\ cur \in called /\ called \subseteq 1 .. cur
      /\ committed = 0 /\ status = 0
  BY DEF IInv, LoopInv, CommitInv, TypeOK, RouteTypeOK, Cands
<1>2. Considered = cur /\ Verdict = "open"
  BY <1>1 DEF Considered, Verdict
<1>3. CASE pc' = "done" /\ cur' = cur /\ status' = 400
  <2>1. Considered' = cur /\ Verdict' = "rejected"
    BY <1>1, <1>3 DEF Considered, Verdict
  <2> QED BY <1>1, <1>2, <2>1 DEF Promise!Next, Promise!Reject, Promise!Undecided
<1>4. CASE pc' = "done" /\ cur' = cur /\ status' = status
  <2>1. Considered' = cur /\ Verdict' = "abandoned"
    BY <1>1, <1>4 DEF Considered, Verdict
  <2> QED BY <1>1, <1>2, <2>1 DEF Promise!Next, Promise!Abandon, Promise!Undecided
<1>5. CASE pc' = "next" /\ cur' = cur + 1
  <2>1. Considered' = cur /\ Verdict' = "open"
    BY <1>1, <1>5 DEF Considered, Verdict
  <2> QED BY <1>2, <2>1 DEF Promise!vars
<1> QED BY <1>3, <1>4, <1>5

(* Every step of the failover loop is a step of the promise, or unseen. *)
LEMMA RouteStep ==
  ASSUME IInv, Route
  PROVE  [Promise!Next]_(Promise!vars)
<1> USE DEF ClientLeft, requestVars, routeVars, answerVars
<1>a. /\ cur \in 1 .. (N + 1) /\ called \subseteq 1 .. cur /\ N \in Nat
      /\ pc = "next" => cur \notin called /\ committed = 0
  BY AttemptAssumption DEF IInv, LoopInv, CommitInv, TypeOK, AttemptTypeOK
<1>b. pc = "next" => Considered = cur - 1 /\ Verdict = "open"
  BY <1>a DEF Considered, Verdict
<1>1. CASE SkipCandidate
  <2>1. /\ pc = "next" /\ pc' = "next" /\ cur <= N /\ cur' = cur + 1
        /\ UNCHANGED <<called, committed>>
    BY <1>1 DEF SkipCandidate
  <2>2. Considered' = cur /\ Verdict' = "open"
    BY <2>1, <1>a DEF Considered, Verdict
  <2> QED BY <1>a, <1>b, <2>1, <2>2 DEF Promise!Next, Promise!Skip, Promise!Undecided
<1>2. CASE TryCandidate
  <2>1. /\ pc = "next" /\ pc' = "dialing" /\ cur <= N /\ cur' = cur
        /\ called' = called \cup {cur} /\ committed' = committed
    BY <1>2 DEF TryCandidate, BeginAttempt
  <2>2. Considered' = cur /\ Verdict' = "open"
    BY <2>1, <1>a DEF Considered, Verdict
  <2>3. called' = called \cup {Considered + 1}
    BY <1>a, <1>b, <2>1
  <2> QED BY <1>a, <1>b, <2>1, <2>2, <2>3 DEF Promise!Next, Promise!Call, Promise!Undecided
<1>3. CASE DialFailed BY <1>3, AttemptFailedStep DEF DialFailed, DialClass
<1>4. CASE DialTimedOut BY <1>4, AttemptFailedStep DEF DialTimedOut
<1>5. CASE DialSucceeded BY <1>5, InvisibleStep DEF DialSucceeded, StartReader
<1>6. CASE PrecommitFailed BY <1>6, AttemptFailedStep DEF PrecommitFailed
<1>7. CASE AllFailed
  <2>1. /\ pc = "next" /\ pc' = "done" /\ cur = N + 1 /\ cur' = cur /\ status' \in {502, 503}
        /\ UNCHANGED <<called, committed>>
    BY <1>7 DEF AllFailed
  <2>2. Considered' = N /\ Considered = N /\ Verdict' = "exhausted"
    BY <2>1, <1>a DEF Considered, Verdict
  <2> QED BY <1>a, <1>b, <2>1, <2>2 DEF Promise!Next, Promise!Exhaust, Promise!Undecided
<1> QED BY <1>1, <1>2, <1>3, <1>4, <1>5, <1>6, <1>7 DEF Route

(* So is every step that delivers a committed stream. *)
LEMMA DeliverStep ==
  ASSUME IInv, Deliver
  PROVE  [Promise!Next]_(Promise!vars)
<1> USE DEF ErrorEvent, requestVars, routeVars, answerVars
<1>a. /\ cur \in 1 .. (N + 1)
      /\ pc \in {"commit", "stream", "finish"} => cur \in called /\ cur # 0
  BY AttemptAssumption DEF IInv, LoopInv, TypeOK, AttemptTypeOK
<1>1. CASE CommitStream
  <2>1. /\ pc = "commit" /\ pc' \in {"finish", "stream"} /\ committed = 0 /\ committed' = cur
        /\ UNCHANGED <<cur, called>>
    BY <1>1 DEF CommitStream, IInv, CommitInv
  <2>2. Considered = cur /\ Considered' = cur /\ Verdict = "open" /\ Verdict' = "open"
    BY <2>1, <1>a DEF Considered, Verdict
  <2> QED BY <1>a, <2>1, <2>2 DEF Promise!Next, Promise!Commit, Promise!Undecided
<1>2. CASE StreamCancelled BY <1>2, InvisibleStep DEF StreamCancelled, EndStream
<1>3. CASE StreamForward BY <1>3, InvisibleStep DEF StreamForward, EndStream
<1>4. CASE StreamBroken BY <1>4, InvisibleStep DEF StreamBroken, EndStream
<1>5. CASE StreamIdle BY <1>5, InvisibleStep DEF StreamIdle, EndStream
<1>6. CASE FinishCommitted
  <2>1. /\ pc = "finish" /\ pc' = "done" /\ committed = cur
        /\ UNCHANGED <<cur, called, committed>>
    BY <1>6 DEF FinishCommitted, IInv, CommitInv
  <2>2. Considered' = Considered /\ Verdict = "open" /\ Verdict' = "served"
    BY <2>1, <1>a DEF Considered, Verdict
  <2> QED BY <1>a, <2>1, <2>2 DEF Promise!Next, Promise!Serve
<1> QED BY <1>1, <1>2, <1>3, <1>4, <1>5, <1>6 DEF Deliver

(* The promise does not see the steps inside an attempt. *)
LEMMA AttemptingStep ==
  ASSUME IInv, Attempting
  PROVE  UNCHANGED Promise!vars
<1> USE DEF requestVars, routeVars, answerVars
<1>1. CASE Dial
  <2>1. pc # "done" /\ pc' # "done" /\ cur' = cur /\ (pc = "next" <=> pc' = "next")
    BY <1>1 DEF Dial, ClientDisconnects, DeadlinePasses, Timer, TimerFires, TimerExpires,
                TimerCancels, DoStreamOpens, DoStreamFails, StopOutputDeadline, IInv, DeadlineInv
  <2> QED BY <2>1, InvisibleStep DEF Attempting
<1>2. CASE Collect
  <2>1. pc = "collect"
    BY <1>2 DEF Collect, CollectLimit, CollectDeadline, CollectIdle, CollectCancelled,
                CollectClosed, CollectStep
  <2>2. cur \in Cands /\ AttemptTypeOK
    BY <2>1 DEF IInv, LoopInv, TypeOK, RouteTypeOK
  <2> QED BY <1>2, <2>2, CollectEffect, InvisibleStep DEF Attempting
<1>3. CASE \E c \in Cands : Reader(c)
  <2>1. UNCHANGED <<pc, cur, called, committed, status>>
    BY <1>3, ReaderEffect DEF Attempting
  <2> QED BY <2>1 DEF Promise!vars, Considered, Verdict
<1> QED BY <1>1, <1>2, <1>3 DEF Attempting

(* serveResponsesStream implements the failover promise for any number of  *)
(* candidates: configured order, each at most once, at most one commit,    *)
(* and no upstream call after a commit or an answer.                       *)
THEOREM KeepsFailoverPromise == Spec => FailoverSpec
<1>1. Init => Promise!Init
  <2> SUFFICES ASSUME Init PROVE Promise!Init
    OBVIOUS
  <2>1. pc = "next" /\ cur = 1 /\ called = {} /\ committed = 0
    BY Zenon DEF Init, AttemptInit
  <2> QED BY <2>1 DEF Promise!Init, Considered, Verdict
<1>2. IInv /\ [Next]_vars => [Promise!Next]_(Promise!vars)
  <2> SUFFICES ASSUME IInv, [Next]_vars PROVE [Promise!Next]_(Promise!vars)
    OBVIOUS
  <2>1. CASE Route BY <2>1, RouteStep
  <2>2. CASE Deliver BY <2>2, DeliverStep
  <2>3. CASE Attempting BY <2>3, AttemptingStep
  <2>4. CASE UNCHANGED vars
    <3>1. UNCHANGED <<pc, cur, called, committed, status>>
      BY <2>4 DEF vars, attemptVars, routeVars, answerVars
    <3> QED BY <3>1 DEF Promise!vars, Considered, Verdict
  <2> QED BY <2>1, <2>2, <2>3, <2>4 DEF Next, Quiescent
<1> QED BY <1>1, <1>2, InvariantHolds, PTL DEF Spec, FailoverSpec, Promise!Spec

(* The response status is written at most once, and nothing follows the    *)
(* end of the request: a commit, a 400 and the exhausted loop exclude each *)
(* other.                                                                  *)
THEOREM StatusIsFinal == Spec => AnsweredOnce
<1>1. IInv /\ [Next]_vars =>
        [(status # 0 => status' = status) /\ (pc = "done" => out' = out)]_vars
  <2> SUFFICES ASSUME IInv, Next
               PROVE  (status # 0 => status' = status) /\ (pc = "done" => out' = out)
    OBVIOUS
  <2> USE DEF requestVars, routeVars, answerVars
  <2>1. CASE Route
    <3>1. pc \in {"next", "judge", "failed"}
      BY <2>1 DEF Route, SkipCandidate, TryCandidate, DialFailed, DialClass, DialTimedOut, DialSucceeded,
                  PrecommitFailed, AllFailed
    <3> QED BY <3>1 DEF IInv, CommitInv
  <2>2. CASE Deliver
    <3>1. pc # "done"
      BY <2>2 DEF Deliver, CommitStream, StreamCancelled, StreamForward, StreamBroken,
                  StreamIdle, FinishCommitted
    <3>2. pc = "commit" \/ status' = status
      BY <2>2 DEF Deliver, CommitStream, StreamCancelled, StreamForward, StreamBroken,
                  StreamIdle, FinishCommitted
    <3> QED BY <3>1, <3>2 DEF IInv, CommitInv
  <2>3. CASE Attempting BY <2>3 DEF Attempting
  <2>4. CASE Quiescent BY <2>4 DEF Quiescent, vars
  <2> QED BY <2>1, <2>2, <2>3, <2>4 DEF Next
<1> QED BY <1>1, InvariantHolds, PTL DEF Spec, AnsweredOnce

-----------------------------------------------------------------------------
(* The strengthening of IInv.                                              *)

(* The log of attempt errors has one entry per candidate before cur, and   *)
(* no candidate of a refused provider is being tried.                      *)
LogInv ==
  /\ Logged(attempts, authFailed, called)
  /\ pc # "done" => Len(attempts) = cur - 1
  /\ pc \notin {"next", "done"} => Provider \notin authFailed

(* No event is lost, before the commit and after it. *)
PipeInv ==
  /\ CollectPipe
  /\ pc = "stream" => Forwarded \o chan[cur] \o held[cur] = read

(* What the client has been sent at each control point. *)
OutInv ==
  /\ committed = 0 => out = <<>> /\ ~success
  /\ pc = "stream" =>
       /\ out # <<>>
       /\ \A j \in DOMAIN out : ~EndsClientStream(out[j])
       /\ \E j \in DOMAIN out : out[j] = "delta"
       /\ ~success
  /\ pc = "finish" \/ (pc = "done" /\ committed # 0) =>
       /\ out # <<>>
       /\ \A j \in 1 .. (Len(out) - 1) : ~EndsClientStream(out[j])
       /\ errClass # "client" => EndsClientStream(out[Len(out)])
       /\ success <=> out[Len(out)] \in {"completed", "empty"}
  /\ NoEmptyAnswer

(* Nothing is recorded before the end. *)
LedgerInv ==
  /\ pc # "done" => usage = <<>> /\ affinity = 0
  /\ RecordsTellOutcome

OInv ==
  /\ IInv
  /\ LogInv /\ RoutingInv /\ HonestStatus
  /\ BufferInv /\ ReaderInv /\ BlameInv
  /\ PipeInv /\ OutInv /\ LedgerInv

-----------------------------------------------------------------------------
(* What the steps of the handler do.                                       *)

(* The candidate of a running attempt. *)
LEMMA AtCandidate ==
  ASSUME IInv, pc \notin {"next", "done"} \/ cur <= N
  PROVE  /\ cur \in Cands /\ cur \in Nat /\ cur # 0
         /\ pc \notin {"next", "done"} => cur \in called
BY AttemptAssumption DEF IInv, LoopInv, TypeOK, AttemptTypeOK, RouteTypeOK, Cands

(* An attempt that failed with the given class before a commit. *)
FailedAttempt(class) ==
  /\ pc \in {"judge", "failed"}
  /\ class \in Classes
  /\ attempts' = Append(attempts, Attempt(class, FALSE))
  /\ NoteAuth(class)
  /\ cancelled' = [cancelled EXCEPT ![cur] = TRUE]
  /\ closed' = closed \/ closed' = [closed EXCEPT ![cur] = TRUE]
  /\ stop' = stop
  /\ \/ pc' = "next" /\ cur' = cur + 1 /\ status' = status /\ usage' = usage
     \/ /\ pc' = "done" /\ cur' = cur
        /\ RecordFailure("client", attempts')
        /\ \/ status' = status
           \/ /\ status' = 400
              /\ IF pc = "judge" THEN dialErr = "client" /\ ~expired ELSE failErr = "client"
  /\ UNCHANGED <<dialErr, expired, clientGone, prod, held, chan, read, stErr, buf, bytes,
                 hoard, called, out, committed, terminal, success, errClass, affinity>>

LEMMA AttemptsFail ==
  ASSUME IInv, DialFailed \/ DialTimedOut \/ PrecommitFailed
  PROVE  \E class : FailedAttempt(class)
<1> USE DEF ReleaseAttempt, clientVars, deadlineVars, readerVars, bufferVars, requestVars, answerVars,
            resultVars
<1>1. CASE DialFailed
  <2> DEFINE class == IF expired THEN "timeout" ELSE dialErr
  <2>1. class \in Classes
    BY <1>1 DEF DialFailed, DialClass, IInv, TypeOK, AttemptTypeOK, Classes
  <2>2. FailedAttempt(class)
    BY <1>1, <2>1 DEF DialFailed, DialClass, FailedAttempt
  <2> QED BY <2>2
<1>2. CASE DialTimedOut
  <2>1. "timeout" \in Classes
    BY DEF Classes
  <2>2. FailedAttempt("timeout")
    BY <1>2, <2>1 DEF DialTimedOut, FailedAttempt, NoteAuth
  <2> QED BY <2>2
<1>3. CASE PrecommitFailed
  <2>1. failErr \in Classes
    BY <1>3 DEF PrecommitFailed, IInv, LoopInv, TypeOK, AttemptTypeOK
  <2>2. FailedAttempt(failErr)
    BY <1>3, <2>1 DEF PrecommitFailed, FailedAttempt
  <2> QED BY <2>2
<1> QED BY <1>1, <1>2, <1>3

(* The steps of a committed stream after the commit. *)
Forwarding == StreamCancelled \/ StreamForward \/ StreamBroken \/ StreamIdle

LEMMA ForwardingEffect ==
  ASSUME Forwarding
  PROVE  /\ pc = "stream" /\ pc' \in {"stream", "finish"}
         /\ pc' = "stream" => UNCHANGED <<closed, stop>>
         /\ pc' = "finish" => /\ closed' = [closed EXCEPT ![cur] = TRUE]
                              /\ stop' = [stop EXCEPT ![cur] = TRUE]
         /\ chan' = chan \/ chan' = [chan EXCEPT ![cur] = <<>>]
         /\ UNCHANGED <<cur, dialErr, clientGone, cancelled, prod, held, read, stErr, buf, bytes,
                        hoard, attempts, authFailed, called, status, committed, usage, affinity>>
BY DEF Forwarding, StreamCancelled, StreamForward, StreamBroken, StreamIdle, EndStream,
       clientVars, readerVars, bufferVars, requestVars, routeVars

LEMMA CommitEffect ==
  ASSUME CommitStream
  PROVE  /\ pc = "commit" /\ pc' \in {"stream", "finish"}
         /\ pc' = "stream" => UNCHANGED <<closed, stop>>
         /\ pc' = "finish" => /\ closed' = [closed EXCEPT ![cur] = TRUE]
                              /\ stop' = [stop EXCEPT ![cur] = TRUE]
         /\ status' = 200 /\ committed' = cur
         /\ UNCHANGED <<cur, dialErr, clientGone, cancelled, prod, held, chan, read, stErr, buf, bytes,
                        hoard, attempts, authFailed, called, usage, affinity>>
BY DEF CommitStream, clientVars, readerVars, bufferVars, requestVars, routeVars

LEMMA FinishEffect ==
  ASSUME FinishCommitted
  PROVE  /\ pc = "finish" /\ pc' = "done"
         /\ cancelled' = [cancelled EXCEPT ![cur] = TRUE]
         /\ UNCHANGED <<cur, dialErr, clientGone, closed, stop, prod, held, chan, read, stErr, buf, bytes,
                        hoard, attempts, authFailed, called, status, out, committed, terminal,
                        success, errClass>>
BY DEF FinishCommitted, ReleaseAttempt, clientVars, readerVars, bufferVars, requestVars, routeVars,
       resultVars

LEMMA SkipEffect ==
  ASSUME SkipCandidate
  PROVE  /\ pc = "next" /\ pc' = "next" /\ cur <= N /\ cur' = cur + 1
         /\ UNCHANGED <<dialErr, clientGone, cancelled, closed, stop, prod, held, chan, read, stErr,
                        buf, bytes, hoard, authFailed, called, status, out, committed, terminal,
                        success, errClass, usage, affinity>>
BY DEF SkipCandidate, clientVars, readerVars, releaseVars, bufferVars, requestVars, answerVars,
       resultVars

LEMMA TryEffect ==
  ASSUME TryCandidate
  PROVE  /\ pc = "next" /\ pc' = "dialing" /\ cur <= N /\ called' = called \cup {cur}
         /\ Provider \notin authFailed
         /\ read' = <<>>
         /\ UNCHANGED <<cur, clientGone, cancelled, closed, stop, prod, held, chan, stErr,
                        hoard, attempts, authFailed, status, out, committed, terminal,
                        success, errClass, usage, affinity>>
BY DEF TryCandidate, BeginAttempt, clientVars, releaseVars, requestVars, answerVars, resultVars

LEMMA StartEffect ==
  ASSUME DialSucceeded
  PROVE  /\ pc = "judge" /\ pc' = "collect" /\ StartReader
         /\ UNCHANGED <<cur, dialErr, clientGone, cancelled, closed, stop, held, chan, read, stErr,
                        buf, bytes, hoard, attempts, authFailed, called, status, out, committed,
                        terminal, success, errClass, usage, affinity>>
BY DEF DialSucceeded, StartReader, clientVars, releaseVars, bufferVars, requestVars, routeVars,
       answerVars, resultVars

LEMMA ExhaustEffect ==
  ASSUME AllFailed
  PROVE  /\ pc = "next" /\ pc' = "done" /\ cur = N + 1
         /\ UNCHANGED <<cur, dialErr, clientGone, cancelled, closed, stop, prod, held, chan, read,
                        stErr, buf, bytes, hoard, attempts, authFailed, called, out, committed,
                        terminal, success, errClass, affinity>>
BY DEF AllFailed, clientVars, readerVars, releaseVars, bufferVars, requestVars, routeVars, resultVars

(* The steps inside an attempt leave the handler's state alone. *)
LEMMA AttemptingEffect ==
  ASSUME IInv, Attempting
  PROVE  /\ UNCHANGED <<cur, hoard, attempts, authFailed, called, status, out, committed, terminal,
                        success, errClass, usage, affinity>>
         /\ clientGone => clientGone'
         /\ pc' = pc \/ (pc \notin {"next", "stream", "finish", "done"}
                         /\ pc' \notin {"next", "stream", "finish", "done"})
         /\ \A c \in Cands : cancelled[c] => cancelled'[c]
<1>1. UNCHANGED <<hoard, attempts, authFailed, called, status, out, committed, terminal,
                  success, errClass, usage, affinity>>
  BY DEF Attempting, requestVars, routeVars, answerVars, resultVars
<1>2. CASE Dial
  <2>1. \A c \in Cands : cancelled[c] => cancelled'[c]
    BY <1>2, DialEffect DEF IInv, TypeOK, AttemptTypeOK
  <2> QED BY <1>1, <1>2, <2>1, DialEffect
<1>3. CASE Collect
  <2>1. pc = "collect"
    BY <1>3 DEF Collect, CollectLimit, CollectDeadline, CollectIdle, CollectCancelled,
                CollectClosed, CollectStep
  <2>2. cur \in Cands /\ AttemptTypeOK
    BY <2>1, AtCandidate DEF IInv, TypeOK
  <2> QED BY <1>1, <1>3, <2>2, CollectEffect
<1>4. CASE \E c \in Cands : Reader(c) BY <1>1, <1>4, ReaderEffect
<1> QED BY <1>2, <1>3, <1>4 DEF Attempting

-----------------------------------------------------------------------------
(* Attempts are released.                                                  *)

LEMMA Released ==
  ASSUME OneLiveUpstream, called' = called, called \subseteq Cands, cur \in Nat,
         \A c \in Cands : cancelled[c] => cancelled'[c],
         \/ cur' = cur /\ (pc' \in {"next", "done"} => pc \in {"next", "done"})
         \/ cur' = cur + 1 /\ pc = "next"
         \/ cur \in Cands => cancelled'[cur]
  PROVE  OneLiveUpstream'
BY DEF OneLiveUpstream, Cands

LEMMA NextRelease ==
  ASSUME IInv, OneLiveUpstream, [Next]_vars
  PROVE  OneLiveUpstream'
<1>0. called \subseteq Cands /\ cur \in Nat /\ cancelled \in [Cands -> BOOLEAN]
  BY DEF IInv, TypeOK, RouteTypeOK, AttemptTypeOK
<1>1. ASSUME cancelled' = [cancelled EXCEPT ![cur] = TRUE], called' = called
      PROVE  OneLiveUpstream'
  <2>1. \A c \in Cands : cancelled[c] => cancelled'[c]
    BY <1>0, <1>1
  <2>2. cur \in Cands => cancelled'[cur]
    BY <1>0, <1>1
  <2> QED BY <1>0, <1>1, <2>1, <2>2, Released
<1>2. ASSUME cancelled' = cancelled, called' = called, cur' = cur,
             pc' \in {"next", "done"} => pc \in {"next", "done"}
      PROVE  OneLiveUpstream'
  BY <1>0, <1>2, Released
<1>3. CASE SkipCandidate
  BY <1>0, <1>3, SkipEffect, Released
<1>4. CASE TryCandidate
  BY <1>4, TryEffect DEF OneLiveUpstream
<1>5. CASE DialSucceeded
  BY <1>2, <1>5, StartEffect
<1>6. CASE DialFailed \/ DialTimedOut \/ PrecommitFailed
  BY <1>1, <1>6, AttemptsFail DEF FailedAttempt
<1>7. CASE AllFailed
  BY <1>2, <1>7, ExhaustEffect
<1>8. CASE CommitStream
  BY <1>2, <1>8, CommitEffect
<1>9. CASE Forwarding
  BY <1>2, <1>9, ForwardingEffect
<1>10. CASE FinishCommitted
  BY <1>1, <1>10, FinishEffect
<1>11. CASE Attempting
  <2>1. pc' \in {"next", "done"} => pc \in {"next", "done"}
    BY <1>11, AttemptingEffect
  <2> QED BY <1>0, <1>11, <2>1, AttemptingEffect, Released
<1>12. CASE UNCHANGED vars
  BY <1>2, <1>12 DEF vars, attemptVars, releaseVars, routeVars
<1> QED BY <1>3, <1>4, <1>5, <1>6, <1>7, <1>8, <1>9, <1>10, <1>11, <1>12
        DEF Next, Route, Deliver, Forwarding, Quiescent

-----------------------------------------------------------------------------
(* The log.                                                                *)

(* The fields of an attempt error of the candidate the loop is at. *)
LEMMA AttemptFields ==
  ASSUME cur \in Cands, NEW class \in Classes, NEW skipped \in BOOLEAN
  PROVE  /\ Attempt(class, skipped) \in AttemptErrors
         /\ Attempt(class, skipped).cand = cur
         /\ Attempt(class, skipped).class = class
         /\ Attempt(class, skipped).skipped = skipped
BY DEF Attempt, AttemptErrors

(* An entry for cur is added to the log. *)
LEMMA LogGrows ==
  ASSUME IInv, LogInv, AuthFailureSticks, pc # "done", cur \in Cands,
         NEW class \in Classes, NEW skipped \in BOOLEAN,
         attempts' = Append(attempts, Attempt(class, skipped)),
         called' = called, authFailed \subseteq authFailed',
         skipped <=> cur \notin called,
         class = "auth" => Provider \in authFailed',
         skipped \/ Provider \notin authFailed,
         \/ pc' = "next" /\ cur' = cur + 1
         \/ pc' = "done"
  PROVE  LogInv' /\ AuthFailureSticks' /\ Len(attempts') = cur
<1> DEFINE e == Attempt(class, skipped)
<1>1. e \in AttemptErrors /\ e.cand = cur /\ e.class = class /\ e.skipped = skipped
  BY AttemptFields
<1>2. /\ attempts \in Seq(AttemptErrors)
      /\ Logged(attempts, authFailed, called)
      /\ Sticks(attempts)
      /\ Len(attempts) = cur - 1
  BY DEF IInv, TypeOK, RouteTypeOK, LogInv, AuthFailureSticks, Sticks
<1>3. cur \in Nat /\ cur = Len(attempts) + 1
  BY <1>2 DEF Cands
<1>4. attempts' = Append(attempts, e)
  OBVIOUS
<1>5. e.class = "auth" => ProviderOf[e.cand] \in authFailed'
  BY <1>1 DEF Provider
<1>6. e.skipped \/ ProviderOf[e.cand] \notin authFailed
  BY <1>1 DEF Provider
<1> HIDE DEF e
<1>7. e.cand = Len(attempts) + 1 /\ (e.skipped <=> e.cand \notin called)
  BY <1>1, <1>3
<1>8. Logged(attempts', authFailed', called) /\ Sticks(attempts')
  BY <1>1, <1>2, <1>4, <1>5, <1>6, <1>7, LogAppend
<1>9. Len(attempts') = cur
  BY <1>1, <1>2, <1>3, <1>4
<1>10. pc' # "done" => Len(attempts') = cur' - 1
  BY <1>3, <1>9
<1> QED BY <1>8, <1>9, <1>10 DEF LogInv, AuthFailureSticks, Sticks

(* A failed attempt is logged. *)
LEMMA FailureLogged ==
  ASSUME IInv, LogInv, AuthFailureSticks, NEW class, FailedAttempt(class)
  PROVE  LogInv' /\ AuthFailureSticks' /\ Len(attempts') = cur
<1>1. cur \in Cands /\ cur \in called /\ Provider \notin authFailed
  BY AtCandidate DEF FailedAttempt, LogInv
<1>2. authFailed \subseteq authFailed' /\ (class = "auth" => Provider \in authFailed')
  BY DEF FailedAttempt, NoteAuth
<1> QED BY <1>1, <1>2, LogGrows DEF FailedAttempt

LEMMA NextLog ==
  ASSUME IInv, LogInv, AuthFailureSticks, [Next]_vars
  PROVE  LogInv' /\ AuthFailureSticks'
<1>1. ASSUME UNCHANGED <<cur, attempts, authFailed, called>>,
             pc' = pc \/ pc' = "done" \/ (pc \notin {"next", "done"} /\ pc' # "next")
      PROVE  LogInv' /\ AuthFailureSticks'
  BY <1>1 DEF LogInv, Logged, AuthFailureSticks, Provider
<1>2. CASE SkipCandidate
  <2>1. pc = "next" /\ cur \in Cands /\ cur \notin called
    BY <1>2, SkipEffect, AtCandidate DEF IInv, LoopInv
  <2>2. \/ Provider \in authFailed /\ attempts' = Append(attempts, Attempt("auth", TRUE))
        \/ attempts' = Append(attempts, Attempt("unknown", TRUE))
    BY <1>2 DEF SkipCandidate
  <2>3. "auth" \in Classes /\ "unknown" \in Classes
    BY DEF Classes
  <2> QED BY <1>2, <2>1, <2>2, <2>3, SkipEffect, LogGrows
<1>3. CASE TryCandidate
  <2>1. pc = "next" /\ UNCHANGED <<cur, attempts, authFailed>> /\ called' = called \cup {cur}
    BY <1>3, TryEffect
  <2>2. attempts \in Seq(AttemptErrors) /\ cur \in Nat /\ Len(attempts) = cur - 1
    BY <2>1 DEF IInv, TypeOK, RouteTypeOK, AttemptTypeOK, LogInv
  <2>3. cur = Len(attempts) + 1 /\ Logged(attempts, authFailed, called)
    BY <2>2 DEF LogInv
  <2>4. Logged(attempts, authFailed, called \cup {cur})
    BY <2>2, <2>3, LogCall
  <2> QED BY <1>3, <2>1, <2>2, <2>4, TryEffect DEF LogInv, Logged, AuthFailureSticks, Provider
<1>4. CASE DialFailed \/ DialTimedOut \/ PrecommitFailed
  BY <1>4, AttemptsFail, FailureLogged
<1>5. CASE DialSucceeded BY <1>1, <1>5, StartEffect
<1>6. CASE AllFailed BY <1>1, <1>6, ExhaustEffect
<1>7. CASE CommitStream BY <1>1, <1>7, CommitEffect
<1>8. CASE Forwarding BY <1>1, <1>8, ForwardingEffect
<1>9. CASE FinishCommitted BY <1>1, <1>9, FinishEffect
<1>10. CASE Attempting BY <1>1, <1>10, AttemptingEffect
<1>11. CASE UNCHANGED vars BY <1>1, <1>11 DEF vars, attemptVars, routeVars
<1> QED BY <1>2, <1>3, <1>4, <1>5, <1>6, <1>7, <1>8, <1>9, <1>10, <1>11
        DEF Next, Route, Deliver, Forwarding, Quiescent

-----------------------------------------------------------------------------
(* The buffer, the readers and the blame.                                  *)
LEMMA NextBuffer ==
  ASSUME IInv, BufferInv, [Next]_vars
  PROVE  BufferInv'
<1>1. CASE SkipCandidate BY <1>1, SkipEffect, BufferKept
<1>2. CASE TryCandidate BY <1>2, BufferBegins DEF TryCandidate
<1>3. CASE DialFailed \/ DialTimedOut \/ PrecommitFailed
  BY <1>3, AttemptsFail, BufferKept DEF FailedAttempt
<1>4. CASE DialSucceeded BY <1>4, StartEffect, BufferStarts
<1>5. CASE AllFailed BY <1>5, ExhaustEffect, BufferKept
<1>6. CASE CommitStream BY <1>6, CommitEffect, BufferKept
<1>7. CASE Forwarding BY <1>7, ForwardingEffect, BufferKept
<1>8. CASE FinishCommitted BY <1>8, FinishEffect, BufferKept
<1>9. CASE Attempting
  <2>1. pc = "collect" => cur \in Cands
    BY AtCandidate
  <2> QED BY <1>9, <2>1, BufferAttempting DEF Attempting, IInv, TypeOK
<1>10. CASE UNCHANGED vars BY <1>10 DEF vars, attemptVars, bufferVars, BufferInv
<1> QED BY <1>1, <1>2, <1>3, <1>4, <1>5, <1>6, <1>7, <1>8, <1>9, <1>10
        DEF Next, Route, Deliver, Forwarding, Quiescent

LEMMA NextReader ==
  ASSUME IInv, ReaderInv, [Next]_vars
  PROVE  ReaderInv'
<1>0. AttemptTypeOK
  BY DEF IInv, TypeOK
<1>1. ASSUME UNCHANGED <<prod, held, stErr>>, HandlerMoves,
             chan' = chan \/ chan' = [chan EXCEPT ![cur] = <<>>]
      PROVE  ReaderInv'
  BY <1>0, <1>1, ReaderMoves
<1>2. CASE SkipCandidate BY <1>1, <1>2, SkipEffect DEF HandlerMoves
<1>3. CASE TryCandidate BY <1>1, <1>3, TryEffect DEF HandlerMoves, Dialing
<1>4. CASE DialFailed \/ DialTimedOut \/ PrecommitFailed
  BY <1>1, <1>4, AttemptsFail DEF FailedAttempt, HandlerMoves, Dialing
<1>5. CASE DialSucceeded
  <2>1. cur \in Cands
    BY <1>5, StartEffect, AtCandidate
  <2> QED BY <1>0, <1>5, <2>1, StartEffect, ReaderStarts
<1>6. CASE AllFailed BY <1>1, <1>6, ExhaustEffect DEF HandlerMoves, Dialing
<1>7. CASE CommitStream BY <1>1, <1>7, CommitEffect DEF HandlerMoves, Dialing
<1>8. CASE Forwarding BY <1>1, <1>8, ForwardingEffect DEF HandlerMoves, Dialing
<1>9. CASE FinishCommitted BY <1>1, <1>9, FinishEffect DEF HandlerMoves, Dialing
<1>10. CASE Attempting
  <2>1. pc = "collect" => cur \in Cands
    BY AtCandidate
  <2> QED BY <1>0, <1>10, <2>1, ReaderAttempting DEF Attempting
<1>11. CASE UNCHANGED vars BY <1>1, <1>11 DEF vars, attemptVars, readerVars, HandlerMoves
<1> QED BY <1>2, <1>3, <1>4, <1>5, <1>6, <1>7, <1>8, <1>9, <1>10, <1>11
        DEF Next, Route, Deliver, Forwarding, Quiescent

LEMMA NextBlame ==
  ASSUME IInv, ReaderInv, BlameInv, [Next]_vars
  PROVE  BlameInv'
<1>0. AttemptTypeOK /\ cancelled \in [Cands -> BOOLEAN]
  BY DEF IInv, TypeOK, AttemptTypeOK
<1>1. cancelled' = cancelled \/ cancelled' = [cancelled EXCEPT ![cur] = TRUE] =>
        \A c \in Cands : cancelled[c] => cancelled'[c]
  BY <1>0
<1>2. CASE SkipCandidate BY <1>0, <1>1, <1>2, SkipEffect, BlameMoves
<1>3. CASE TryCandidate BY <1>0, <1>1, <1>3, TryEffect, BlameStays DEF Dialing
<1>4. CASE DialFailed \/ DialTimedOut \/ PrecommitFailed
  <2>1. PICK class : FailedAttempt(class)
    BY <1>4, AttemptsFail
  <2> QED BY <1>0, <1>1, <2>1, BlameMoves DEF FailedAttempt
<1>5. CASE DialSucceeded BY <1>0, <1>1, <1>5, StartEffect, BlameStays DEF Dialing
<1>6. CASE AllFailed BY <1>0, <1>1, <1>6, ExhaustEffect, BlameMoves
<1>7. ASSUME pc \in {"commit", "stream"}, pc' \in {"stream", "finish"},
             pc' = "stream" => UNCHANGED <<closed, stop>>,
             pc' = "finish" => /\ closed' = [closed EXCEPT ![cur] = TRUE]
                               /\ stop' = [stop EXCEPT ![cur] = TRUE],
             UNCHANGED <<cur, clientGone, cancelled, stErr>>
      PROVE  BlameInv'
  <2>1. CASE pc' = "stream" BY <1>0, <1>1, <1>7, <2>1, BlameStays
  <2>2. CASE pc' = "finish" BY <1>0, <1>1, <1>7, <2>2, BlameMoves
  <2> QED BY <1>7, <2>1, <2>2
<1>8. CASE CommitStream BY <1>7, <1>8, CommitEffect
<1>9. CASE Forwarding BY <1>7, <1>9, ForwardingEffect
<1>10. CASE FinishCommitted BY <1>0, <1>1, <1>10, FinishEffect, BlameMoves
<1>11. CASE Attempting
  <2>1. pc \in {"collect", "failed"} => cur \in Cands
    BY AtCandidate
  <2>2. pc = "collect" => ~cancelled[cur]
    BY DEF IInv, DeadlineInv
  <2> QED BY <1>0, <1>11, <2>1, <2>2, BlameAttempting DEF Attempting
<1>12. CASE UNCHANGED vars
  BY <1>12 DEF vars, attemptVars, clientVars, readerVars, releaseVars, bufferVars, BlameInv
<1> QED BY <1>2, <1>3, <1>4, <1>5, <1>6, <1>8, <1>9, <1>10, <1>11, <1>12
        DEF Next, Route, Deliver, Forwarding, Quiescent

-----------------------------------------------------------------------------
(* The status is honest.                                                   *)

(* No deadline expires after the request. *)
LEMMA DeadlineOver ==
  ASSUME IInv, pc = "done", Attempting
  PROVE  expired' = expired
<1>1. timer # "firing"
  BY DEF IInv, DeadlineInv
<1>2. CASE Dial
  BY <1>1, <1>2 DEF Dial, Timer, ClientDisconnects, DeadlinePasses, TimerFires, TimerExpires,
       TimerCancels, DoStreamOpens, DoStreamFails, StopOutputDeadline, deadlineVars
<1>3. CASE Collect
  BY <1>3 DEF Collect, CollectLimit, CollectDeadline, CollectIdle, CollectCancelled, CollectClosed,
       CollectStep
<1>4. ASSUME NEW c \in Cands, Reader(c) PROVE expired' = expired
  BY <1>4 DEF Reader, ReadEvent, StreamEnds, SendStep, ReaderStops, deadlineVars
<1> QED
  BY <1>2, <1>3, <1>4 DEF Attempting

LEMMA NextStatus ==
  ASSUME IInv, LogInv, ReaderInv, BlameInv, HonestStatus, [Next]_vars
  PROVE  HonestStatus'
<1>0. AttemptTypeOK /\ called \subseteq Cands /\ attempts \in Seq(AttemptErrors)
  BY DEF IInv, TypeOK, RouteTypeOK
<1>1. ASSUME status' \in {0, 200}
      PROVE  HonestStatus'
  BY <1>1 DEF HonestStatus
<1>2. pc \notin {"stream", "finish", "done"} => status = 0
  BY DEF IInv, CommitInv, TypeOK, AttemptTypeOK, PcStates
<1>3. pc \in {"stream", "finish"} => status = 200
  BY DEF IInv, CommitInv
<1>4. CASE SkipCandidate BY <1>1, <1>2, <1>4, SkipEffect
<1>5. CASE TryCandidate BY <1>1, <1>2, <1>5, TryEffect
<1>6. CASE DialSucceeded BY <1>1, <1>2, <1>6, StartEffect
<1>7. CASE DialFailed \/ DialTimedOut \/ PrecommitFailed
  <2>1. PICK class : FailedAttempt(class)
    BY <1>7, AttemptsFail
  <2>2. cur \in Cands
    BY <2>1, AtCandidate DEF FailedAttempt
  <2>3. CASE status' = status
    BY <1>1, <1>2, <2>1, <2>3 DEF FailedAttempt
  <2>4. CASE status' # status
    <3>1. /\ status' = 400 /\ UNCHANGED <<dialErr, expired, clientGone, stErr>>
          /\ pc \in {"judge", "failed"}
          /\ IF pc = "judge" THEN dialErr = "client" /\ ~expired ELSE failErr = "client"
      BY <2>1, <2>4 DEF FailedAttempt
    <3>2. clientGone \/ (dialErr = "client" /\ ~expired) \/ stErr[cur] = "client"
      BY <3>1 DEF BlameInv
    <3> QED BY <2>2, <3>1, <3>2 DEF HonestStatus
  <2> QED BY <2>3, <2>4
<1>8. CASE AllFailed
  <2>1. pc = "next" /\ cur = N + 1 /\ called' = called
    BY <1>8, ExhaustEffect
  <2>2. N \in Nat \ {0} /\ Len(attempts) = N /\ attempts # <<>>
    BY <1>0, <2>1, AttemptAssumption DEF LogInv
  <2>3. AllKeyMissing(attempts) <=> called = {}
    BY <1>0, <2>2, LogComplete DEF LogInv, AllKeyMissing
  <2>4. status' = IF AllKeyMissing(attempts) THEN 503 ELSE 502
    BY <1>8, <2>2 DEF AllFailed
  <2> QED BY <2>1, <2>3, <2>4 DEF HonestStatus
<1>9. CASE CommitStream BY <1>1, <1>9, CommitEffect
<1>10. CASE Forwarding BY <1>1, <1>3, <1>10, ForwardingEffect
<1>11. CASE FinishCommitted BY <1>1, <1>3, <1>11, FinishEffect
<1>12. CASE Attempting
  <2>1. status' = status /\ called' = called /\ (clientGone => clientGone')
    BY <1>12, AttemptingEffect
  <2>2. CASE pc # "done" BY <1>1, <1>2, <1>3, <2>1, <2>2
  <2>3. CASE pc = "done"
    <3>1. /\ dialErr' = dialErr
          /\ \A c \in Cands : stErr[c] = "client" => stErr'[c] = "client"
      BY <1>0, <1>12, <2>3, BlameStands DEF Attempting
    <3>2. expired' = expired
      BY <1>12, <2>3, DeadlineOver
    <3> QED BY <2>1, <3>1, <3>2 DEF HonestStatus
  <2> QED BY <2>2, <2>3
<1>13. CASE UNCHANGED vars
  BY <1>13 DEF vars, attemptVars, clientVars, deadlineVars, readerVars, routeVars, answerVars, HonestStatus
<1> QED BY <1>4, <1>5, <1>6, <1>7, <1>8, <1>9, <1>10, <1>11, <1>12, <1>13
        DEF Next, Route, Deliver, Forwarding, Quiescent

-----------------------------------------------------------------------------
(* No event is lost.                                                       *)

Sent == Kinds \cup GatewayKinds

(* What was forwarded is a sequence of events; when the stream is          *)
(* committed it is the buffer, and forwarding appends to it.               *)
LEMMA ForwardedType ==
  ASSUME IInv, out # <<>>
  PROVE  Forwarded \in Seq(Sent)
<1>1. out \in Seq(Sent)
  BY DEF IInv, TypeOK, AnswerTypeOK, Sent
<1>2. Tail(out) \in Seq(Sent)
  BY <1>1, HeadTailProperties
<1> QED BY <1>1, <1>2 DEF Forwarded

LEMMA CommitForwards ==
  ASSUME IInv, CommitStream
  PROVE  Forwarded' = buf
<1>1. buf \in Seq(Kinds)
  BY DEF IInv, TypeOK, AttemptTypeOK
<1>2. buf \in Seq(Sent) /\ "routing" \in Sent
  BY <1>1, SeqMonotonic DEF Sent, GatewayKinds
<1>3. hoard' = hoard /\ out' = (IF hoard THEN <<"routing">> ELSE <<>>) \o buf
  BY DEF CommitStream, requestVars
<1>4. CASE hoard
  <2>1. Tail(<<"routing">> \o buf) = buf
    BY <1>2, TailOfCons
  <2> QED BY <1>3, <1>4, <2>1 DEF Forwarded
<1>5. CASE ~hoard
  <2>1. <<>> \o buf = buf
    BY <1>1, ConcatEmptySeq
  <2> QED BY <1>3, <1>5, <2>1 DEF Forwarded
<1> QED BY <1>4, <1>5

LEMMA AppendForwards ==
  ASSUME IInv, out # <<>>, NEW k, out' = Append(out, k), hoard' = hoard
  PROVE  Forwarded' = Append(Forwarded, k)
<1>1. out \in Seq(Sent)
  BY DEF IInv, TypeOK, AnswerTypeOK, Sent
<1>2. Tail(Append(out, k)) = Append(Tail(out), k)
  BY <1>1, HeadTailAppend
<1> QED BY <1>2 DEF Forwarded

LEMMA NextPipe ==
  ASSUME IInv, ReaderInv, BlameInv, BufferInv, PipeInv, OutInv, [Next]_vars
  PROVE  PipeInv'
<1>0. AttemptTypeOK /\ Kinds \subseteq Sent
  BY DEF IInv, TypeOK, Sent
<1>1. ASSUME pc' \in {"next", "finish", "done"}
      PROVE  PipeInv'
  BY <1>1 DEF PipeInv, CollectPipe
<1>2. CASE SkipCandidate BY <1>1, <1>2, SkipEffect
<1>3. CASE TryCandidate BY <1>3, TryEffect DEF PipeInv, CollectPipe
<1>4. CASE DialFailed \/ DialTimedOut \/ PrecommitFailed
  BY <1>1, <1>4, AttemptsFail DEF FailedAttempt
<1>5. CASE DialSucceeded
  <2>1. pc = "judge" /\ cur \in Cands /\ StartReader /\ pc' = "collect"
    BY <1>5, StartEffect, AtCandidate
  <2> QED BY <1>0, <2>1, PipeStarts DEF PipeInv
<1>6. CASE AllFailed BY <1>1, <1>6, ExhaustEffect
<1>7. CASE CommitStream
  <2>1. CASE pc' = "stream"
    <3>1. buf \o chan[cur] \o held[cur] = read
      BY <1>7, CommitEffect DEF PipeInv, CollectPipe
    <3>2. Forwarded' \o chan'[cur'] \o held'[cur'] = read'
      BY <1>7, <3>1, CommitEffect, CommitForwards
    <3> QED BY <2>1, <3>2 DEF PipeInv, CollectPipe
  <2>2. CASE pc' = "finish" BY <1>1, <2>2
  <2> QED BY <1>7, <2>1, <2>2, CommitEffect
<1>8. CASE Forwarding
  <2>1. CASE pc' = "stream"
    <3> DEFINE k == Head(chan[cur])
    <3>1. /\ pc = "stream" /\ chan[cur] # <<>> /\ out' = Append(out, k)
          /\ chan' = [chan EXCEPT ![cur] = <<>>] /\ UNCHANGED <<cur, held, read, hoard>>
      BY <1>8, <2>1 DEF Forwarding, StreamCancelled, StreamForward, StreamBroken, StreamIdle,
                        EndStream, requestVars
    <3>2. cur \in Cands /\ out # <<>> /\ Forwarded \o chan[cur] \o held[cur] = read
      BY <3>1, AtCandidate DEF OutInv, PipeInv
    <3>3. Forwarded \in Seq(Sent)
      BY <3>2, ForwardedType
    <3>4. Append(Forwarded, k) \o chan'[cur] \o held'[cur] = read'
      BY <1>0, <3>1, <3>2, <3>3, ReceiveLosesNothing
    <3>5. Forwarded' = Append(Forwarded, k)
      BY <3>1, <3>2, AppendForwards
    <3>6. Forwarded' \o chan'[cur'] \o held'[cur'] = read'
      BY <3>1, <3>4, <3>5
    <3> QED BY <2>1, <3>6 DEF PipeInv, CollectPipe
  <2>2. CASE pc' = "finish" BY <1>1, <2>2
  <2> QED BY <1>8, <2>1, <2>2, ForwardingEffect
<1>9. CASE FinishCommitted BY <1>1, <1>9, FinishEffect
<1>10. CASE Attempting
  <2>1. pc \in {"dialing", "dialed", "judge", "collect", "commit"} => cur \in Cands
    BY AtCandidate
  <2>2. CollectPipe'
    BY <1>0, <1>10, <2>1, PipeAttempting DEF Attempting, PipeInv
  <2>3. UNCHANGED <<cur, out, hoard>> /\ (pc' = "stream" => pc = "stream")
    BY <1>10, AttemptingEffect
  <2>4. ASSUME pc = "stream"
        PROVE  Forwarded \o chan'[cur] \o held'[cur] = read'
    <3>1. /\ cur \in Cands /\ out # <<>> /\ ~stop[cur]
          /\ Forwarded \o chan[cur] \o held[cur] = read
      BY <2>4, AtCandidate DEF OutInv, PipeInv, BlameInv
    <3>2. Forwarded \in Seq(Sent)
      BY <3>1, ForwardedType
    <3>3. CASE Dial BY <3>1, <3>3, DialEffect
    <3>4. CASE Collect
      BY <2>4, <3>4 DEF Collect, CollectLimit, CollectDeadline, CollectIdle, CollectCancelled,
                        CollectClosed, CollectStep
    <3>5. ASSUME NEW d \in Cands, Reader(d)
          PROVE  Forwarded \o chan'[cur] \o held'[cur] = read'
      BY <1>0, <3>1, <3>2, <3>5, ReaderLosesNothing
    <3> QED BY <1>10, <3>3, <3>4, <3>5 DEF Attempting
  <2>5. Forwarded' = Forwarded
    BY <2>3 DEF Forwarded
  <2> QED BY <2>2, <2>3, <2>4, <2>5 DEF PipeInv
<1>11. CASE UNCHANGED vars
  <2>1. UNCHANGED <<pc, cur, chan, held, read, buf, hoard, out>>
    BY <1>11 DEF vars, attemptVars, readerVars, bufferVars, requestVars, answerVars
  <2>2. Forwarded' = Forwarded
    BY <2>1 DEF Forwarded
  <2> QED BY <2>1, <2>2 DEF PipeInv, CollectPipe
<1> QED BY <1>2, <1>3, <1>4, <1>5, <1>6, <1>7, <1>8, <1>9, <1>10, <1>11
        DEF Next, Route, Deliver, Forwarding, Quiescent

-----------------------------------------------------------------------------
(* What the client has been sent.                                          *)

(* One more event is sent to a client whose stream is not over. *)
LEMMA SendOne ==
  ASSUME IInv, OutInv, pc = "stream", NEW k, out' = Append(out, k)
  PROVE  /\ out' # <<>> /\ out'[Len(out')] = k
         /\ \A j \in 1 .. (Len(out') - 1) : ~EndsClientStream(out'[j])
         /\ ~EndsClientStream(k) => \A j \in DOMAIN out' : ~EndsClientStream(out'[j])
         /\ \E j \in DOMAIN out' : out'[j] = "delta"
<1>1. /\ out \in Seq(Sent)
      /\ \A j \in DOMAIN out : ~EndsClientStream(out[j])
      /\ \E j \in DOMAIN out : out[j] = "delta"
  BY DEF IInv, TypeOK, AnswerTypeOK, Sent, OutInv
<1>2. /\ Len(out') = Len(out) + 1 /\ out'[Len(out) + 1] = k
      /\ \A j \in 1 .. Len(out) : out'[j] = out[j]
      /\ DOMAIN out = 1 .. Len(out) /\ DOMAIN out' = 1 .. (Len(out) + 1)
      /\ Len(out) \in Nat
  BY <1>1, AppendProperties, LenProperties
<1>3. out' # <<>>
  BY <1>2
<1>4. \A j \in 1 .. Len(out) : ~EndsClientStream(out'[j])
  BY <1>1, <1>2
<1>5. \E j \in DOMAIN out' : out'[j] = "delta"
  BY <1>1, <1>2
<1>6. Len(out') - 1 = Len(out)
  BY <1>2
<1>7. ~EndsClientStream(k) => \A j \in DOMAIN out' : ~EndsClientStream(out'[j])
  BY <1>2, <1>4
<1> QED BY <1>2, <1>3, <1>4, <1>5, <1>6, <1>7

(* The events sent at the commit: all but the last say nothing. *)
LEMMA SendBuffer ==
  ASSUME IInv, BufferInv, CommitStream
  PROVE  LET last == buf[Len(buf)] IN
         /\ last \in {"delta", "completed", "incomplete"}
         /\ out' # <<>> /\ out'[Len(out')] = last
         /\ Len(out') \in DOMAIN out'
         /\ \A j \in 1 .. (Len(out') - 1) : out'[j] \in {"life", "bulk", "routing"}
         /\ DOMAIN out' = 1 .. Len(out') /\ Len(out') \in Nat
<1> DEFINE pre == IF hoard THEN <<"routing">> ELSE <<>>
<1>1. /\ buf \in Seq(Sent) /\ buf # <<>> /\ Len(buf) \in Nat /\ Len(buf) # 0
      /\ DOMAIN buf = 1 .. Len(buf)
  <2>1. buf \in Seq(Kinds) /\ buf # <<>>
    BY DEF IInv, TypeOK, AttemptTypeOK, CommitStream, BufferInv
  <2>2. buf \in Seq(Sent)
    BY <2>1, SeqMonotonic DEF Sent
  <2> QED BY <2>1, <2>2, LenProperties, EmptySeq
<1>2. /\ \A j \in 1 .. (Len(buf) - 1) : buf[j] \in Invisible
      /\ buf[Len(buf)] \in {"delta", "completed", "incomplete"}
  BY DEF CommitStream, BufferInv
<1>3. pre \in Seq(Sent) /\ Len(pre) \in {0, 1} /\ \A j \in 1 .. Len(pre) : pre[j] = "routing"
  <2>1. CASE hoard
    <3>1. pre = <<"routing">>
      BY <2>1
    <3> HIDE DEF pre
    <3> QED BY <3>1 DEF Sent, GatewayKinds
  <2>2. CASE ~hoard
    <3>1. pre = <<>>
      BY <2>2
    <3> HIDE DEF pre
    <3> QED BY <3>1
  <2> QED BY <2>1, <2>2
<1>4. out' = pre \o buf
  BY DEF CommitStream
<1> HIDE DEF pre
<1>5. /\ out' \in Seq(Sent)
      /\ Len(out') = Len(pre) + Len(buf)
      /\ \A j \in 1 .. Len(pre) + Len(buf) :
           out'[j] = IF j <= Len(pre) THEN pre[j] ELSE buf[j - Len(pre)]
  BY <1>1, <1>3, <1>4, ConcatProperties
<1>6. DOMAIN out' = 1 .. Len(out') /\ Len(out') \in Nat /\ Len(out') # 0
  BY <1>1, <1>3, <1>5, LenProperties
<1>7. out' # <<>> /\ Len(out') \in DOMAIN out'
  BY <1>6
<1>8. out'[Len(out')] = buf[Len(buf)]
  BY <1>1, <1>3, <1>5
<1>9. \A j \in 1 .. (Len(out') - 1) : out'[j] \in {"life", "bulk", "routing"}
  <2> SUFFICES ASSUME NEW j \in 1 .. (Len(out') - 1)
               PROVE  out'[j] \in {"life", "bulk", "routing"}
    OBVIOUS
  <2>1. CASE j <= Len(pre) BY <1>1, <1>3, <1>5, <2>1
  <2>2. CASE j > Len(pre)
    <3>1. j - Len(pre) \in 1 .. (Len(buf) - 1) /\ out'[j] = buf[j - Len(pre)]
      BY <1>1, <1>3, <1>5, <2>2
    <3> QED BY <1>2, <3>1 DEF Invisible
  <2> QED BY <1>3, <2>1, <2>2
<1> QED BY <1>2, <1>6, <1>7, <1>8, <1>9

(* Before a commit nothing was sent, and nothing succeeded. *)
LEMMA NothingSent ==
  ASSUME committed' = 0, out' = <<>>, ~success', pc' \notin {"stream", "finish"}
  PROVE  OutInv'
BY DEF OutInv, NoEmptyAnswer

LEMMA SentEarlier ==
  ASSUME OutInv, UNCHANGED <<out, success, committed, hoard, errClass>>,
         pc' = pc \/ (pc = "finish" /\ pc' = "done")
  PROVE  OutInv'
<1>1. NoEmptyAnswer'
  BY DEF OutInv, NoEmptyAnswer
<1>2. CASE pc' = pc BY <1>1, <1>2 DEF OutInv
<1>3. CASE pc = "finish" /\ pc' = "done" BY <1>1, <1>3 DEF OutInv
<1> QED BY <1>2, <1>3

LEMMA CommitOut ==
  ASSUME IInv, BufferInv, OutInv, CommitStream
  PROVE  OutInv'
<1> DEFINE last == buf[Len(buf)]
<1>0. pc = "commit" /\ committed' = cur /\ cur # 0 /\ ~success
  BY AtCandidate DEF CommitStream, OutInv, IInv, CommitInv
<1>1. /\ last \in {"delta", "completed", "incomplete"}
      /\ out' # <<>> /\ out'[Len(out')] = last /\ Len(out') \in DOMAIN out'
      /\ \A j \in 1 .. (Len(out') - 1) : out'[j] \in {"life", "bulk", "routing"}
      /\ DOMAIN out' = 1 .. Len(out') /\ Len(out') \in Nat
  BY SendBuffer
<1>2. /\ success' = (last \in {"completed", "empty"} \/ (last \notin TerminalKinds /\ success))
      /\ errClass' = IF last \in {"failed", "incomplete"} THEN last ELSE errClass
      /\ \/ last \in TerminalKinds /\ pc' = "finish"
         \/ last \notin TerminalKinds /\ pc' = "stream"
  BY DEF CommitStream, Observe
<1> HIDE DEF last
<1>3. \A j \in 1 .. (Len(out') - 1) : ~EndsClientStream(out'[j])
  BY <1>1 DEF EndsClientStream, TerminalKinds
<1>4. success' <=> last = "completed"
  BY <1>0, <1>1, <1>2
<1>5. NoEmptyAnswer'
  BY <1>1, <1>4 DEF NoEmptyAnswer
<1>6. CASE last = "delta"
  <2>1. pc' = "stream" /\ ~success'
    BY <1>2, <1>4, <1>6 DEF TerminalKinds
  <2>2. ~EndsClientStream(out'[Len(out')])
    BY <1>1, <1>6 DEF EndsClientStream, TerminalKinds
  <2>3. \A j \in DOMAIN out' : ~EndsClientStream(out'[j])
    BY <1>1, <1>3, <2>2
  <2> QED BY <1>0, <1>1, <1>5, <1>6, <2>1, <2>3 DEF OutInv
<1>7. CASE last # "delta"
  <2>1. pc' = "finish"
    BY <1>1, <1>2, <1>7 DEF TerminalKinds
  <2>2. EndsClientStream(out'[Len(out')])
    BY <1>1, <1>7 DEF EndsClientStream, TerminalKinds
  <2>3. success' <=> out'[Len(out')] \in {"completed", "empty"}
    BY <1>1, <1>4
  <2> QED BY <1>0, <1>1, <1>3, <1>5, <2>1, <2>2, <2>3 DEF OutInv
<1> QED BY <1>6, <1>7

(* The gateway ends a broken stream with its own error event. *)
LEMMA ErrorOut ==
  ASSUME IInv, OutInv, pc = "stream", pc' = "finish", ErrorEvent, ~success', committed' = committed
  PROVE  OutInv'
<1>1. /\ out' # <<>> /\ out'[Len(out')] = "error"
      /\ \A j \in 1 .. (Len(out') - 1) : ~EndsClientStream(out'[j])
  BY SendOne DEF ErrorEvent
<1>2. EndsClientStream(out'[Len(out')])
  BY <1>1 DEF EndsClientStream
<1>3. committed' # 0
  BY AtCandidate DEF IInv, CommitInv
<1> QED BY <1>1, <1>2, <1>3 DEF OutInv, NoEmptyAnswer

LEMMA ForwardingOut ==
  ASSUME IInv, OutInv, Forwarding
  PROVE  OutInv'
<1>0. /\ pc = "stream" /\ committed' = committed /\ committed # 0 /\ hoard' = hoard /\ ~success
      /\ out # <<>> /\ \A j \in DOMAIN out : ~EndsClientStream(out[j])
      /\ out \in Seq(Sent) /\ cur \in Cands
  BY ForwardingEffect, AtCandidate DEF IInv, CommitInv, OutInv, TypeOK, AnswerTypeOK, Sent
<1>1. CASE StreamCancelled
  <2>1. pc' = "finish" /\ out' = out /\ ~success' /\ errClass' = "client"
    BY <1>1 DEF StreamCancelled, EndStream
  <2>2. Len(out) \in DOMAIN out /\ \A j \in 1 .. (Len(out) - 1) : j \in DOMAIN out
    BY <1>0
  <2>3. out[Len(out)] \notin {"completed", "empty"}
    BY <1>0, <2>2 DEF EndsClientStream, TerminalKinds
  <2> QED BY <1>0, <2>1, <2>2, <2>3 DEF OutInv, NoEmptyAnswer
<1>2. CASE StreamForward
  <2> DEFINE k == Head(chan[cur])
  <2>1. CASE hoard /\ IsEmptyCompletion(k)
    BY <1>0, <1>2, <2>1, ErrorOut DEF StreamForward, EndStream
  <2>2. CASE ~(hoard /\ IsEmptyCompletion(k))
    <3>1. /\ Observe(k) /\ out' = Append(out, k)
          /\ \/ k \in TerminalKinds /\ pc' = "finish"
             \/ k \notin TerminalKinds /\ pc' = pc
      BY <1>2, <2>2 DEF StreamForward, EndStream
    <3>2. k \in Kinds
      BY <1>0, <1>2, HeadOfSlot DEF StreamForward, IInv, TypeOK, AttemptTypeOK
    <3>3. k # "error"
      BY <3>2, AttemptAssumption DEF AllKinds
    <3>4. hoard => k # "empty"
      BY <2>2 DEF IsEmptyCompletion
    <3> HIDE DEF k
    <3>5. EndsClientStream(k) <=> k \in TerminalKinds
      BY <3>3 DEF EndsClientStream
    <3>6. success' <=> k \in {"completed", "empty"}
      BY <1>0, <3>1 DEF Observe
    <3>7. /\ out' # <<>> /\ out'[Len(out')] = k
          /\ \A j \in 1 .. (Len(out') - 1) : ~EndsClientStream(out'[j])
          /\ ~EndsClientStream(k) => \A j \in DOMAIN out' : ~EndsClientStream(out'[j])
          /\ \E j \in DOMAIN out' : out'[j] = "delta"
      BY <1>0, <3>1, SendOne
    <3>8. NoEmptyAnswer'
      BY <1>0, <3>4, <3>7 DEF NoEmptyAnswer
    <3>9. CASE k \in TerminalKinds
      <4>1. EndsClientStream(out'[Len(out')]) /\ pc' = "finish"
        BY <3>1, <3>5, <3>7, <3>9
      <4>2. success' <=> out'[Len(out')] \in {"completed", "empty"}
        BY <3>6, <3>7
      <4> QED BY <1>0, <3>7, <3>8, <4>1, <4>2 DEF OutInv
    <3>10. CASE k \notin TerminalKinds
      <4>1. pc' = "stream" /\ ~success'
        BY <1>0, <3>1, <3>6, <3>10 DEF TerminalKinds
      <4> QED BY <1>0, <3>5, <3>7, <3>8, <3>10, <4>1 DEF OutInv
    <3> QED BY <3>9, <3>10
  <2> QED BY <2>1, <2>2
<1>3. CASE StreamBroken
  BY <1>0, <1>3, ErrorOut DEF StreamBroken, EndStream
<1>4. CASE StreamIdle
  BY <1>0, <1>4, ErrorOut DEF StreamIdle, EndStream
<1> QED BY <1>1, <1>2, <1>3, <1>4 DEF Forwarding

LEMMA NextOut ==
  ASSUME IInv, BufferInv, OutInv, [Next]_vars
  PROVE  OutInv'
<1>1. ASSUME pc \notin {"stream", "finish", "done"}, pc' \notin {"stream", "finish"},
             UNCHANGED <<out, success, committed>>
      PROVE  OutInv'
  <2>1. committed = 0
    BY <1>1 DEF IInv, CommitInv, TypeOK, AttemptTypeOK, PcStates
  <2>2. out = <<>> /\ ~success
    BY <2>1 DEF OutInv
  <2> QED BY <1>1, <2>1, <2>2, NothingSent
<1>2. CASE SkipCandidate BY <1>1, <1>2, SkipEffect
<1>3. CASE TryCandidate BY <1>1, <1>3, TryEffect
<1>4. CASE DialFailed \/ DialTimedOut \/ PrecommitFailed
  BY <1>1, <1>4, AttemptsFail DEF FailedAttempt
<1>5. CASE DialSucceeded BY <1>1, <1>5, StartEffect
<1>6. CASE AllFailed BY <1>1, <1>6, ExhaustEffect
<1>7. CASE CommitStream BY <1>7, CommitOut
<1>8. CASE Forwarding BY <1>8, ForwardingOut
<1>9. CASE FinishCommitted BY <1>9, FinishEffect, SentEarlier
<1>10. CASE Attempting
  <2>1. /\ UNCHANGED <<out, success, committed, hoard, errClass>>
        /\ \/ pc' = pc
           \/ /\ pc \notin {"stream", "finish", "done"}
              /\ pc' \notin {"stream", "finish"}
    BY <1>10, AttemptingEffect
  <2> QED BY <1>1, <2>1, SentEarlier
<1>11. CASE UNCHANGED vars
  BY <1>11, SentEarlier DEF vars, attemptVars, requestVars, answerVars, resultVars
<1> QED BY <1>2, <1>3, <1>4, <1>5, <1>6, <1>7, <1>8, <1>9, <1>10, <1>11
        DEF Next, Route, Deliver, Forwarding, Quiescent

-----------------------------------------------------------------------------
(* The records.                                                            *)

(* The only usage record of a request. *)
LEMMA OnlyRow ==
  ASSUME usage = <<>>, NEW cand, NEW ok \in BOOLEAN, NEW class, NEW count,
         usage' = Append(usage, [cand |-> cand, success |-> ok, class |-> class,
                                 attempts |-> count])
  PROVE  /\ Len(usage') = 1 /\ usage'[1].cand = cand
         /\ usage'[1].success = ok /\ usage'[1].attempts = count
<1> DEFINE row == [cand |-> cand, success |-> ok, class |-> class, attempts |-> count]
<1>1. row.cand = cand /\ row.success = ok /\ row.attempts = count
  OBVIOUS
<1>2. usage' = Append(usage, row)
  OBVIOUS
<1> HIDE DEF row
<1>3. usage' = <<row>>
  BY <1>2
<1>4. Len(<<row>>) = 1 /\ <<row>>[1] = row
  OBVIOUS
<1>5. Len(usage') = 1 /\ usage'[1] = row
  BY <1>3, <1>4
<1> QED BY <1>1, <1>5

(* A request that ends without a commit. *)
LEMMA FailureRow ==
  ASSUME usage = <<>>, affinity = 0, NEW class, NEW rows, RecordFailure(class, rows),
         pc' = "done", affinity' = affinity, committed' = 0, out' = <<>>,
         Len(rows) = Considered'
  PROVE  LedgerInv'
<1>1. /\ Len(usage') = 1 /\ usage'[1].cand = 0
      /\ usage'[1].success = FALSE /\ usage'[1].attempts = Len(rows)
  BY OnlyRow DEF RecordFailure
<1>2. affinity' = 0
  OBVIOUS
<1> QED BY <1>1, <1>2 DEF LedgerInv, RecordsTellOutcome

LEMMA NextLedger ==
  ASSUME IInv, LogInv, AuthFailureSticks, OutInv, LedgerInv, [Next]_vars
  PROVE  LedgerInv'
<1>0. pc # "done" => usage = <<>> /\ affinity = 0
  BY DEF LedgerInv
<1>1. ASSUME pc # "done", pc' # "done", UNCHANGED <<usage, affinity>>
      PROVE  LedgerInv'
  BY <1>0, <1>1 DEF LedgerInv, RecordsTellOutcome
<1>2. pc \notin {"stream", "finish", "done"} => committed = 0 /\ out = <<>>
  BY DEF IInv, CommitInv, TypeOK, AttemptTypeOK, PcStates, OutInv
<1>3. CASE SkipCandidate BY <1>1, <1>3, SkipEffect
<1>4. CASE TryCandidate BY <1>1, <1>4, TryEffect
<1>5. CASE DialFailed \/ DialTimedOut \/ PrecommitFailed
  <2>1. PICK class : FailedAttempt(class)
    BY <1>5, AttemptsFail
  <2>2. pc # "done" /\ committed' = 0 /\ out' = <<>> /\ affinity' = affinity /\ called' = called
    BY <1>2, <2>1 DEF FailedAttempt
  <2>3. CASE pc' = "next"
    BY <1>1, <2>1, <2>2, <2>3 DEF FailedAttempt
  <2>4. CASE pc' = "done"
    <3>1. RecordFailure("client", attempts') /\ cur' = cur
      BY <2>1, <2>4 DEF FailedAttempt
    <3>2. Len(attempts') = cur /\ cur \in called
      BY <2>1, FailureLogged, AtCandidate DEF FailedAttempt
    <3>3. Len(attempts') = Considered'
      BY <2>2, <2>4, <3>1, <3>2 DEF Considered
    <3> QED BY <1>0, <2>2, <2>4, <3>1, <3>3, FailureRow
  <2> QED BY <2>1, <2>3, <2>4 DEF FailedAttempt
<1>6. CASE DialSucceeded BY <1>1, <1>6, StartEffect
<1>7. CASE AllFailed
  <2>1. /\ pc = "next" /\ pc' = "done" /\ UNCHANGED <<cur, called, affinity>>
        /\ committed' = 0 /\ out' = <<>> /\ RecordFailure("upstream", attempts)
    BY <1>2, <1>7, ExhaustEffect DEF AllFailed
  <2>2. cur \notin called /\ Len(attempts) = cur - 1
    BY <2>1 DEF IInv, LoopInv, LogInv
  <2>3. Len(attempts) = Considered'
    BY <2>1, <2>2 DEF Considered
  <2> QED BY <1>0, <2>1, <2>3, FailureRow
<1>8. CASE CommitStream BY <1>1, <1>8, CommitEffect
<1>9. CASE Forwarding BY <1>1, <1>9, ForwardingEffect
<1>10. CASE FinishCommitted
  <2>1. /\ pc = "finish" /\ pc' = "done" /\ UNCHANGED <<cur, called, out, committed, success>>
        /\ usage' = Append(usage, [cand |-> cur, success |-> success, class |-> errClass,
                                   attempts |-> Len(attempts) + 1])
    BY <1>10, FinishEffect DEF FinishCommitted
  <2>2. usage = <<>> /\ affinity = 0 /\ success \in BOOLEAN
    BY <1>0, <2>1 DEF IInv, TypeOK, AnswerTypeOK
  <2>3. /\ Len(usage') = 1 /\ usage'[1].cand = cur
        /\ usage'[1].success = success /\ usage'[1].attempts = Len(attempts) + 1
    BY <2>1, <2>2, OnlyRow
  <2>4. committed = cur /\ cur \in called /\ cur \in Nat /\ Len(attempts) = cur - 1
    BY <2>1, AtCandidate DEF IInv, CommitInv, LogInv
  <2>5. usage'[1].attempts = Considered'
    BY <2>1, <2>3, <2>4 DEF Considered
  <2>6. affinity' # 0 => affinity' = cur /\ success
    BY <1>10, <2>2 DEF FinishCommitted, PinResponse
  <2>7. success <=> out # <<>> /\ out[Len(out)] \in {"completed", "empty"}
    BY <2>1 DEF OutInv
  <2> QED BY <2>1, <2>3, <2>4, <2>5, <2>6, <2>7 DEF LedgerInv, RecordsTellOutcome
<1>11. CASE Attempting
  <2>1. /\ UNCHANGED <<cur, called, out, committed, usage, affinity>>
        /\ pc' = pc \/ (pc # "done" /\ pc' # "done")
    BY <1>11, AttemptingEffect
  <2> QED BY <1>1, <2>1 DEF LedgerInv, RecordsTellOutcome, Considered
<1>12. CASE UNCHANGED vars
  BY <1>12 DEF vars, attemptVars, routeVars, answerVars, LedgerInv, RecordsTellOutcome, Considered
<1> QED BY <1>3, <1>4, <1>5, <1>6, <1>7, <1>8, <1>9, <1>10, <1>11, <1>12
        DEF Next, Route, Deliver, Forwarding, Quiescent

-----------------------------------------------------------------------------
(* The invariant, and what it says.                                        *)

LEMMA InitOutcome == Init => OInv
<1> SUFFICES ASSUME Init PROVE OInv
  OBVIOUS
<1>1. IInv /\ BufferInv /\ ReaderInv /\ BlameInv
  BY InitInv, BufferInit, ReaderInit DEF Init
<1>2. pc = "next" /\ cur = 1 /\ called = {} /\ committed = 0 /\ status = 0 /\ affinity = 0
  BY Zenon DEF Init, AttemptInit
<1>3. attempts = <<>> /\ out = <<>> /\ usage = <<>> /\ success = FALSE
  BY Zenon DEF Init
<1>4. LogInv /\ AuthFailureSticks
  BY <1>2, <1>3 DEF LogInv, Logged, AuthFailureSticks
<1>5. OneLiveUpstream /\ AnsweredOrGone /\ HonestStatus
  BY <1>2 DEF OneLiveUpstream, AnsweredOrGone, HonestStatus
<1>6. PipeInv
  BY <1>2 DEF PipeInv, CollectPipe
<1>7. ~success
  BY <1>3
<1>8. OutInv
  BY <1>2, <1>3, <1>7 DEF OutInv, NoEmptyAnswer
<1>9. LedgerInv
  BY <1>2, <1>3 DEF LedgerInv, RecordsTellOutcome
<1> QED BY <1>1, <1>4, <1>5, <1>6, <1>8, <1>9 DEF OInv, RoutingInv

LEMMA NextOutcome == OInv /\ [Next]_vars => OInv'
<1> SUFFICES ASSUME OInv, [Next]_vars PROVE OInv'
  OBVIOUS
<1>0. /\ IInv /\ LogInv /\ AuthFailureSticks /\ OneLiveUpstream /\ HonestStatus
      /\ BufferInv /\ ReaderInv /\ BlameInv /\ PipeInv /\ OutInv /\ LedgerInv
  BY DEF OInv, RoutingInv
<1>1. IInv'
  BY <1>0, NextInv
<1>2. LogInv' /\ AuthFailureSticks' /\ OneLiveUpstream'
  BY <1>0, NextLog, NextRelease
<1>3. AnsweredOrGone'
  BY <1>1 DEF IInv, CommitInv, AnsweredOrGone
<1>4. BufferInv' /\ ReaderInv' /\ BlameInv'
  BY <1>0, NextBuffer, NextReader, NextBlame
<1>5. HonestStatus'
  BY <1>0, NextStatus
<1>6. PipeInv' /\ OutInv' /\ LedgerInv'
  BY <1>0, NextPipe, NextOut, NextLedger
<1> QED BY <1>1, <1>2, <1>3, <1>4, <1>5, <1>6 DEF OInv, RoutingInv

(* The inductive invariant of a streaming Responses request, with its log, *)
(* its pipe of events, what the client was sent and what was recorded.     *)
THEOREM OutcomeInvariantHolds == Spec => []OInv
BY InitOutcome, NextOutcome, PTL DEF Spec

(* serveResponsesStream never calls a provider again that answered 401 or  *)
(* 403, cancels every attempt before the next one, and returns without an  *)
(* answer only when the client left.                                       *)
THEOREM RoutingIsSound == Spec => []RoutingInv
<1>1. OInv => RoutingInv
  BY DEF OInv
<1> QED BY <1>1, OutcomeInvariantHolds, PTL

(* 503 is written only when no upstream was called and 502 only when one   *)
(* was; a 400 of the failover loop is the client's fault, or an upstream's *)
(* or the preparation's verdict on the request, never a gateway timeout's. *)
THEOREM StatusIsHonest == Spec => []HonestStatus
<1>1. OInv => HonestStatus
  BY DEF OInv
<1> QED BY <1>1, OutcomeInvariantHolds, PTL

(* The precommit buffer of precommitAndStreamOpenAI keeps within its       *)
(* limits, whatever the upstream sends and however large they are.         *)
THEOREM BufferStaysBounded == Spec => []BufferBounded
<1>1. OInv => BufferBounded
  BY DEF OInv, BufferInv, BufferBounded
<1> QED BY <1>1, OutcomeInvariantHolds, PTL

(* Up to the end of a stream no event is lost, duplicated or reordered on  *)
(* its way from the upstream over the reader goroutine to the client.      *)
THEOREM EventsAreKept == Spec => []NoEventLost
<1>1. OInv => NoEventLost
  BY DEF OInv, PipeInv, CollectPipe, NoEventLost
<1> QED BY <1>1, OutcomeInvariantHolds, PTL

(* A committed stream ends with exactly one terminal event, the upstream's *)
(* or the gateway's own, unless the client left.                           *)
THEOREM StreamsEndOnce == Spec => []TerminatedOnce
<1>1. OInv => TerminatedOnce
  BY DEF OInv, OutInv, TerminatedOnce
<1> QED BY <1>1, OutcomeInvariantHolds, PTL

(* A request that counts as a success delivered output, and on Hoard it    *)
(* did not end in an empty completion.                                     *)
THEOREM SuccessDeliversOutput == Spec => []NoEmptyAnswer
<1>1. OInv => NoEmptyAnswer
  BY DEF OInv, OutInv
<1> QED BY <1>1, OutcomeInvariantHolds, PTL

(* One usage record per request, which names the candidate that served it, *)
(* counts the candidates considered and tells the outcome the client saw;  *)
(* affinity is pinned only to a candidate that completed its response.     *)
THEOREM RecordsAreTrue == Spec => []RecordsTellOutcome
<1>1. OInv => RecordsTellOutcome
  BY DEF OInv, LedgerInv
<1> QED BY <1>1, OutcomeInvariantHolds, PTL
=============================================================================
