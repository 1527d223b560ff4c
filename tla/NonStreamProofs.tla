--------------------------- MODULE NonStreamProofs ---------------------------
(***************************************************************************)
(* Proofs about the non-streaming loops, for any number of candidates and  *)
(* providers: what they route, record and answer, and that they keep the   *)
(* failover promise.                                                       *)
(***************************************************************************)
EXTENDS NonStream, TLAPS

-----------------------------------------------------------------------------
(* The inductive invariant. *)

(* Where the loop is: no candidate after cur was called, and cur was if    *)
(* and only if its call is under way; a provider that refused its key is   *)
(* not being called.                                                       *)
LoopInv ==
  /\ \A c \in called : c <= cur
  /\ pc = "next" => cur \notin called
  /\ pc \in {"calling", "returned"} => cur \in called /\ Provider \notin authFailed
  /\ pc = "returned" => reply \in Results \cup Errors
  /\ reply = "canceled" => clientGone

(* A log of attempt errors when the loop is at candidate k, the providers  *)
(* in refused refused their key and the candidates in tried were called:   *)
(* entry j is about candidate j, the last ones about k; it was skipped if  *)
(* and only if its candidate was not called; a refusal is remembered.      *)
Entries(rows, k, refused, tried) ==
  \A j \in DOMAIN rows :
    /\ rows[j].cand = IF j < k THEN j ELSE k
    /\ rows[j].skipped <=> rows[j].cand \notin tried
    /\ rows[j].class = "auth" => ProviderOf[rows[j].cand] \in refused

(* The log has one entry per candidate before cur; if the last entry is a  *)
(* timeout then that is what DoNonStream returned last.                    *)
LogInv ==
  /\ Entries(attempts, cur, authFailed, called)
  /\ pc # "done" => Len(attempts) = cur - 1
  /\ pc = "next" /\ attempts # <<>> /\ attempts[Len(attempts)].class = "timeout" =>
       reply = "timeout" /\ called # {}

(* AuthFailureSticks of any log. *)
Sticks(rows) ==
  \A j, m \in DOMAIN rows :
    /\ j < m
    /\ rows[j].class = "auth"
    /\ rows[j].cand # rows[m].cand
    /\ ProviderOf[rows[j].cand] = ProviderOf[rows[m].cand]
    => rows[m].skipped

(* No candidate before k of a provider that refused its key, in the log,   *)
(* shares k's provider.                                                    *)
Fresh(rows, k) ==
  \A j \in DOMAIN rows :
    rows[j].class = "auth" /\ rows[j].cand # k =>
      ProviderOf[rows[j].cand] # ProviderOf[k]

(* Nothing is answered or recorded before the end, and the end is one of   *)
(* an answer, a rejection and the exhaustion of the candidates.            *)
AnswerInv ==
  /\ pc # "done" => status = 0 /\ served = 0 /\ kept = 0 /\ usage = <<>>
  /\ pc = "done" => /\ status # 0
                    /\ status = 200 <=> served # 0
                    /\ served \in {0, cur}
                    /\ cur = N + 1 \/ served # 0 \/ status = 400

IInv ==
  /\ RoutingInv
  /\ LoopInv
  /\ LogInv
  /\ AnswerInv
  /\ RecordsAgree
  /\ MessagesTimeoutFailsOver

-----------------------------------------------------------------------------
(* What appending an entry to a sequence does to it. *)
LEMMA AppendEntry ==
  ASSUME NEW S, NEW s \in Seq(S), NEW e \in S
  PROVE  /\ Append(s, e) \in Seq(S)
         /\ Append(s, e) # <<>>
         /\ Len(s) \in Nat
         /\ Len(Append(s, e)) = Len(s) + 1
         /\ DOMAIN s = 1 .. Len(s)
         /\ DOMAIN Append(s, e) = 1 .. (Len(s) + 1)
         /\ \A j \in 1 .. Len(s) : Append(s, e)[j] = s[j] /\ s[j] \in S
         /\ Append(s, e)[Len(s) + 1] = e
  OBVIOUS

(* The fields of an attempt error of the candidate the loop is at. *)
LEMMA AttemptFields ==
  ASSUME cur \in Cands, NEW class \in Classes, NEW skipped \in BOOLEAN
  PROVE  /\ Attempt(class, skipped) \in AttemptErrors
         /\ Attempt(class, skipped).cand = cur
         /\ Attempt(class, skipped).class = class
         /\ Attempt(class, skipped).skipped = skipped
  BY DEF Attempt, AttemptErrors

(* A provider is one of the configured ones. *)
LEMMA ProviderType == cur \in Cands => Provider \in Providers
  BY NonStreamAssumption DEF Provider

(* NormalizeError maps an error to a class; only a client error or a       *)
(* cancelled context becomes "client".                                     *)
LEMMA NormalizedError ==
  ASSUME NEW err \in Errors
  PROVE  /\ NormalizeError(err) \in Classes
         /\ NormalizeError(err) = "client" => err \in {"client", "canceled"}
         /\ NormalizeError(err) = "timeout" => err = "timeout"
         /\ NormalizeError(err) # "client" => NormalizeError(err) = err
  BY DEF NormalizeError, Errors, Classes

(* A usage row is appended with the fields it was given. *)
LEMMA UsageRow ==
  ASSUME usage \in Seq(UsageRows),
         NEW cand \in 0 .. N, NEW success \in BOOLEAN, NEW count \in Nat,
         RecordUsage(cand, success, count)
  PROVE  usage' \in Seq(UsageRows)
  <1>1. [cand |-> cand, success |-> success, attempts |-> count] \in UsageRows
    BY DEF UsageRows
  <1> QED BY <1>1 DEF RecordUsage

(* Fail ends the request and leaves the loop where it is. *)
LEMMA FailType ==
  ASSUME TypeOK, NEW code \in {400, 502, 503, 504}, NEW rows \in Seq(AttemptErrors),
         Fail(code, rows)
  PROVE  /\ pc' = "done" /\ pc' \in {"next", "calling", "returned", "done"}
         /\ cur' \in 1 .. (N + 1)
         /\ attempts' \in Seq(AttemptErrors)
         /\ served' \in 0 .. N
         /\ kept' \in 0 .. N
         /\ status' \in {0, 200, 400, 502, 503, 504}
         /\ usage' \in Seq(UsageRows)
  <1>1. Len(rows) \in Nat /\ 0 \in 0 .. N
    BY NonStreamAssumption
  <1>2. usage' \in Seq(UsageRows)
    <2>1. RecordUsage(0, FALSE, Len(rows)) /\ usage \in Seq(UsageRows)
      BY ZenonT(60) DEF Fail, TypeOK
    <2> QED BY <1>1, <2>1, UsageRow
  <1> QED BY <1>2 DEF Fail, TypeOK

(* The status of an exhausted request is a failure status. *)
LEMMA FailureStatusType ==
  ASSUME NEW class
  PROVE  FailureStatus(class) \in {502, 503, 504}
  BY DEF FailureStatus

(* The rows that a failed call leaves in the log. *)
LEMMA FailedRows ==
  ASSUME TypeOK, cur \in Cands, NEW class \in Classes
  PROVE  /\ Append(attempts, Attempt(class, FALSE)) \in Seq(AttemptErrors)
         /\ Append(Append(attempts, Attempt(class, FALSE)), Attempt("client", FALSE))
              \in Seq(AttemptErrors)
  <1>1. /\ Attempt(class, FALSE) \in AttemptErrors
        /\ Attempt("client", FALSE) \in AttemptErrors
    BY AttemptFields DEF Classes
  <1>2. attempts \in Seq(AttemptErrors)
    BY DEF TypeOK
  <1> QED BY <1>1, <1>2, AppendEntry

-----------------------------------------------------------------------------
(* Types. *)
LEMMA InitType == Init => TypeOK
  <1> SUFFICES ASSUME Init PROVE TypeOK
    OBVIOUS
  <1>1. attempts \in Seq(AttemptErrors)
    BY DEF Init
  <1>2. usage \in Seq(UsageRows)
    BY DEF Init
  <1>3. cur \in 1 .. (N + 1) /\ served \in 0 .. N /\ kept \in 0 .. N
    BY NonStreamAssumption DEF Init
  <1> QED BY <1>1, <1>2, <1>3 DEF Init, TypeOK, Results, Errors

(* A candidate that is being called, or whose call returned, exists. *)
LEMMA CurIsCandidate ==
  ASSUME TypeOK, LoopInv, pc \in {"calling", "returned"} \/ cur <= N
  PROVE  cur \in Cands
  BY NonStreamAssumption DEF TypeOK, LoopInv, Cands

LEMMA NextType ==
  ASSUME TypeOK, LoopInv, [Next]_vars
  PROVE  TypeOK'
  <1>0. N \in Nat /\ N + 1 \in 1 .. (N + 1)
    BY NonStreamAssumption
  <1>1. CASE ClientDisconnects
    BY <1>1 DEF ClientDisconnects, TypeOK, requestVars, loopVars, answerVars
  <1>2. CASE TimeoutPasses
    BY <1>2 DEF TimeoutPasses, TypeOK, requestVars, loopVars, answerVars
  <1>3. ASSUME NEW r \in Results \cup Errors, DoNonStream(r)
        PROVE  TypeOK'
    BY <1>3 DEF DoNonStream, TypeOK, requestVars, ctxVars, loopVars, answerVars
  <1>4. CASE SkipCandidate
    <2>1. cur \in Cands /\ cur + 1 \in 1 .. (N + 1)
      BY <1>4, <1>0, CurIsCandidate DEF SkipCandidate, Cands
    <2>2. attempts' \in Seq(AttemptErrors)
      <3>1. /\ Attempt("auth", TRUE) \in AttemptErrors
            /\ Attempt("unknown", TRUE) \in AttemptErrors
        BY <2>1, AttemptFields DEF Classes
      <3>2. /\ Append(attempts, Attempt("auth", TRUE)) \in Seq(AttemptErrors)
            /\ Append(attempts, Attempt("unknown", TRUE)) \in Seq(AttemptErrors)
        BY <3>1, AppendEntry DEF TypeOK
      <3>3. \/ attempts' = Append(attempts, Attempt("auth", TRUE))
            \/ attempts' = Append(attempts, Attempt("unknown", TRUE))
        BY <1>4 DEF SkipCandidate
      <3> QED BY <3>2, <3>3
    <2> QED BY <1>4, <2>1, <2>2 DEF SkipCandidate, TypeOK, requestVars, ctxVars, answerVars
  <1>5. CASE RejectRequest
    BY <1>5 DEF RejectRequest, TypeOK, requestVars, ctxVars, loopVars
  <1>6. CASE CallCandidate
    <2>1. cur \in Cands
      BY <1>6, CurIsCandidate DEF CallCandidate, Usable
    <2>2. overdue' \in BOOLEAN
      BY <1>6, ZenonT(60) DEF CallCandidate, TypeOK
    <2>3. called' \subseteq Cands /\ pc' \in {"next", "calling", "returned", "done"}
      BY <1>6, <2>1 DEF CallCandidate, TypeOK
    <2>4. UNCHANGED <<api, keyed, cur, attempts, authFailed, reply, clientGone,
                      served, kept, status, usage>>
      BY <1>6 DEF CallCandidate, requestVars, answerVars
    <2> QED BY <2>2, <2>3, <2>4 DEF TypeOK
  <1>7. CASE CallFailed
    <2>1. cur \in Cands /\ cur + 1 \in 1 .. (N + 1)
      BY <1>7, <1>0, CurIsCandidate DEF CallFailed, Cands
    <2> DEFINE class == NormalizeError(reply)
               rows == Append(attempts, Attempt(class, FALSE))
               both == Append(rows, Attempt("client", FALSE))
    <2>2. class \in Classes
      BY <1>7, NormalizedError DEF CallFailed
    <2>3. rows \in Seq(AttemptErrors) /\ both \in Seq(AttemptErrors)
      BY <2>1, <2>2, FailedRows
    <2>4. authFailed' \subseteq Providers
      BY <1>7, <2>1, ProviderType DEF CallFailed, NoteAuth, TypeOK
    <2>5. UNCHANGED <<api, keyed, reply, clientGone, overdue, called>>
      BY <1>7 DEF CallFailed, requestVars, ctxVars
    <2>6. CASE Fail(400, IF class = "client" THEN rows ELSE both)
      <3>1. (IF class = "client" THEN rows ELSE both) \in Seq(AttemptErrors)
        BY <2>3
      <3> HIDE DEF class, rows, both
      <3> QED BY <2>4, <2>5, <2>6, <3>1, FailType DEF TypeOK
    <2>7. CASE attempts' = rows /\ cur' = cur + 1 /\ pc' = "next" /\ UNCHANGED answerVars
      <3> HIDE DEF class, rows, both
      <3> QED BY <2>1, <2>3, <2>4, <2>5, <2>7 DEF TypeOK, answerVars
    <2> QED BY <1>7, <2>6, <2>7 DEF CallFailed
  <1>8. ASSUME NEW success \in BOOLEAN, NEW keep \in BOOLEAN, Answer(success, keep),
               pc = "returned"
        PROVE  TypeOK'
    <2>1. cur \in Cands /\ cur \in 0 .. N
      BY <1>8, <1>0, CurIsCandidate DEF Cands
    <2>2. Len(attempts) + 1 \in Nat /\ usage \in Seq(UsageRows)
      BY DEF TypeOK
    <2>3. usage' \in Seq(UsageRows)
      BY <1>8, <2>1, <2>2, UsageRow DEF Answer
    <2>4. kept' \in 0 .. N
      BY <1>8, <2>1 DEF Answer, TypeOK
    <2> QED BY <1>8, <2>1, <2>3, <2>4 DEF Answer, TypeOK, requestVars, ctxVars, loopVars
  <1>9. CASE AnswerResponses
    <2>1. Completed(reply) \in BOOLEAN
      BY DEF Completed
    <2> QED BY <1>8, <1>9, <2>1 DEF AnswerResponses
  <1>10. CASE AnswerMessages
    BY <1>8, <1>10 DEF AnswerMessages
  <1>11. CASE MappingFailed
    <2>1. cur \in Cands /\ cur + 1 \in 1 .. (N + 1)
      BY <1>11, <1>0, CurIsCandidate DEF MappingFailed, Cands
    <2>2. attempts' \in Seq(AttemptErrors)
      BY <1>11, <2>1, FailedRows DEF MappingFailed, Classes
    <2>3. cur' \in 1 .. (N + 1) /\ pc' \in {"next", "calling", "returned", "done"}
      BY <1>11, <2>1 DEF MappingFailed
    <2>4. UNCHANGED <<api, keyed, reply, clientGone, overdue, authFailed, called,
                      served, kept, status, usage>>
      BY <1>11 DEF MappingFailed, requestVars, ctxVars, answerVars
    <2> QED BY <2>2, <2>3, <2>4 DEF TypeOK
  <1>12. CASE Exhausted
    <2> DEFINE code == FailureStatus(attempts[Len(attempts)].class)
    <2>1. code \in {400, 502, 503, 504}
      BY FailureStatusType
    <2>2. Fail(code, attempts) /\ attempts \in Seq(AttemptErrors)
      BY <1>12 DEF Exhausted, TypeOK
    <2>3. UNCHANGED <<api, keyed, reply, clientGone, overdue, authFailed, called>>
      BY <1>12 DEF Exhausted, requestVars, ctxVars
    <2> HIDE DEF code
    <2> QED BY <2>1, <2>2, <2>3, FailType DEF TypeOK
  <1>13. CASE UNCHANGED vars
    BY <1>13 DEF vars, requestVars, ctxVars, loopVars, answerVars, TypeOK
  <1> QED BY <1>1, <1>2, <1>3, <1>4, <1>5, <1>6, <1>7, <1>9, <1>10, <1>11, <1>12, <1>13
          DEF Next, Handler, Done

-----------------------------------------------------------------------------
(* Where the loop is. *)
LEMMA NextLoop ==
  ASSUME TypeOK, LoopInv, [Next]_vars
  PROVE  LoopInv'
  <1>0. N \in Nat /\ cur \in Nat
    BY NonStreamAssumption DEF TypeOK
  <1>1. CASE ClientDisconnects
    BY <1>1 DEF ClientDisconnects, LoopInv, Provider, requestVars, loopVars, answerVars
  <1>2. CASE TimeoutPasses
    BY <1>2 DEF TimeoutPasses, LoopInv, Provider, requestVars, loopVars, answerVars
  <1>3. ASSUME NEW r \in Results \cup Errors, DoNonStream(r)
        PROVE  LoopInv'
    BY <1>3 DEF DoNonStream, LoopInv, Provider, requestVars, ctxVars, loopVars, answerVars
  <1>4. ASSUME cur' = cur + 1, pc' = "next", UNCHANGED <<called, reply, clientGone>>
        PROVE  LoopInv'
    BY <1>0, <1>4 DEF LoopInv, TypeOK, Cands
  <1>5. ASSUME pc' = "done", UNCHANGED <<cur, called, reply, clientGone>>
        PROVE  LoopInv'
    BY <1>5 DEF LoopInv
  <1>6. CASE SkipCandidate
    BY <1>4, <1>6 DEF SkipCandidate, ctxVars
  <1>7. CASE RejectRequest
    BY <1>5, <1>7 DEF RejectRequest, ctxVars, loopVars
  <1>8. CASE CallCandidate
    <2>1. pc' = "calling" /\ called' = called \cup {cur} /\ Provider \notin authFailed
      BY <1>8 DEF CallCandidate, Usable
    <2>2. UNCHANGED <<cur, authFailed, reply, clientGone>>
      BY <1>8 DEF CallCandidate
    <2> QED BY <1>0, <2>1, <2>2 DEF LoopInv, Provider
  <1>9. CASE CallFailed
    <2>1. UNCHANGED <<called, reply, clientGone>>
      BY <1>9 DEF CallFailed, ctxVars
    <2>2. \/ pc' = "done" /\ cur' = cur
          \/ pc' = "next" /\ cur' = cur + 1
      BY <1>9 DEF CallFailed, Fail
    <2> QED BY <1>4, <1>5, <2>1, <2>2
  <1>10. ASSUME NEW success, NEW keep, Answer(success, keep)
         PROVE  LoopInv'
    BY <1>5, <1>10 DEF Answer, ctxVars, loopVars
  <1>11. CASE MappingFailed
    BY <1>4, <1>11 DEF MappingFailed, ctxVars
  <1>12. CASE Exhausted
    BY <1>5, <1>12 DEF Exhausted, Fail, ctxVars
  <1>13. CASE UNCHANGED vars
    BY <1>13 DEF vars, requestVars, ctxVars, loopVars, answerVars, LoopInv, Provider
  <1> QED BY <1>1, <1>2, <1>3, <1>6, <1>7, <1>8, <1>9, <1>10, <1>11, <1>12, <1>13
          DEF Next, Handler, Done, AnswerResponses, AnswerMessages

-----------------------------------------------------------------------------
(* The log. *)

(* An entry for the candidate the loop is at may be added to the log.      *)
LEMMA LogAppend ==
  ASSUME NEW rows \in Seq(AttemptErrors), NEW e \in AttemptErrors,
         NEW k \in Cands, NEW refused, NEW more, NEW tried,
         Entries(rows, k, refused, tried), Sticks(rows),
         refused \subseteq more,
         Len(rows) >= k - 1,
         e.cand = k,
         e.skipped <=> k \notin tried,
         e.class = "auth" => ProviderOf[k] \in more,
         e.skipped \/ Fresh(rows, k)
  PROVE  /\ Entries(Append(rows, e), k, more, tried)
         /\ Sticks(Append(rows, e))
         /\ Fresh(rows, k) => Fresh(Append(rows, e), k)
  <1> DEFINE new == Append(rows, e)
             n == Len(rows)
  <1>1. /\ n \in Nat
        /\ DOMAIN rows = 1 .. n
        /\ DOMAIN new = 1 .. (n + 1)
        /\ \A j \in 1 .. n : new[j] = rows[j] /\ rows[j] \in AttemptErrors
        /\ new[n + 1] = e
    BY AppendEntry
  <1>2. k \in Nat /\ N \in Nat
    BY NonStreamAssumption DEF Cands
  <1>3. \A j \in DOMAIN new : j \in DOMAIN rows \/ j = n + 1
    BY <1>1
  <1> HIDE DEF new, n
  <1>4. Entries(new, k, more, tried)
    <2> SUFFICES ASSUME NEW j \in DOMAIN new
                 PROVE  /\ new[j].cand = IF j < k THEN j ELSE k
                        /\ new[j].skipped <=> new[j].cand \notin tried
                        /\ new[j].class = "auth" => ProviderOf[new[j].cand] \in more
      BY DEF Entries
    <2>1. CASE j \in DOMAIN rows
      BY <1>1, <2>1 DEF Entries
    <2>2. CASE j = n + 1
      <3>1. ~(j < k)
        BY <1>1, <1>2, <2>2 DEF n
      <3> QED BY <1>1, <2>2, <3>1
    <2> QED BY <1>3, <2>1, <2>2
  <1>5. Sticks(new)
    <2> SUFFICES ASSUME NEW j \in DOMAIN new, NEW m \in DOMAIN new,
                        j < m, new[j].class = "auth", new[j].cand # new[m].cand,
                        ProviderOf[new[j].cand] = ProviderOf[new[m].cand]
                 PROVE  new[m].skipped
      BY DEF Sticks
    <2>1. j \in DOMAIN rows /\ new[j] = rows[j]
      BY <1>1
    <2>2. CASE m \in DOMAIN rows
      BY <1>1, <2>1, <2>2 DEF Sticks
    <2>3. CASE m = n + 1
      BY <1>1, <2>1, <2>3 DEF Fresh
    <2> QED BY <1>3, <2>2, <2>3
  <1>6. Fresh(rows, k) => Fresh(new, k)
    BY <1>1, <1>3 DEF Fresh
  <1> QED BY <1>4, <1>5, <1>6 DEF new

(* Once candidate k has its entry the loop may move to the next one. *)
LEMMA LogAdvance ==
  ASSUME NEW rows \in Seq(AttemptErrors), NEW k \in Nat, NEW refused, NEW tried,
         Entries(rows, k, refused, tried), Len(rows) = k
  PROVE  Entries(rows, k + 1, refused, tried)
  <1>1. DOMAIN rows = 1 .. k
    OBVIOUS
  <1> QED BY <1>1 DEF Entries

(* A refused provider's earlier entries do not concern a candidate whose   *)
(* provider was not refused.                                               *)
LEMMA FreshCandidate ==
  ASSUME LogInv, Provider \notin authFailed
  PROVE  Fresh(attempts, cur)
  BY DEF LogInv, Entries, Fresh, Provider

(* The log after the loop has moved past candidate cur. *)
LEMMA LogMoves ==
  ASSUME TypeOK, AuthFailureSticks, LogInv, cur \in Cands, pc # "done",
         NEW class \in Classes, NEW skipped \in BOOLEAN,
         attempts' = Append(attempts, Attempt(class, skipped)),
         cur' = cur + 1, pc' = "next", UNCHANGED <<called, reply>>,
         authFailed \subseteq authFailed',
         skipped <=> cur \notin called,
         class = "auth" => Provider \in authFailed',
         skipped \/ Provider \notin authFailed,
         class = "timeout" => reply = "timeout" /\ ~skipped
  PROVE  LogInv' /\ AuthFailureSticks'
  <1> DEFINE e == Attempt(class, skipped)
  <1>1. e \in AttemptErrors /\ e.cand = cur /\ e.class = class /\ e.skipped = skipped
    BY AttemptFields
  <1>2. /\ attempts \in Seq(AttemptErrors)
        /\ Entries(attempts, cur, authFailed, called)
        /\ Sticks(attempts)
        /\ Len(attempts) = cur - 1
    BY DEF TypeOK, LogInv, AuthFailureSticks, Sticks
  <1>3. cur \in Nat
    BY DEF Cands
  <1>4. attempts' = Append(attempts, e)
    OBVIOUS
  <1>5. e.class = "auth" => ProviderOf[cur] \in authFailed'
    BY <1>1 DEF Provider
  <1> HIDE DEF e
  <1>6. e.skipped \/ Fresh(attempts, cur)
    BY <1>1, FreshCandidate
  <1>7. Len(attempts) >= cur - 1
    BY <1>2, <1>3
  <1>8. Entries(attempts', cur, authFailed', called) /\ Sticks(attempts')
    BY <1>1, <1>2, <1>4, <1>5, <1>6, <1>7, LogAppend
  <1>9. /\ attempts' \in Seq(AttemptErrors)
        /\ Len(attempts') = cur
        /\ attempts'[Len(attempts')] = e
    BY <1>1, <1>2, <1>3, <1>4, AppendEntry
  <1>10. Entries(attempts', cur', authFailed', called')
    BY <1>3, <1>8, <1>9, LogAdvance
  <1>11. Len(attempts') = cur' - 1
    BY <1>3, <1>9
  <1>12. attempts'[Len(attempts')].class = "timeout" => reply' = "timeout" /\ called' # {}
    BY <1>1, <1>9
  <1>13. LogInv'
    BY <1>10, <1>11, <1>12 DEF LogInv
  <1>14. AuthFailureSticks'
    BY <1>8 DEF AuthFailureSticks, Sticks
  <1> QED BY <1>13, <1>14

(* The log of a request that is given up after a failed call. *)
LEMMA LogGivenUp ==
  ASSUME TypeOK, AuthFailureSticks, LogInv, cur \in Cands, pc # "done", cur \in called,
         NEW class \in Classes,
         attempts' = IF class = "client" THEN Append(attempts, Attempt(class, FALSE))
                     ELSE Append(Append(attempts, Attempt(class, FALSE)),
                                 Attempt("client", FALSE)),
         pc' = "done", UNCHANGED <<cur, called>>,
         authFailed \subseteq authFailed',
         class = "auth" => Provider \in authFailed',
         Provider \notin authFailed
  PROVE  LogInv' /\ AuthFailureSticks'
  <1> DEFINE e == Attempt(class, FALSE)
             f == Attempt("client", FALSE)
             rows == Append(attempts, e)
             both == Append(rows, f)
  <1>1. /\ e \in AttemptErrors /\ e.cand = cur /\ e.class = class /\ e.skipped = FALSE
        /\ f \in AttemptErrors /\ f.cand = cur /\ f.class = "client" /\ f.skipped = FALSE
    BY AttemptFields DEF Classes
  <1>2. /\ attempts \in Seq(AttemptErrors)
        /\ Entries(attempts, cur, authFailed, called)
        /\ Sticks(attempts)
        /\ Len(attempts) = cur - 1
    BY DEF TypeOK, LogInv, AuthFailureSticks, Sticks
  <1>3. cur \in Nat
    BY DEF Cands
  <1>4. attempts' = rows \/ attempts' = both
    OBVIOUS
  <1>5. e.class = "auth" => ProviderOf[cur] \in authFailed'
    BY <1>1 DEF Provider
  <1>6. Fresh(attempts, cur)
    BY FreshCandidate
  <1>7. Len(attempts) >= cur - 1
    BY <1>2, <1>3
  <1> HIDE DEF e, f
  <1>8. Entries(rows, cur, authFailed', called) /\ Sticks(rows) /\ Fresh(rows, cur)
    BY <1>1, <1>2, <1>5, <1>6, <1>7, LogAppend
  <1>9. rows \in Seq(AttemptErrors) /\ Len(rows) >= cur - 1
    BY <1>1, <1>2, <1>3, AppendEntry
  <1>10. Entries(both, cur, authFailed', called) /\ Sticks(both)
    <2> HIDE DEF rows
    <2> QED BY <1>1, <1>8, <1>9, LogAppend
  <1>11. Entries(attempts', cur, authFailed', called) /\ Sticks(attempts')
    <2> HIDE DEF rows, both
    <2> QED BY <1>4, <1>8, <1>10
  <1> QED BY <1>11 DEF LogInv, AuthFailureSticks, Sticks

LEMMA NextLog ==
  ASSUME TypeOK, AuthFailureSticks, LoopInv, LogInv, [Next]_vars
  PROVE  LogInv' /\ AuthFailureSticks'
  <1>1. ASSUME UNCHANGED <<pc, reply, cur, attempts, authFailed, called>>
        PROVE  LogInv' /\ AuthFailureSticks'
    BY <1>1 DEF LogInv, Entries, AuthFailureSticks
  <1>2. ASSUME UNCHANGED <<cur, attempts, authFailed, called>>, pc # "done", pc' # "next"
        PROVE  LogInv' /\ AuthFailureSticks'
    BY <1>2 DEF LogInv, Entries, AuthFailureSticks
  <1>3. CASE ClientDisconnects \/ TimeoutPasses \/ UNCHANGED vars
    BY <1>1, <1>3 DEF ClientDisconnects, TimeoutPasses, vars, loopVars
  <1>4. ASSUME NEW r, DoNonStream(r)
        PROVE  LogInv' /\ AuthFailureSticks'
    BY <1>2, <1>4 DEF DoNonStream, loopVars
  <1>5. CASE SkipCandidate
    <2>1. cur \in Cands /\ cur \notin called /\ pc # "done"
      BY <1>5, CurIsCandidate DEF SkipCandidate, LoopInv
    <2>2. UNCHANGED <<authFailed, called, reply>> /\ cur' = cur + 1 /\ pc' = "next"
      BY <1>5 DEF SkipCandidate
    <2>3. CASE Provider \in authFailed /\ attempts' = Append(attempts, Attempt("auth", TRUE))
      BY <2>1, <2>2, <2>3, LogMoves DEF Classes
    <2>4. CASE attempts' = Append(attempts, Attempt("unknown", TRUE))
      BY <2>1, <2>2, <2>4, LogMoves DEF Classes
    <2> QED BY <1>5, <2>3, <2>4 DEF SkipCandidate
  <1>6. CASE RejectRequest
    BY <1>2, <1>6 DEF RejectRequest, Usable, loopVars
  <1>7. CASE CallCandidate
    <2>1. UNCHANGED <<cur, attempts, authFailed>> /\ called' = called \cup {cur}
      BY <1>7 DEF CallCandidate
    <2>2. pc = "next" /\ pc' = "calling"
      BY <1>7 DEF CallCandidate, Usable
    <2>3. Len(attempts) = cur - 1 /\ attempts \in Seq(AttemptErrors) /\ cur \in Nat
      BY <2>2 DEF LogInv, TypeOK
    <2>4. \A j \in DOMAIN attempts : j < cur
      BY <2>3
    <2>5. Entries(attempts, cur, authFailed, called')
      BY <2>1, <2>3, <2>4 DEF LogInv, Entries
    <2> QED BY <2>1, <2>2, <2>3, <2>5 DEF LogInv, AuthFailureSticks
  <1>8. CASE CallFailed
    <2> DEFINE class == NormalizeError(reply)
    <2>1. /\ class \in Classes
          /\ class = "timeout" => reply = "timeout"
      BY <1>8, NormalizedError DEF CallFailed
    <2>2. pc = "returned" /\ cur \in Cands /\ cur \in called /\ Provider \notin authFailed
      BY <1>8, CurIsCandidate DEF CallFailed, LoopInv
    <2>3. authFailed \subseteq authFailed' /\ (class = "auth" => Provider \in authFailed')
      BY <1>8 DEF CallFailed, NoteAuth
    <2>4. UNCHANGED <<called, reply>>
      BY <1>8 DEF CallFailed
    <2>5. \/ /\ attempts' = IF class = "client" THEN Append(attempts, Attempt(class, FALSE))
                            ELSE Append(Append(attempts, Attempt(class, FALSE)),
                                        Attempt("client", FALSE))
             /\ pc' = "done"
             /\ UNCHANGED cur
          \/ /\ attempts' = Append(attempts, Attempt(class, FALSE))
             /\ cur' = cur + 1
             /\ pc' = "next"
      BY <1>8 DEF CallFailed, Fail
    <2> HIDE DEF class
    <2> QED BY <2>1, <2>2, <2>3, <2>4, <2>5, LogMoves, LogGivenUp
  <1>9. ASSUME NEW success, NEW keep, Answer(success, keep), pc = "returned"
        PROVE  LogInv' /\ AuthFailureSticks'
    BY <1>2, <1>9 DEF Answer, loopVars
  <1>10. CASE MappingFailed
    <2>1. pc = "returned" /\ cur \in Cands /\ cur \in called /\ Provider \notin authFailed
      BY <1>10, CurIsCandidate DEF MappingFailed, LoopInv
    <2>2. /\ UNCHANGED <<authFailed, called, reply>>
          /\ cur' = cur + 1
          /\ pc' = "next"
          /\ attempts' = Append(attempts, Attempt("upstream", FALSE))
      BY <1>10 DEF MappingFailed
    <2> QED BY <2>1, <2>2, LogMoves DEF Classes
  <1>11. CASE Exhausted
    <2>1. UNCHANGED <<cur, attempts, authFailed, called>> /\ pc # "done" /\ pc' # "next"
      BY <1>11 DEF Exhausted, Fail
    <2> QED BY <1>2, <2>1
  <1> QED BY <1>3, <1>4, <1>5, <1>6, <1>7, <1>8, <1>9, <1>10, <1>11
          DEF Next, Handler, Done, AnswerResponses, AnswerMessages

-----------------------------------------------------------------------------
(* Answers and records. *)

(* The only usage row of a request. *)
LEMMA OnlyRow ==
  ASSUME usage = <<>>, NEW cand, NEW success \in BOOLEAN, NEW count,
         RecordUsage(cand, success, count)
  PROVE  /\ usage' = <<[cand |-> cand, success |-> success, attempts |-> count]>>
         /\ \A j \in DOMAIN usage' : usage'[j].success = success
  <1> DEFINE row == [cand |-> cand, success |-> success, attempts |-> count]
  <1>1. usage' = Append(usage, row)
    BY DEF RecordUsage
  <1>2. row.success = success
    OBVIOUS
  <1> HIDE DEF row
  <1>3. Append(usage, row) = <<row>>
    OBVIOUS
  <1>4. \A j \in DOMAIN <<row>> : <<row>>[j] = row
    OBVIOUS
  <1> QED BY <1>1, <1>2, <1>3, <1>4 DEF row

(* What a request that is not answered yet has answered. *)
LEMMA StillOpen ==
  ASSUME pc' # "done", status' = 0, served' = 0, kept' = 0, usage' = <<>>
  PROVE  AnswerInv' /\ RecordsAgree' /\ MessagesTimeoutFailsOver'
  BY DEF AnswerInv, RecordsAgree, MessagesTimeoutFailsOver

(* A request given up after a failed call. *)
LEMMA GivenUpAnswer ==
  ASSUME TypeOK, LoopInv, AnswerInv, pc = "returned", reply \in Errors,
         NEW rows, Fail(400, rows), GivesUp(NormalizeError(reply)),
         UNCHANGED <<api, reply, clientGone, overdue, called>>
  PROVE  AnswerInv' /\ RecordsAgree' /\ MessagesTimeoutFailsOver'
  <1>1. status = 0 /\ served = 0 /\ kept = 0 /\ usage = <<>>
    BY DEF AnswerInv
  <1>2. /\ pc' = "done" /\ status' = 400 /\ cur' = cur
        /\ RecordUsage(0, FALSE, Len(rows))
    BY DEF Fail
  <1>3. served' = 0 /\ kept' = 0
    BY <1>1 DEF Fail
  <1>4. \A j \in DOMAIN usage' : ~usage'[j].success
    BY <1>1, <1>2, OnlyRow
  <1>5. AnswerInv'
    BY <1>2, <1>3 DEF AnswerInv
  <1>6. clientGone \/ reply = "client" \/ (api = "responses" /\ overdue)
    BY NormalizedError DEF GivesUp, CtxDone, LoopInv
  <1>7. RecordsAgree'
    <2>1. clientGone' \/ reply' = "client" \/ (api' = "responses" /\ overdue')
      BY <1>6
    <2> QED BY <1>2, <1>3, <1>4, <2>1 DEF RecordsAgree
  <1>8. MessagesTimeoutFailsOver'
    <2>1. api = "messages" /\ ~clientGone => reply # "timeout"
      BY <1>6, NormalizedError DEF GivesUp
    <2> QED BY <2>1 DEF MessagesTimeoutFailsOver
  <1> QED BY <1>5, <1>7, <1>8

(* A request that was answered with what candidate cur returned. *)
LEMMA AnsweredWell ==
  ASSUME TypeOK, LoopInv, LogInv, AnswerInv, pc = "returned", reply \in Results,
         NEW success \in BOOLEAN, NEW keep \in BOOLEAN, Answer(success, keep),
         keep => reply \in {"completed", "malformed", "truncated"},
         success <=> \/ reply = "completed"
                     \/ api = "responses" /\ reply = "malformed"
                     \/ api = "messages" /\ reply = "truncated"
  PROVE  AnswerInv' /\ RecordsAgree' /\ MessagesTimeoutFailsOver'
  <1>1. status = 0 /\ served = 0 /\ kept = 0 /\ usage = <<>>
    BY DEF AnswerInv
  <1>2. cur \in called /\ cur \in Cands /\ cur # 0
    BY CurIsCandidate DEF LoopInv, Cands
  <1>3. Len(attempts) + 1 = cur
    BY <1>2 DEF LogInv, Cands
  <1>4. /\ pc' = "done" /\ status' = 200 /\ served' = cur
        /\ RecordUsage(cur, success, Len(attempts) + 1)
    BY DEF Answer
  <1>5. kept' \in {0, cur} /\ (kept' = cur => keep)
    BY <1>1, <1>2 DEF Answer
  <1>6. UNCHANGED <<api, reply, cur, called>>
    BY DEF Answer, requestVars, loopVars
  <1>7. usage' = <<[cand |-> cur, success |-> success, attempts |-> cur]>>
    BY <1>1, <1>3, <1>4, OnlyRow
  <1>8. AnswerInv'
    BY <1>2, <1>4, <1>6 DEF AnswerInv
  <1>9. MessagesTimeoutFailsOver'
    BY <1>6 DEF MessagesTimeoutFailsOver, Results
  <1>10. success = (\/ reply' = "completed"
                    \/ api' = "responses" /\ reply' = "malformed"
                    \/ api' = "messages" /\ reply' = "truncated")
    BY <1>6
  <1>11. usage' = <<[cand |-> served', attempts |-> served',
                     success |-> reply' = "completed"
                                 \/ (api' = "responses" /\ reply' = "malformed")
                                 \/ (api' = "messages" /\ reply' = "truncated")]>>
    BY <1>4, <1>7, <1>10
  <1>12. served' \in called'
    BY <1>2, <1>4, <1>6
  <1>13. kept' # 0 => kept' = served' /\ reply' \in {"completed", "malformed", "truncated"}
    BY <1>4, <1>5, <1>6
  <1>14. RecordsAgree'
    BY <1>4, <1>11, <1>12, <1>13 DEF RecordsAgree
  <1> QED BY <1>8, <1>9, <1>14

(* A request whose candidates are exhausted. *)
LEMMA ExhaustedAnswer ==
  ASSUME TypeOK, LoopInv, LogInv, AnswerInv, Exhausted
  PROVE  AnswerInv' /\ RecordsAgree' /\ MessagesTimeoutFailsOver'
  <1> DEFINE last == attempts[Len(attempts)].class
             code == FailureStatus(last)
  <1>1. pc = "next" /\ cur = N + 1 /\ Fail(code, attempts)
    BY DEF Exhausted
  <1>2. UNCHANGED <<api, reply, called>>
    BY DEF Exhausted, requestVars
  <1>3. status = 0 /\ served = 0 /\ kept = 0 /\ usage = <<>>
    BY <1>1 DEF AnswerInv
  <1>4. N \in Nat /\ N # 0 /\ Len(attempts) = N /\ attempts # <<>> /\ DOMAIN attempts = Cands
    BY <1>1, NonStreamAssumption DEF LogInv, TypeOK, Cands
  <1>5. code = 504 => called # {} /\ reply = "timeout"
    <2>1. code = 504 => last = "timeout"
      BY DEF FailureStatus
    <2> QED BY <1>1, <1>4, <2>1 DEF LogInv
  <1>6. \A c \in Cands : attempts[c].skipped <=> c \notin called
    BY <1>1, <1>4 DEF LogInv, Entries, Cands
  <1>7. code = 503 => called = {}
    <2>1. code = 503 => AllKeyMissing(attempts)
      BY DEF FailureStatus
    <2> QED BY <1>4, <1>6, <2>1 DEF AllKeyMissing, TypeOK
  <1>8. code = 502 => called # {}
    <2>1. code = 502 => ~AllKeyMissing(attempts)
      BY DEF FailureStatus
    <2> QED BY <1>4, <1>6, <2>1 DEF AllKeyMissing, TypeOK
  <1>9. code \in {502, 503, 504}
    BY FailureStatusType
  <1> HIDE DEF code, last
  <1>10. /\ pc' = "done" /\ status' = code /\ cur' = cur
         /\ RecordUsage(0, FALSE, Len(attempts))
    BY <1>1 DEF Fail
  <1>11. served' = 0 /\ kept' = 0
    BY <1>1, <1>3 DEF Fail
  <1>12. \A j \in DOMAIN usage' : ~usage'[j].success
    BY <1>3, <1>10, OnlyRow
  <1>13. AnswerInv'
    BY <1>1, <1>9, <1>10, <1>11 DEF AnswerInv
  <1>14. RecordsAgree'
    BY <1>2, <1>5, <1>7, <1>8, <1>9, <1>10, <1>11, <1>12 DEF RecordsAgree
  <1>15. MessagesTimeoutFailsOver'
    <2>1. cur' = N + 1 /\ cur' \notin called'
      BY <1>1, <1>2, <1>10 DEF LoopInv
    <2>2. Considered' = N
      BY <1>4, <2>1 DEF Considered
    <2> QED BY <2>2 DEF MessagesTimeoutFailsOver
  <1> QED BY <1>13, <1>14, <1>15

LEMMA NextAnswer ==
  ASSUME IInv, [Next]_vars
  PROVE  AnswerInv' /\ RecordsAgree' /\ MessagesTimeoutFailsOver'
  <1>0. TypeOK /\ LoopInv /\ LogInv /\ AnswerInv
    BY DEF IInv, RoutingInv
  <1>1. ASSUME pc # "done", pc' # "done", UNCHANGED <<served, kept, status, usage>>
        PROVE  AnswerInv' /\ RecordsAgree' /\ MessagesTimeoutFailsOver'
    <2>1. status = 0 /\ served = 0 /\ kept = 0 /\ usage = <<>>
      BY <1>0, <1>1 DEF AnswerInv
    <2> QED BY <1>1, <2>1, StillOpen
  <1>2. CASE ClientDisconnects \/ TimeoutPasses
    <2>1. CASE pc = "done"
      BY <1>2, <2>1 DEF ClientDisconnects, TimeoutPasses
    <2>2. CASE pc # "done"
      BY <1>1, <1>2, <2>2 DEF ClientDisconnects, TimeoutPasses, answerVars
    <2> QED BY <2>1, <2>2
  <1>3. ASSUME NEW r, DoNonStream(r)
        PROVE  AnswerInv' /\ RecordsAgree' /\ MessagesTimeoutFailsOver'
    BY <1>1, <1>3 DEF DoNonStream, answerVars
  <1>4. CASE SkipCandidate
    BY <1>1, <1>4 DEF SkipCandidate, answerVars
  <1>5. CASE RejectRequest
    <2>1. status = 0 /\ served = 0 /\ kept = 0 /\ usage = <<>> /\ cur \notin called
      BY <1>0, <1>5 DEF RejectRequest, Usable, AnswerInv, LoopInv
    <2>2. /\ pc' = "done" /\ status' = 400
          /\ UNCHANGED <<api, reply, cur, called, served, kept, usage>>
          /\ api = "messages"
      BY <1>5 DEF RejectRequest, requestVars, loopVars
    <2>3. \A j \in DOMAIN usage' : ~usage'[j].success
      BY <2>1, <2>2
    <2>4. AnswerInv'
      BY <2>1, <2>2 DEF AnswerInv
    <2>5. RecordsAgree'
      BY <2>1, <2>2, <2>3 DEF RecordsAgree
    <2>6. MessagesTimeoutFailsOver'
      BY <2>1, <2>2 DEF MessagesTimeoutFailsOver
    <2> QED BY <2>4, <2>5, <2>6
  <1>6. CASE CallCandidate
    BY <1>1, <1>6 DEF CallCandidate, Usable, answerVars
  <1>7. CASE CallFailed
    <2> DEFINE class == NormalizeError(reply)
               rows == Append(attempts, Attempt(class, FALSE))
               both == Append(rows, Attempt("client", FALSE))
    <2>1. pc = "returned" /\ reply \in Errors
      BY <1>7 DEF CallFailed
    <2>2. UNCHANGED <<api, reply, clientGone, overdue, called>>
      BY <1>7 DEF CallFailed, requestVars, ctxVars
    <2>3. \/ GivesUp(class) /\ Fail(400, IF class = "client" THEN rows ELSE both)
          \/ pc' = "next" /\ UNCHANGED <<served, kept, status, usage>>
      BY <1>7 DEF CallFailed, answerVars
    <2> HIDE DEF rows, both
    <2>4. CASE GivesUp(class) /\ Fail(400, IF class = "client" THEN rows ELSE both)
      BY <1>0, <2>1, <2>2, <2>4, GivenUpAnswer
    <2>5. CASE pc' = "next" /\ UNCHANGED <<served, kept, status, usage>>
      BY <1>1, <2>1, <2>5
    <2> QED BY <2>3, <2>4, <2>5
  <1>8. CASE AnswerResponses
    <2>1. Completed(reply) \in BOOLEAN
      BY DEF Completed
    <2>2. /\ pc = "returned" /\ reply \in Results /\ api = "responses"
          /\ Answer(Completed(reply), Completed(reply))
      BY <1>8 DEF AnswerResponses
    <2>3. /\ Completed(reply) => reply \in {"completed", "malformed", "truncated"}
          /\ Completed(reply) <=> \/ reply = "completed"
                                  \/ api = "responses" /\ reply = "malformed"
                                  \/ api = "messages" /\ reply = "truncated"
      BY <2>2 DEF Completed
    <2> QED BY <1>0, <2>1, <2>2, <2>3, AnsweredWell
  <1>9. CASE AnswerMessages
    <2>1. /\ pc = "returned" /\ reply \in Results /\ api = "messages"
          /\ reply \in {"completed", "truncated"}
          /\ Answer(TRUE, TRUE)
      BY <1>9 DEF AnswerMessages, ToMessage
    <2> QED BY <1>0, <2>1, AnsweredWell
  <1>10. CASE MappingFailed
    BY <1>1, <1>10 DEF MappingFailed, answerVars
  <1>11. CASE Exhausted
    BY <1>0, <1>11, ExhaustedAnswer
  <1>12. CASE UNCHANGED vars
    BY <1>12 DEF IInv, vars, requestVars, ctxVars, loopVars, answerVars,
                 AnswerInv, RecordsAgree, MessagesTimeoutFailsOver, Considered
  <1> QED BY <1>2, <1>3, <1>4, <1>5, <1>6, <1>7, <1>8, <1>9, <1>10, <1>11, <1>12
          DEF Next, Handler, Done

-----------------------------------------------------------------------------
LEMMA InitInv == Init => IInv
  <1> SUFFICES ASSUME Init PROVE IInv
    OBVIOUS
  <1>1. pc = "next" /\ reply = "none" /\ called = {} /\ cur = 1
    BY DEF Init
  <1>2. attempts = <<>> /\ status = 0 /\ served = 0 /\ kept = 0 /\ usage = <<>>
    BY DEF Init
  <1>3. DOMAIN attempts = {} /\ Len(attempts) = 0
    BY <1>2
  <1>4. LoopInv
    BY <1>1 DEF LoopInv
  <1>5. LogInv /\ AuthFailureSticks
    BY <1>1, <1>2, <1>3 DEF LogInv, Entries, AuthFailureSticks
  <1>6. AnswerInv
    BY <1>1, <1>2 DEF AnswerInv
  <1>7. MessagesTimeoutFailsOver
    BY <1>1 DEF MessagesTimeoutFailsOver
  <1>8. RecordsAgree
    BY <1>1, <1>2 DEF RecordsAgree
  <1> QED BY <1>4, <1>5, <1>6, <1>7, <1>8, InitType DEF IInv, RoutingInv

LEMMA NextInv == IInv /\ [Next]_vars => IInv'
  <1> SUFFICES ASSUME IInv, [Next]_vars PROVE IInv'
    OBVIOUS
  <1>1. TypeOK /\ AuthFailureSticks /\ LoopInv /\ LogInv
    BY DEF IInv, RoutingInv
  <1>2. TypeOK' /\ LoopInv' /\ LogInv' /\ AuthFailureSticks'
    BY <1>1, NextType, NextLoop, NextLog
  <1> QED BY <1>2, NextAnswer DEF IInv, RoutingInv

(* The inductive invariant holds of every request. *)
THEOREM InvariantHolds == Spec => []IInv
  BY InitInv, NextInv, PTL DEF Spec

(* For any list of candidates: a provider whose key was refused (401/403)  *)
(* is not called again for the request by executeNonStream or              *)
(* serveMessagesNonStream, and every variable keeps its type.              *)
THEOREM RefusedStaysRefused == Spec => []RoutingInv
  <1>1. IInv => RoutingInv
    BY DEF IInv
  <1> QED BY <1>1, InvariantHolds, PTL

(* The HTTP status, the stored affinity or continuation and the usage      *)
(* record of every non-streaming request tell of the same outcome.         *)
THEOREM RecordsTellTheOutcome == Spec => []RecordsAgree
  <1>1. IInv => RecordsAgree
    BY DEF IInv
  <1> QED BY <1>1, InvariantHolds, PTL

(* A Messages call that times out never ends the request while candidates  *)
(* are left and the client is there: the timeout of serveMessagesNonStream *)
(* is the call's, not the request's.                                       *)
THEOREM MessagesTimeoutsFailOver == Spec => []MessagesTimeoutFailsOver
  <1>1. IInv => MessagesTimeoutFailsOver
    BY DEF IInv
  <1> QED BY <1>1, InvariantHolds, PTL

-----------------------------------------------------------------------------
(* Refinement: the abstract state of a request. *)
LEMMA InitPromise == Init => Promise!Init
  <1> SUFFICES ASSUME Init PROVE Promise!Init
    OBVIOUS
  <1>1. pc = "next" /\ cur = 1 /\ called = {} /\ served = 0
    BY DEF Init
  <1>2. Considered = 0
    BY <1>1 DEF Considered
  <1>3. Winner = 0
    BY <1>1 DEF Winner
  <1>4. Verdict = "open"
    BY <1>1 DEF Verdict
  <1> QED BY <1>1, <1>2, <1>3, <1>4 DEF Promise!Init

(* Steps that neither move the loop nor answer. *)
LEMMA InvisibleStep ==
  ASSUME UNCHANGED <<pc, cur, called, served, status, api, reply>>
  PROVE  UNCHANGED Promise!vars
  BY DEF Promise!vars, Considered, Winner, Verdict, ToMessage

(* The loop between two candidates, or before the next call. *)
LEMMA OpenAt ==
  ASSUME IInv, pc = "next"
  PROVE  /\ Considered = cur - 1
         /\ Winner = 0
         /\ Verdict = "open"
         /\ cur \in 1 .. (N + 1)
         /\ N \in Nat
  BY NonStreamAssumption DEF IInv, RoutingInv, TypeOK, AnswerInv, Considered, Winner, Verdict

(* The loop during and after the call of a candidate. *)
LEMMA CalledAt ==
  ASSUME IInv, pc \in {"calling", "returned"}
  PROVE  /\ Considered = cur
         /\ cur \in called
         /\ cur \in Cands
         /\ cur # 0
         /\ served = 0
         /\ Verdict = "open"
         /\ pc = "calling" => Winner = 0
         /\ reply \in Errors => Winner = 0
         /\ pc = "returned" /\ api = "messages" /\ ~ToMessage(reply) => Winner = 0
         /\ pc = "returned" /\ reply \in Results /\ (api = "messages" => ToMessage(reply))
              => Winner = cur
  <1>1. cur \in called /\ cur \in Cands /\ cur # 0 /\ served = 0
    BY CurIsCandidate DEF IInv, RoutingInv, LoopInv, AnswerInv, Cands
  <1>2. reply \in Errors => reply \notin Results
    BY DEF Errors, Results, Classes
  <1> QED BY <1>1, <1>2 DEF Considered, Verdict, Winner

(* The loop leaves candidate cur behind: cur was called before or is       *)
(* skipped now.                                                            *)
LEMMA MovedOn ==
  ASSUME IInv, IInv', pc' = "next", cur' = cur + 1, called' = called
  PROVE  /\ Considered' = cur
         /\ Winner' = 0
         /\ Verdict' = "open"
  <1>1. cur \in Nat
    BY DEF IInv, RoutingInv, TypeOK
  <1>2. served' = 0
    BY DEF IInv, AnswerInv
  <1> QED BY <1>1, <1>2 DEF Considered, Winner, Verdict

LEMMA StepKeepsPromise ==
  ASSUME IInv, IInv', [Next]_vars
  PROVE  [Promise!Next]_(Promise!vars)
  <1>1. CASE ClientDisconnects \/ TimeoutPasses \/ UNCHANGED vars
    <2>1. UNCHANGED <<pc, cur, called, served, status, api, reply>>
      BY <1>1 DEF ClientDisconnects, TimeoutPasses, vars, requestVars, loopVars, answerVars
    <2> QED BY <2>1, InvisibleStep
  <1>2. ASSUME NEW r \in Results \cup Errors, DoNonStream(r)
        PROVE  [Promise!Next]_(Promise!vars)
    <2>1. pc = "calling" /\ pc' = "returned" /\ UNCHANGED <<cur, called, served, status>>
      BY <1>2 DEF DoNonStream, loopVars, answerVars
    <2>2. /\ Considered = cur /\ Winner = 0 /\ Verdict = "open" /\ cur \in called /\ served = 0
      BY <2>1, CalledAt
    <2>3. Considered' = cur /\ Verdict' = "open"
      BY <2>1, <2>2 DEF Considered, Verdict
    <2>4. Winner' \in {0, cur}
      BY <2>1, <2>2 DEF Winner
    <2>5. CASE Winner' = 0
      BY <2>1, <2>2, <2>3, <2>5 DEF Promise!vars
    <2>6. CASE Winner' = cur
      BY <2>1, <2>2, <2>3, <2>6 DEF Promise!Next, Promise!Commit, Promise!Undecided
    <2> QED BY <2>4, <2>5, <2>6
  <1>3. CASE SkipCandidate
    <2>1. pc = "next" /\ cur <= N /\ cur' = cur + 1 /\ pc' = "next" /\ called' = called
      BY <1>3 DEF SkipCandidate
    <2>2. /\ Considered = cur - 1 /\ Winner = 0 /\ Verdict = "open"
          /\ cur \in 1 .. (N + 1) /\ N \in Nat
      BY <2>1, OpenAt
    <2>3. Considered' = cur /\ Winner' = 0 /\ Verdict' = "open"
      BY <2>1, MovedOn
    <2>4. Considered < N /\ Considered' = Considered + 1
      BY <2>1, <2>2, <2>3
    <2> QED BY <2>1, <2>2, <2>3, <2>4 DEF Promise!Next, Promise!Skip, Promise!Undecided
  <1>4. CASE CallCandidate
    <2>1. pc = "next" /\ cur <= N /\ cur' = cur /\ pc' = "calling" /\ called' = called \cup {cur}
      BY <1>4 DEF CallCandidate, Usable
    <2>2. /\ Considered = cur - 1 /\ Winner = 0 /\ Verdict = "open"
          /\ cur \in 1 .. (N + 1) /\ N \in Nat
      BY <2>1, OpenAt
    <2>3. served' = 0
      BY <2>1 DEF IInv, AnswerInv
    <2>4. Considered' = cur /\ Winner' = 0 /\ Verdict' = "open"
      BY <2>1, <2>3 DEF Considered, Winner, Verdict
    <2>5. Considered < N /\ Considered' = Considered + 1 /\ Considered + 1 = cur
      BY <2>1, <2>2, <2>4
    <2> QED BY <2>1, <2>2, <2>4, <2>5 DEF Promise!Next, Promise!Call, Promise!Undecided
  <1>5. CASE RejectRequest
    <2>1. /\ pc = "next" /\ pc' = "done" /\ status' = 400
          /\ UNCHANGED <<cur, called, served>>
      BY <1>5 DEF RejectRequest, Usable, loopVars
    <2>2. Considered = cur - 1 /\ Winner = 0 /\ Verdict = "open"
      BY <2>1, OpenAt
    <2>3. served = 0 /\ cur \notin called
      BY <2>1 DEF IInv, AnswerInv, LoopInv
    <2>4. Considered' = Considered /\ Winner' = 0 /\ Verdict' = "rejected"
      BY <2>1, <2>2, <2>3 DEF Considered, Winner, Verdict
    <2> QED BY <2>1, <2>2, <2>4 DEF Promise!Next, Promise!Reject, Promise!Undecided
  <1>6. CASE CallFailed
    <2>1. pc = "returned" /\ reply \in Errors /\ called' = called
      BY <1>6 DEF CallFailed
    <2>2. Considered = cur /\ Winner = 0 /\ Verdict = "open" /\ served = 0 /\ cur \in called
      BY <2>1, CalledAt
    <2>3. \/ pc' = "done" /\ status' = 400 /\ cur' = cur /\ served' = served
          \/ pc' = "next" /\ cur' = cur + 1
      BY <1>6 DEF CallFailed, Fail
    <2>4. CASE pc' = "done" /\ status' = 400 /\ cur' = cur /\ served' = served
      <3>1. Considered' = Considered /\ Winner' = 0 /\ Verdict' = "rejected"
        BY <2>1, <2>2, <2>4 DEF Considered, Winner, Verdict
      <3> QED BY <2>1, <2>2, <3>1 DEF Promise!Next, Promise!Reject, Promise!Undecided
    <2>5. CASE pc' = "next" /\ cur' = cur + 1
      BY <2>1, <2>2, <2>5, MovedOn DEF Promise!vars
    <2> QED BY <2>3, <2>4, <2>5
  <1>7. ASSUME NEW success, NEW keep, Answer(success, keep), pc = "returned",
               reply \in Results, api = "messages" => ToMessage(reply)
        PROVE  [Promise!Next]_(Promise!vars)
    <2>1. pc' = "done" /\ served' = cur /\ UNCHANGED <<cur, called>>
      BY <1>7 DEF Answer, loopVars
    <2>2. Considered = cur /\ Winner = cur /\ Verdict = "open" /\ cur \in called /\ cur # 0
      BY <1>7, CalledAt
    <2>3. Considered' = Considered /\ Winner' = Winner /\ Verdict' = "served"
      BY <2>1, <2>2 DEF Considered, Winner, Verdict
    <2> QED BY <2>1, <2>2, <2>3 DEF Promise!Next, Promise!Serve
  <1>8. CASE AnswerResponses
    BY <1>7, <1>8 DEF AnswerResponses
  <1>9. CASE AnswerMessages
    BY <1>7, <1>9 DEF AnswerMessages
  <1>10. CASE MappingFailed
    <2>1. /\ pc = "returned" /\ api = "messages" /\ ~ToMessage(reply)
          /\ pc' = "next" /\ cur' = cur + 1 /\ called' = called
      BY <1>10 DEF MappingFailed
    <2>2. Considered = cur /\ Winner = 0 /\ Verdict = "open"
      BY <2>1, CalledAt
    <2> QED BY <2>1, <2>2, MovedOn DEF Promise!vars
  <1>11. CASE Exhausted
    <2> DEFINE code == FailureStatus(attempts[Len(attempts)].class)
    <2>1. /\ pc = "next" /\ cur = N + 1 /\ pc' = "done" /\ status' = code
          /\ UNCHANGED <<cur, called, served>>
      BY <1>11 DEF Exhausted, Fail
    <2>2. code \in {502, 503, 504}
      BY FailureStatusType
    <2>3. Considered = cur - 1 /\ Winner = 0 /\ Verdict = "open" /\ N \in Nat
      BY <2>1, OpenAt
    <2>4. served = 0 /\ cur \notin called
      BY <2>1 DEF IInv, AnswerInv, LoopInv
    <2> HIDE DEF code
    <2>5. status' # 400
      BY <2>1, <2>2
    <2>6. Considered' = Considered /\ Winner' = 0 /\ Verdict' = "exhausted" /\ Considered = N
      BY <2>1, <2>3, <2>4, <2>5 DEF Considered, Winner, Verdict
    <2> QED BY <2>1, <2>3, <2>6 DEF Promise!Next, Promise!Exhaust, Promise!Undecided
  <1> QED BY <1>1, <1>2, <1>3, <1>4, <1>5, <1>6, <1>8, <1>9, <1>10, <1>11
          DEF Next, Handler, Done

(* Both non-streaming loops implement Failover: candidates are called or   *)
(* skipped in order, each at most once, and none after an answer.          *)
THEOREM KeepsFailoverPromise == Spec => FailoverSpec
  <1>1. IInv /\ IInv' /\ [Next]_vars => [Promise!Next]_(Promise!vars)
    BY StepKeepsPromise
  <1> QED BY <1>1, InitPromise, InvariantHolds, PTL DEF Spec, FailoverSpec, Promise!Spec
=============================================================================
