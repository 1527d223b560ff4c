------------------------------ MODULE NonStream ------------------------------
(***************************************************************************)
(* A non-streaming request.  POST /v1/responses runs ExecuteNonStream over *)
(* the resolved candidates under one request-wide timeout, and             *)
(* handleResponses answers with its outcome.  POST /v1/messages runs       *)
(* serveMessagesNonStream: the same loop, but every call has a timeout of  *)
(* its own and an answer must map to an Anthropic message.                 *)
(***************************************************************************)
EXTENDS Integers, Sequences

CONSTANTS
  N,         \* number of candidates the router resolved
  Providers, \* provider ids
  ProviderOf \* ProviderOf[c]: the provider of candidate c

Cands == 1 .. N

ASSUME NonStreamAssumption ==
  /\ N \in Nat \ {0}
  /\ ProviderOf \in [Cands -> Providers]

VARIABLES
  api,        \* the endpoint: "responses" or "messages" (never changes)
  keyed,      \* the providers whose API key is configured (never changes)
  pc,         \* where the handler is
  cur,        \* the candidate the loop is at; N + 1 after the last
  clientGone, \* the client disconnected: the request context is cancelled
  overdue,    \* the timeout of the request, or of the Messages call, passed
  reply,      \* what DoNonStream returned for cur
  attempts,   \* the AttemptErrors collected so far
  authFailed, \* providers that answered 401 or 403
  called,     \* candidates whose upstream was called
  served,     \* the candidate whose answer the client got, 0 if none
  kept,       \* the candidate an affinity or a continuation was stored for
  status,     \* HTTP status written to the client, 0 before
  usage       \* usage records written for this request

requestVars == <<api, keyed>>
ctxVars == <<clientGone, overdue>>
loopVars == <<cur, attempts, authFailed, called>>
answerVars == <<served, kept, status, usage>>
vars == <<requestVars, pc, reply, ctxVars, loopVars, answerVars>>

Classes == {"client", "auth", "timeout", "upstream", "unknown"}

(* A response that is completed; cut off at max_output_tokens; failed,     *)
(* cancelled or otherwise incomplete; or completed with function call      *)
(* arguments that do not parse.                                            *)
Results == {"completed", "truncated", "unfinished", "malformed"}

(* Errors of DoNonStream; "canceled" is context.Canceled. *)
Errors == Classes \cup {"canceled"}

AttemptErrors == [cand : Cands, class : Classes, skipped : BOOLEAN]
UsageRows == [cand : 0 .. N, success : BOOLEAN, attempts : Nat]

TypeOK ==
  /\ api \in {"responses", "messages"}
  /\ keyed \subseteq Providers
  /\ pc \in {"next", "calling", "returned", "done"}
  /\ cur \in 1 .. (N + 1)
  /\ clientGone \in BOOLEAN
  /\ overdue \in BOOLEAN
  /\ reply \in Results \cup Errors \cup {"none"}
  /\ attempts \in Seq(AttemptErrors)
  /\ authFailed \subseteq Providers
  /\ called \subseteq Cands
  /\ served \in 0 .. N
  /\ kept \in 0 .. N
  /\ status \in {0, 200, 400, 502, 503, 504}
  /\ usage \in Seq(UsageRows)

Init ==
  /\ api \in {"responses", "messages"}
  /\ keyed \in SUBSET Providers
  /\ pc = "next"
  /\ cur = 1
  /\ clientGone = FALSE
  /\ overdue = FALSE
  /\ reply = "none"
  /\ attempts = <<>>
  /\ authFailed = {}
  /\ called = {}
  /\ served = 0
  /\ kept = 0
  /\ status = 0
  /\ usage = <<>>

CtxDone == clientGone \/ overdue

(* NormalizeError: a cancelled context is a client error. *)
NormalizeError(err) == IF err = "canceled" THEN "client" ELSE err

Provider == ProviderOf[cur]

Attempt(class, skipped) == [cand |-> cur, class |-> class, skipped |-> skipped]

RecordUsage(cand, success, count) ==
  usage' = Append(usage, [cand |-> cand, success |-> success, attempts |-> count])

(* The answer of a request no candidate served, and its usage record. *)
Fail(code, rows) ==
  /\ attempts' = rows
  /\ status' = code
  /\ RecordUsage(0, FALSE, Len(rows))
  /\ pc' = "done"
  /\ UNCHANGED <<cur, served, kept>>

-----------------------------------------------------------------------------
(* The client may disconnect at any time; the Responses timeout runs for   *)
(* the whole request, the Messages timeout only during a call.             *)
ClientDisconnects ==
  /\ ~clientGone
  /\ pc # "done"
  /\ clientGone' = TRUE
  /\ UNCHANGED <<requestVars, pc, overdue, reply, loopVars, answerVars>>

TimeoutPasses ==
  /\ ~overdue
  /\ IF api = "messages" THEN pc = "calling" ELSE pc # "done"
  /\ overdue' = TRUE
  /\ UNCHANGED <<requestVars, pc, clientGone, reply, loopVars, answerVars>>

-----------------------------------------------------------------------------
(* The loop over the candidates. *)
SkipCandidate ==
  /\ pc = "next"
  /\ cur <= N
  /\ \/ /\ Provider \in authFailed
        /\ attempts' = Append(attempts, Attempt("auth", TRUE))
     \/ /\ Provider \notin authFailed
        /\ Provider \notin keyed
        /\ attempts' = Append(attempts, Attempt("unknown", TRUE))
  /\ cur' = cur + 1
  /\ UNCHANGED <<requestVars, pc, reply, ctxVars, authFailed, called, answerVars>>

Usable == pc = "next" /\ cur <= N /\ Provider \notin authFailed /\ Provider \in keyed

(* ToResponsesWithContinuations refuses the request: 400, no usage record. *)
RejectRequest ==
  /\ api = "messages"
  /\ Usable
  /\ status' = 400
  /\ pc' = "done"
  /\ UNCHANGED <<requestVars, reply, ctxVars, loopVars, served, kept, usage>>

CallCandidate ==
  /\ Usable
  /\ overdue' = IF api = "messages" THEN FALSE ELSE overdue
  /\ called' = called \cup {cur}
  /\ pc' = "calling"
  /\ UNCHANGED <<requestVars, cur, attempts, authFailed, reply, clientGone, answerVars>>

(* DoNonStream returns: an answer, an upstream or transport error, or the  *)
(* error of its own context.                                               *)
DoNonStream(r) ==
  /\ pc = "calling"
  /\ r = "canceled" => clientGone
  /\ reply' = r
  /\ pc' = "returned"
  /\ UNCHANGED <<requestVars, ctxVars, loopVars, answerVars>>

(* A mutant: the refused provider is not remembered. *)
ForgetAuth(class) == UNCHANGED authFailed

NoteAuth(class) ==
  authFailed' = IF class = "auth" THEN authFailed \cup {Provider} ELSE authFailed

(* A mutant: the context decides for the Messages handler too. *)
GivesUpOnTimeout(class) == class = "client" \/ CtxDone

(* A client error ends either loop.  ExecuteNonStream also ends when its   *)
(* context is done, whatever ended it.                                     *)
GivesUp(class) == class = "client" \/ (api = "responses" /\ CtxDone)

(* A mutant: a call that timed out is repeated at once. *)
CallFailedRepeats ==
  /\ pc = "returned"
  /\ reply = "timeout"
  /\ pc' = "next"
  /\ UNCHANGED <<requestVars, reply, ctxVars, loopVars, answerVars>>

(* An error.  A context that is done adds a second entry, of class client, *)
(* for the same candidate.                                                 *)
CallFailed ==
  /\ pc = "returned"
  /\ reply \in Errors
  /\ LET class == NormalizeError(reply)
         rows == Append(attempts, Attempt(class, FALSE)) IN
       /\ NoteAuth(class)
       /\ \/ /\ GivesUp(class)
             /\ Fail(400, IF class = "client" THEN rows
                          ELSE Append(rows, Attempt("client", FALSE)))
          \/ /\ ~GivesUp(class)
             /\ attempts' = rows
             /\ cur' = cur + 1
             /\ pc' = "next"
             /\ UNCHANGED answerVars
  /\ UNCHANGED <<requestVars, reply, ctxVars, called>>

AllKeyMissing(rows) == rows # <<>> /\ \A j \in DOMAIN rows : rows[j].skipped

(* The status of a request whose candidates are exhausted; class is the    *)
(* last attempt's error, which only the Responses handler looks at.        *)
FailureStatus(class) ==
  CASE api = "responses" /\ class = "timeout" -> 504
    [] AllKeyMissing(attempts) -> 503
    [] OTHER -> 502

Exhausted ==
  /\ pc = "next"
  /\ cur = N + 1
  /\ Fail(FailureStatus(attempts[Len(attempts)].class), attempts)
  /\ UNCHANGED <<requestVars, reply, ctxVars, authFailed, called>>

-----------------------------------------------------------------------------
(* Answers. *)

(* A mutant: every answer counts as a completed one. *)
AnyResult(r) == TRUE

Completed(r) == r \in {"completed", "malformed"}

(* ToMessage refuses an answer that is failed or not finished. *)
ToMessage(r) == r \in {"completed", "truncated"}

Answer(success, keep) ==
  /\ served' = cur
  /\ \E has \in BOOLEAN : kept' = IF keep /\ has THEN cur ELSE kept
  /\ RecordUsage(cur, success, Len(attempts) + 1)
  /\ status' = 200
  /\ pc' = "done"
  /\ UNCHANGED <<requestVars, reply, ctxVars, loopVars>>

(* onOpenAISuccess pins the response id of a completed response. *)
AnswerResponses ==
  /\ api = "responses"
  /\ pc = "returned"
  /\ reply \in Results
  /\ Answer(Completed(reply), Completed(reply))

(* The answer maps to a message: its reasoning, if any, is remembered. *)
AnswerMessages ==
  /\ api = "messages"
  /\ pc = "returned"
  /\ reply \in Results
  /\ ToMessage(reply)
  /\ Answer(TRUE, TRUE)

(* The answer arrived but does not map to a message: fail over. *)
MappingFailed ==
  /\ api = "messages"
  /\ pc = "returned"
  /\ reply \in Results
  /\ ~ToMessage(reply)
  /\ attempts' = Append(attempts, Attempt("upstream", FALSE))
  /\ pc' = "next"
  /\ cur' = cur + 1
  /\ UNCHANGED <<requestVars, reply, ctxVars, authFailed, called, answerVars>>

-----------------------------------------------------------------------------
Handler ==
  \/ SkipCandidate
  \/ RejectRequest
  \/ CallCandidate
  \/ CallFailed
  \/ AnswerResponses
  \/ AnswerMessages
  \/ MappingFailed
  \/ Exhausted

Done == pc = "done" /\ UNCHANGED vars

Next ==
  \/ ClientDisconnects
  \/ TimeoutPasses
  \/ \E r \in Results \cup Errors : DoNonStream(r)
  \/ Handler
  \/ Done

Spec == Init /\ [][Next]_vars

(* A call whose context is done returns; an upstream may stall otherwise. *)
CallUnblocks == CtxDone /\ \E r \in {"canceled", "timeout"} : DoNonStream(r)

FairSpec ==
  /\ Spec
  /\ WF_vars(Handler)
  /\ WF_vars(TimeoutPasses)
  /\ WF_vars(CallUnblocks)

-----------------------------------------------------------------------------
(* Properties.                                                             *)

Considered == IF cur \in called /\ pc # "next" THEN cur ELSE cur - 1

Verdict ==
  IF pc # "done" THEN "open"
  ELSE IF served # 0 THEN "served"
  ELSE IF status = 400 THEN "rejected"
  ELSE "exhausted"

(* The answer is committed to when it is found good, before it is written. *)
Winner ==
  IF \/ served # 0
     \/ pc = "returned" /\ reply \in Results /\ (api = "messages" => ToMessage(reply))
  THEN cur ELSE 0

Promise == INSTANCE Failover WITH
  considered <- Considered, called <- called, winner <- Winner, verdict <- Verdict

(* Both loops keep the failover promise of the streaming handlers. *)
FailoverSpec == Promise!Spec

(* A provider that answered 401/403 is not called again for this request. *)
AuthFailureSticks ==
  \A j, m \in DOMAIN attempts :
    /\ j < m
    /\ attempts[j].class = "auth"
    /\ attempts[j].cand # attempts[m].cand
    /\ ProviderOf[attempts[j].cand] = ProviderOf[attempts[m].cand]
    => attempts[m].skipped

(* The loops as a whole: types and refused providers. *)
RoutingInv == TypeOK /\ AuthFailureSticks

(* The client's answer, what is kept for its next turn and the usage       *)
(* record tell of the same candidate.  503 means that no upstream was      *)
(* called, 504 that the last one called timed out, 502 that at least one   *)
(* was called and 200 that one answered; 400 before any timeout that the   *)
(* client left, or that the request was rejected.  Only an answer that the *)
(* client gets in full is kept, and only that one is recorded a success.   *)
RecordsAgree ==
  /\ kept # 0 => kept = served /\ reply \in {"completed", "malformed", "truncated"}
  /\ status = 503 => called = {}
  /\ status = 502 => called # {}
  /\ status = 504 => called # {} /\ reply = "timeout"
  /\ status = 200 =>
       /\ served \in called
       /\ usage = <<[cand |-> served, attempts |-> served,
                     success |-> reply = "completed"
                                 \/ (api = "responses" /\ reply = "malformed")
                                 \/ (api = "messages" /\ reply = "truncated")]>>
  /\ status = 400 => \/ clientGone
                     \/ reply = "client"
                     \/ api = "messages" /\ cur \notin called
                     \/ api = "responses" /\ overdue
  /\ pc = "done" /\ status # 200 =>
       kept = 0 /\ \A j \in DOMAIN usage : ~usage[j].success

(* A call of the Messages handler that times out fails over: with its      *)
(* client still there the request is only given up once every candidate    *)
(* was tried or skipped, or the request was rejected for the next one.     *)
MessagesTimeoutFailsOver ==
  api = "messages" /\ pc = "done" /\ reply = "timeout" /\ ~clientGone =>
    Considered = N \/ (status = 400 /\ cur \notin called)

(* The README lists a timeout among the reasons to fail over: a Responses  *)
(* request whose last call timed out, and whose client is still there, has *)
(* failed only if every candidate was tried or skipped.                    *)
TimeoutFailsOver ==
  api = "responses" /\ pc = "done" /\ reply = "timeout" /\ ~clientGone => Considered = N

(* Every request is answered, even if every upstream stalls forever. *)
RequestEnds == <>(pc = "done" /\ status # 0)
=============================================================================
