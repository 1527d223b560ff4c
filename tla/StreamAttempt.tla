---------------------------- MODULE StreamAttempt ----------------------------
(***************************************************************************)
(* One streaming attempt against one failover candidate, as the Responses  *)
(* and the Messages handlers both run it: the first-output deadline that   *)
(* surrounds DoStream, the goroutine that is the only reader of the        *)
(* upstream stream, the one-slot channel between that goroutine and the    *)
(* handler, and the loop that buffers events until the first meaningful    *)
(* one.  The handlers (ResponsesStream, MessagesStream) extend this module *)
(* with what they do before, between and after attempts.                   *)
(*                                                                         *)
(* A candidate is its position 1..N in the resolved candidate list.        *)
(***************************************************************************)
EXTENDS Integers, Sequences

CONSTANTS
  N,          \* number of candidates the router resolved
  Providers,  \* provider ids
  ProviderOf, \* ProviderOf[c]: the provider of candidate c
  Kinds,      \* the kinds of upstream event this instance uses
  MaxUp,      \* bound: events one upstream stream carries
  MaxEvents,  \* cfg.MaxEvents of DefaultPrecommit (32 in the code)
  MaxBytes    \* cfg.MaxBytes of DefaultPrecommit (64 KiB in the code)

Cands == 1 .. N

(***************************************************************************)
(* Kinds of Responses event, told apart only as far as the handlers do:    *)
(* "life" announces the response or carries nothing visible, "bulk" is     *)
(* such an event with a payload that alone fills the byte limit, "delta"   *)
(* stands for every output event, "empty" for a response.completed without *)
(* visible output, and "failed" for response.failed and error.             *)
(***************************************************************************)
AllKinds ==
  {"life", "bulk", "delta", "completed", "empty", "incomplete", "failed"}

(* Error classes: "upstream" stands for the failoverable classes that the  *)
(* handlers do not tell apart (rate_limit, network, model_unavailable ...). *)
Classes == {"client", "auth", "timeout", "upstream", "unknown"}

(* What st.Err() may hold when Next returned false. *)
StreamErrors == {"none", "auth", "client", "upstream", "timeout", "canceled"}

ASSUME AttemptAssumption ==
  /\ N \in Nat \ {0}
  /\ ProviderOf \in [Cands -> Providers]
  /\ Kinds \subseteq AllKinds
  /\ MaxUp \in Nat
  /\ MaxEvents \in Nat \ {0}
  /\ MaxBytes \in Nat \ {0}

VARIABLES
  pc,         \* where the handler goroutine is
  cur,        \* the candidate the handler's loop is at; N + 1 after the last
  clientGone, \* the client disconnected: the request context is cancelled
  late,       \* the first-output deadline of the current attempt has passed
  timer,      \* the time.AfterFunc timer of candidateStreamContext
  expired,    \* its atomic "expired" flag
  dialErr,    \* class of the error DoStream returned, "none" if it opened st
  cancelled,  \* cancelled[c]: the attempt context of c was cancelled by us
  closed,     \* closed[c]: st.Close() was called
  prod,       \* prod[c]: where the reader goroutine of c is
  held,       \* held[c]: the event the reader goroutine wants to send
  chan,       \* chan[c]: the channel steps, capacity 1
  stop,       \* stop[c]: stopReader is closed
  nread,      \* nread[c]: events the upstream of c delivered (bounded)
  read,       \* the events read on the current attempt, in order
  stErr,      \* stErr[c]: st.Err() once the reader goroutine is done
  buf,        \* the precommit buffer
  bytes,      \* bufBytes
  failErr     \* class of the precommit failure being reported

clientVars == <<clientGone>>
deadlineVars == <<late, timer, expired>>
readerVars == <<prod, held, chan, nread, read, stErr>>
releaseVars == <<cancelled, closed, stop>>
bufferVars == <<buf, bytes, failErr>>
attemptVars ==
  <<pc, cur, dialErr, clientVars, deadlineVars, readerVars, releaseVars, bufferVars>>

PcStates == {"next", "dialing", "dialed", "judge", "collect", "failed",
             "commit", "stream", "finish", "done"}

SeqUpTo1(S) == {<<>>} \cup {<<x>> : x \in S}

AttemptTypeOK ==
  /\ pc \in PcStates
  /\ cur \in 1 .. (N + 1)
  /\ clientGone \in BOOLEAN
  /\ late \in BOOLEAN
  /\ timer \in {"off", "armed", "firing", "expired", "finished", "stopped"}
  /\ expired \in BOOLEAN
  /\ dialErr \in Classes \cup {"none"}
  /\ cancelled \in [Cands -> BOOLEAN]
  /\ closed \in [Cands -> BOOLEAN]
  /\ prod \in [Cands -> {"idle", "next", "send", "exit"}]
  /\ held \in [Cands -> SeqUpTo1(Kinds)]
  /\ chan \in [Cands -> SeqUpTo1(Kinds)]
  /\ stop \in [Cands -> BOOLEAN]
  /\ nread \in [Cands -> 0 .. MaxUp]
  /\ read \in Seq(Kinds)
  /\ stErr \in [Cands -> StreamErrors]
  /\ buf \in Seq(Kinds)
  /\ bytes \in Nat
  /\ failErr \in Classes \cup {"none"}

AttemptInit ==
  /\ pc = "next"
  /\ cur = 1
  /\ clientGone = FALSE
  /\ late = FALSE
  /\ timer = "off"
  /\ expired = FALSE
  /\ dialErr = "none"
  /\ cancelled = [c \in Cands |-> FALSE]
  /\ closed = [c \in Cands |-> FALSE]
  /\ prod = [c \in Cands |-> "idle"]
  /\ held = [c \in Cands |-> <<>>]
  /\ chan = [c \in Cands |-> <<>>]
  /\ stop = [c \in Cands |-> FALSE]
  /\ nread = [c \in Cands |-> 0]
  /\ read = <<>>
  /\ stErr = [c \in Cands |-> "none"]
  /\ buf = <<>>
  /\ bytes = 0
  /\ failErr = "none"

(***************************************************************************)
(* Classification of events and errors.                                    *)
(***************************************************************************)
IsMeaningfulEvent(k) ==
  k \in {"delta", "completed", "empty", "incomplete", "failed"}

IsEmptyCompletion(k) == k = "empty"

PayloadLen(k) == IF k = "bulk" THEN MaxBytes ELSE 1

(* NormalizeError: a cancelled context is a client error, everything else  *)
(* keeps the class the provider hook gave it.                              *)
NormalizeStreamError(err) == IF err = "canceled" THEN "client" ELSE err

(* Done() of the attempt context, a child of the request context. *)
CtxDone(c) == clientGone \/ cancelled[c]

-----------------------------------------------------------------------------
(* The environment: the client may disconnect at any time while the        *)
(* request is served, and time passes.                                     *)
ClientDisconnects ==
  /\ ~clientGone
  /\ pc # "done"
  /\ clientGone' = TRUE
  /\ UNCHANGED <<pc, cur, dialErr, deadlineVars, readerVars, releaseVars, bufferVars>>

DeadlinePasses ==
  /\ ~late
  /\ pc \in {"dialing", "dialed", "judge", "collect"}
  /\ late' = TRUE
  /\ UNCHANGED <<pc, cur, dialErr, clientVars, timer, expired, readerVars,
                 releaseVars, bufferVars>>

-----------------------------------------------------------------------------
(* candidateStreamContext: a fresh attempt context and a timer whose       *)
(* callback sets "expired", cancels the context, then closes "finished".   *)
CandidateStreamContext ==
  /\ timer' = "armed"
  /\ late' = FALSE
  /\ expired' = FALSE

TimerFires ==
  /\ timer = "armed"
  /\ late
  /\ timer' = "firing"
  /\ UNCHANGED <<pc, cur, dialErr, clientVars, late, expired, readerVars,
                 releaseVars, bufferVars>>

TimerExpires ==
  /\ timer = "firing"
  /\ timer' = "expired"
  /\ expired' = TRUE
  /\ UNCHANGED <<pc, cur, dialErr, clientVars, late, readerVars, releaseVars, bufferVars>>

(* A mutant: the callback sets the flag but does not cancel the context. *)
TimerOnlyFlags ==
  /\ timer = "expired"
  /\ timer' = "finished"
  /\ UNCHANGED <<pc, cur, dialErr, clientVars, late, expired, readerVars,
                 releaseVars, bufferVars>>

TimerCancels ==
  /\ timer = "expired"
  /\ timer' = "finished"
  /\ cancelled' = [cancelled EXCEPT ![cur] = TRUE]
  /\ UNCHANGED <<pc, cur, dialErr, clientVars, late, expired, readerVars,
                 closed, stop, bufferVars>>

(* cancelAttempt, called on every way out of an attempt. *)
ReleaseAttempt == cancelled' = [cancelled EXCEPT ![cur] = TRUE]

(* The handler begins an attempt: context, deadline and DoStream's call. *)
BeginAttempt ==
  /\ CandidateStreamContext
  /\ pc' = "dialing"
  /\ dialErr' = "none"
  /\ read' = <<>>
  /\ buf' = <<>>
  /\ bytes' = 0
  /\ failErr' = "none"
  /\ UNCHANGED <<cur, clientVars, prod, held, chan, nread, stErr, releaseVars>>

(* DoStream returns a stream as soon as the upstream answered, or its      *)
(* context is cancelled: transport and HTTP errors surface from Next.      *)
DoStreamOpens ==
  /\ pc = "dialing"
  /\ pc' = "dialed"
  /\ UNCHANGED <<cur, dialErr, clientVars, deadlineVars, readerVars, releaseVars, bufferVars>>

(* DoStream fails while it prepares the request. *)
DoStreamFails ==
  /\ pc = "dialing"
  /\ \E class \in Classes : dialErr' = class
  /\ pc' = "dialed"
  /\ UNCHANGED <<cur, clientVars, deadlineVars, readerVars, releaseVars, bufferVars>>

(* A mutant: the handler does not wait for a callback that already runs. *)
StopOutputDeadlineNoWait ==
  /\ pc = "dialed"
  /\ pc' = "judge"
  /\ timer' = IF timer = "armed" THEN "stopped" ELSE timer
  /\ UNCHANGED <<cur, dialErr, clientVars, late, expired, readerVars,
                 releaseVars, bufferVars>>

(* stopTimer: stop the timer, or wait until its callback has finished. *)
StopOutputDeadline ==
  /\ pc = "dialed"
  /\ timer \in {"armed", "finished"}
  /\ pc' = "judge"
  /\ timer' = IF timer = "armed" THEN "stopped" ELSE timer
  /\ UNCHANGED <<cur, dialErr, clientVars, late, expired, readerVars,
                 releaseVars, bufferVars>>

(* DoStream opened st in time: start the reader goroutine, start collecting. *)
StartReader ==
  /\ prod' = [prod EXCEPT ![cur] = "next"]
  /\ pc' = "collect"
  /\ UNCHANGED <<cur, dialErr, clientVars, deadlineVars, held, chan, nread, read, stErr,
                 releaseVars, bufferVars>>

-----------------------------------------------------------------------------
(* The reader goroutine of candidate c.  It outlives the attempt: the      *)
(* handler may be at a later candidate, or done, when it exits.            *)
ReadEvent(c, k) ==
  /\ prod[c] = "next"
  /\ nread[c] < MaxUp
  /\ prod' = [prod EXCEPT ![c] = "send"]
  /\ held' = [held EXCEPT ![c] = <<k>>]
  /\ nread' = [nread EXCEPT ![c] = @ + 1]
  /\ read' = IF c = cur THEN Append(read, k) ELSE read
  /\ UNCHANGED <<pc, cur, dialErr, clientVars, deadlineVars, chan, stErr,
                 releaseVars, bufferVars>>

(* Next returns false and the goroutine closes steps.  The upstream's HTTP *)
(* status can only surface before any output; a cancelled context or a     *)
(* closed body ends the read at any point.                                 *)
StreamEnds(c, err) ==
  /\ prod[c] = "next"
  /\ \/ err \in {"none", "upstream", "timeout"}
     \/ err \in {"auth", "client"} /\ c = cur /\ \A j \in DOMAIN read : read[j] = "life"
     \/ err = "canceled" /\ (CtxDone(c) \/ closed[c])
  /\ prod' = [prod EXCEPT ![c] = "exit"]
  /\ stErr' = [stErr EXCEPT ![c] = err]
  /\ UNCHANGED <<pc, cur, dialErr, clientVars, deadlineVars, held, chan, nread, read,
                 releaseVars, bufferVars>>

(* A mutant: an event still in the channel is overwritten. *)
SendStepOverwrites(c) ==
  /\ prod[c] = "send"
  /\ chan' = [chan EXCEPT ![c] = held[c]]
  /\ held' = [held EXCEPT ![c] = <<>>]
  /\ prod' = [prod EXCEPT ![c] = "next"]
  /\ UNCHANGED <<pc, cur, dialErr, clientVars, deadlineVars, nread, read, stErr,
                 releaseVars, bufferVars>>

SendStep(c) ==
  /\ prod[c] = "send"
  /\ chan[c] = <<>>
  /\ chan' = [chan EXCEPT ![c] = held[c]]
  /\ held' = [held EXCEPT ![c] = <<>>]
  /\ prod' = [prod EXCEPT ![c] = "next"]
  /\ UNCHANGED <<pc, cur, dialErr, clientVars, deadlineVars, nread, read, stErr,
                 releaseVars, bufferVars>>

ReaderStops(c) ==
  /\ prod[c] = "send"
  /\ stop[c]
  /\ prod' = [prod EXCEPT ![c] = "exit"]
  /\ held' = [held EXCEPT ![c] = <<>>]
  /\ UNCHANGED <<pc, cur, dialErr, clientVars, deadlineVars, chan, nread, read, stErr,
                 releaseVars, bufferVars>>

-----------------------------------------------------------------------------
(* A mutant: a failed precommit leaves its reader goroutine behind. *)
GiveUpLeaky(class) ==
  /\ failErr' = class
  /\ pc' = "failed"
  /\ UNCHANGED stop

(* The precommit loop.  Every failing return closes stopReader (deferred)  *)
(* and reports its class; the handler takes over at pc = "failed".         *)
GiveUp(class) ==
  /\ failErr' = class
  /\ pc' = "failed"
  /\ stop' = [stop EXCEPT ![cur] = TRUE]

(* A mutant: the limits are off by one. *)
BufferOverfull == Len(buf) > MaxEvents \/ bytes > MaxBytes

(* The buffer-limit test at the loop head comes before the select. *)
BufferFull == Len(buf) >= MaxEvents \/ bytes >= MaxBytes

CollectLimit ==
  /\ pc = "collect"
  /\ BufferFull
  /\ GiveUp("timeout")
  /\ UNCHANGED <<cur, dialErr, clientVars, deadlineVars, readerVars, cancelled, closed,
                 buf, bytes>>

(* The deadline, tested at the loop head, in the select and again after a receive. *)
CollectDeadline ==
  /\ pc = "collect"
  /\ late
  /\ GiveUp("timeout")
  /\ UNCHANGED <<cur, dialErr, clientVars, deadlineVars, readerVars, cancelled, closed,
                 buf, bytes>>

(* The first-event timer (only while nothing is buffered) or the idle timer. *)
CollectIdle ==
  /\ pc = "collect"
  /\ ~BufferFull
  /\ GiveUp("timeout")
  /\ UNCHANGED <<cur, dialErr, clientVars, deadlineVars, readerVars, cancelled, closed,
                 buf, bytes>>

CollectCancelled ==
  /\ pc = "collect"
  /\ ~BufferFull
  /\ CtxDone(cur)
  /\ GiveUp("client")
  /\ UNCHANGED <<cur, dialErr, clientVars, deadlineVars, readerVars, cancelled, closed,
                 buf, bytes>>

(* steps is closed: the stream ended before anything meaningful. *)
CollectClosed ==
  /\ pc = "collect"
  /\ ~BufferFull
  /\ ~late
  /\ prod[cur] = "exit"
  /\ chan[cur] = <<>>
  /\ GiveUp(IF stErr[cur] = "none" THEN "upstream" ELSE NormalizeStreamError(stErr[cur]))
  /\ UNCHANGED <<cur, dialErr, clientVars, deadlineVars, readerVars, cancelled, closed,
                 buf, bytes>>

(* A mutant: an empty completion is committed to. *)
JudgementLax(k) ==
  IF k = "failed" THEN "reject"
  ELSE IF IsMeaningfulEvent(k) THEN "commit" ELSE "wait"

(* What the loop does with one received event. *)
Judgement(k) ==
  IF k = "failed" \/ IsEmptyCompletion(k) THEN "reject"
  ELSE IF IsMeaningfulEvent(k) THEN "commit" ELSE "wait"

CollectStep ==
  /\ pc = "collect"
  /\ ~BufferFull
  /\ ~late
  /\ chan[cur] # <<>>
  /\ LET k == Head(chan[cur]) IN
       /\ buf' = Append(buf, k)
       /\ bytes' = bytes + PayloadLen(k)
       /\ \/ /\ Judgement(k) = "reject"
             /\ GiveUp("upstream")
          \/ /\ Judgement(k) = "commit"
             /\ pc' = "commit"
             /\ UNCHANGED <<failErr, stop>>
          \/ /\ Judgement(k) = "wait"
             /\ UNCHANGED <<pc, failErr, stop>>
  /\ chan' = [chan EXCEPT ![cur] = <<>>]
  /\ UNCHANGED <<cur, dialErr, clientVars, deadlineVars, prod, held, nread, read, stErr,
                 cancelled, closed>>

Collect ==
  \/ CollectLimit
  \/ CollectDeadline
  \/ CollectIdle
  \/ CollectCancelled
  \/ CollectClosed
  \/ CollectStep

-----------------------------------------------------------------------------
Timer == TimerFires \/ TimerExpires \/ TimerCancels

Reader(c) ==
  \/ \E k \in Kinds : ReadEvent(c, k)
  \/ \E err \in StreamErrors : StreamEnds(c, err)
  \/ SendStep(c)
  \/ ReaderStops(c)

(* The environment of an attempt and the call to DoStream. *)
Dial ==
  \/ ClientDisconnects
  \/ DeadlinePasses
  \/ Timer
  \/ DoStreamOpens
  \/ DoStreamFails
  \/ StopOutputDeadline

(* What the runtime guarantees: timers fire, a runnable goroutine runs, a  *)
(* read on a cancelled or closed stream returns.  An upstream may stall    *)
(* forever: nothing is assumed of ReadEvent, or of StreamEnds and         *)
(* DoStreamOpens otherwise.                                                *)
ReadUnblocks(c) == (CtxDone(c) \/ closed[c]) /\ StreamEnds(c, "canceled")

DialUnblocks == pc = "dialing" /\ CtxDone(cur) /\ DoStreamOpens

AttemptFairness ==
  /\ WF_attemptVars(DeadlinePasses)
  /\ WF_attemptVars(Timer)
  /\ WF_attemptVars(DialUnblocks \/ StopOutputDeadline)
  /\ WF_attemptVars(Collect)
  /\ \A c \in Cands : WF_attemptVars(ReadUnblocks(c))
  /\ \A c \in Cands : WF_attemptVars(SendStep(c) \/ ReaderStops(c))
=============================================================================
