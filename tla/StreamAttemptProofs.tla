------------------------- MODULE StreamAttemptProofs -------------------------
(***************************************************************************)
(* Facts about one streaming attempt that the proofs of both streaming     *)
(* handlers rest on: types, what the reader goroutine and the precommit    *)
(* loop may change, the shape of the precommit buffer, the life of a       *)
(* reader, that no event is lost on its way to the buffer, and the log of  *)
(* attempt errors.                                                         *)
(***************************************************************************)
EXTENDS StreamAttempt, SequenceTheorems, TLAPS

-----------------------------------------------------------------------------
(* Facts about the data.                                                   *)

(* A non-empty one-slot channel holds an element of its set. *)
LEMMA HeadOfSlot ==
  ASSUME NEW S, NEW x \in SeqUpTo1(S), x # <<>>
  PROVE  Head(x) \in S
BY DEF SeqUpTo1

(* A one-slot channel is a sequence, and if it is not empty, of its head. *)
LEMMA SlotIsSeq ==
  ASSUME NEW S, NEW x \in SeqUpTo1(S)
  PROVE  x \in Seq(S) /\ (x # <<>> => x = <<Head(x)>>)
<1>1. CASE x = <<>>
  BY <1>1
<1>2. CASE x # <<>>
  <2>1. PICK y \in S : x = <<y>>
    BY <1>2 DEF SeqUpTo1
  <2>2. <<y>> \in Seq(S) /\ Head(<<y>>) = y
    OBVIOUS
  <2> QED BY <2>1, <2>2
<1> QED BY <1>1, <1>2

(* Setting one flag of a Boolean array. *)
LEMMA SetFlag ==
  ASSUME NEW f \in [Cands -> BOOLEAN], NEW x
  PROVE  [f EXCEPT ![x] = TRUE] \in [Cands -> BOOLEAN]
OBVIOUS

-----------------------------------------------------------------------------
(* Types.                                                                  *)

(* The initial state of the attempt variables is well typed. *)
LEMMA AttemptInitType == AttemptInit => AttemptTypeOK
<1> SUFFICES ASSUME AttemptInit PROVE AttemptTypeOK
  OBVIOUS
<1>1. /\ clientGone \in BOOLEAN /\ late \in BOOLEAN /\ expired \in BOOLEAN
      /\ cancelled \in [Cands -> BOOLEAN] /\ closed \in [Cands -> BOOLEAN]
      /\ stop \in [Cands -> BOOLEAN]
  BY Zenon DEF AttemptInit
<1>2. /\ pc = "next" /\ cur = 1 /\ timer = "off" /\ dialErr = "none"
      /\ prod = [c \in Cands |-> "idle"] /\ held = [c \in Cands |-> <<>>]
      /\ chan = [c \in Cands |-> <<>>] /\ nread = [c \in Cands |-> 0]
      /\ read = <<>> /\ stErr = [c \in Cands |-> "none"]
      /\ buf = <<>> /\ bytes = 0 /\ failErr = "none"
  BY Zenon DEF AttemptInit
<1> QED
  BY <1>1, <1>2, AttemptAssumption
  DEF AttemptTypeOK, SeqUpTo1, PcStates, Classes, StreamErrors

(* The environment, the deadline and DoStream keep the state well typed. *)
LEMMA DialAttemptType ==
  ASSUME AttemptTypeOK, Dial
  PROVE  AttemptTypeOK'
<1> USE AttemptAssumption DEF AttemptTypeOK, clientVars, deadlineVars, readerVars, releaseVars,
      bufferVars, PcStates
<1>1. CASE ClientDisconnects BY <1>1 DEF ClientDisconnects
<1>2. CASE DeadlinePasses BY <1>2 DEF DeadlinePasses
<1>3. CASE TimerFires BY <1>3 DEF TimerFires
<1>4. CASE TimerExpires BY <1>4 DEF TimerExpires
<1>5. CASE TimerCancels
  <2>1. cancelled' \in [Cands -> BOOLEAN]
    BY <1>5, SetFlag DEF TimerCancels
  <2> QED BY <1>5, <2>1 DEF TimerCancels
<1>6. CASE DoStreamOpens BY <1>6 DEF DoStreamOpens
<1>7. CASE DoStreamFails BY <1>7 DEF DoStreamFails
<1>8. CASE StopOutputDeadline BY <1>8 DEF StopOutputDeadline
<1> QED BY <1>1, <1>2, <1>3, <1>4, <1>5, <1>6, <1>7, <1>8 DEF Dial, Timer

(* So does the reader goroutine of any candidate. *)
LEMMA ReaderAttemptType ==
  ASSUME AttemptTypeOK, NEW c \in Cands, Reader(c)
  PROVE  AttemptTypeOK'
<1> USE AttemptAssumption DEF AttemptTypeOK, clientVars, deadlineVars, readerVars, releaseVars,
      bufferVars
<1>1. ASSUME NEW k \in Kinds, ReadEvent(c, k) PROVE AttemptTypeOK'
  BY <1>1 DEF ReadEvent, SeqUpTo1
<1>2. ASSUME NEW err \in StreamErrors, StreamEnds(c, err) PROVE AttemptTypeOK'
  BY <1>2 DEF StreamEnds
<1>3. CASE SendStep(c) BY <1>3 DEF SendStep, SeqUpTo1
<1>4. CASE ReaderStops(c) BY <1>4 DEF ReaderStops, SeqUpTo1
<1> QED BY <1>1, <1>2, <1>3, <1>4 DEF Reader

(* So does the precommit loop. *)
LEMMA CollectAttemptType ==
  ASSUME AttemptTypeOK, cur \in Cands, Collect
  PROVE  AttemptTypeOK'
<1> USE AttemptAssumption DEF AttemptTypeOK, clientVars, deadlineVars, readerVars, PcStates, Classes
<1>1. ASSUME NEW class \in Classes, GiveUp(class)
      PROVE  /\ stop' \in [Cands -> BOOLEAN]
             /\ failErr' \in Classes \cup {"none"}
             /\ pc' \in PcStates
  BY <1>1, SetFlag DEF GiveUp
<1>2. CASE CollectLimit BY <1>2, <1>1 DEF CollectLimit
<1>3. CASE CollectDeadline BY <1>3, <1>1 DEF CollectDeadline
<1>4. CASE CollectIdle BY <1>4, <1>1 DEF CollectIdle
<1>5. CASE CollectCancelled BY <1>5, <1>1 DEF CollectCancelled
<1>6. CASE CollectClosed
  <2> DEFINE class == IF stErr[cur] = "none" THEN "upstream" ELSE NormalizeStreamError(stErr[cur])
  <2>1. class \in Classes
    BY <1>6 DEF CollectClosed, NormalizeStreamError, StreamErrors
  <2>2. GiveUp(class)
    BY <1>6 DEF CollectClosed
  <2> HIDE DEF class
  <2> QED BY <1>6, <1>1, <2>1, <2>2 DEF CollectClosed
<1>7. CASE CollectStep
  <2> DEFINE k == Head(chan[cur])
  <2>1. k \in Kinds
    BY <1>7, HeadOfSlot DEF CollectStep
  <2>2. /\ buf' \in Seq(Kinds) /\ bytes' \in Nat
        /\ chan' \in [Cands -> SeqUpTo1(Kinds)]
    BY <1>7, <2>1 DEF CollectStep, PayloadLen, SeqUpTo1
  <2>3. /\ stop' \in [Cands -> BOOLEAN]
        /\ failErr' \in Classes \cup {"none"}
        /\ pc' \in PcStates
    BY <1>7, <1>1 DEF CollectStep
  <2> QED BY <1>7, <2>2, <2>3 DEF CollectStep
<1> QED BY <1>2, <1>3, <1>4, <1>5, <1>6, <1>7 DEF Collect

(* So do the beginning of an attempt and the start of its reader. *)
LEMMA BeginAttemptType ==
  ASSUME AttemptTypeOK, BeginAttempt
  PROVE  AttemptTypeOK'
<1>1. <<>> \in Seq(Kinds)
  OBVIOUS
<1>2. read' \in Seq(Kinds) /\ buf' \in Seq(Kinds)
  BY <1>1, Zenon DEF BeginAttempt
<1>3. late' \in BOOLEAN /\ expired' \in BOOLEAN
  BY DEF BeginAttempt, CandidateStreamContext
<1> QED BY <1>2, <1>3
        DEF BeginAttempt, CandidateStreamContext, AttemptTypeOK, clientVars, releaseVars, PcStates

LEMMA StartReaderType ==
  ASSUME AttemptTypeOK, StartReader
  PROVE  AttemptTypeOK'
<1>1. prod' \in [Cands -> {"idle", "next", "send", "exit"}]
  BY DEF StartReader, AttemptTypeOK
<1> QED BY <1>1 DEF StartReader, AttemptTypeOK, clientVars, deadlineVars, releaseVars, bufferVars,
                    PcStates

(* So does leaving an attempt, which only sets flags of its candidate. *)
LEMMA LeaveAttemptType ==
  ASSUME AttemptTypeOK, pc' \in PcStates, cur' \in 1 .. (N + 1),
         cancelled' = cancelled \/ cancelled' = [cancelled EXCEPT ![cur] = TRUE],
         closed' = closed \/ closed' = [closed EXCEPT ![cur] = TRUE],
         stop' = stop \/ stop' = [stop EXCEPT ![cur] = TRUE],
         UNCHANGED <<dialErr, clientVars, deadlineVars, readerVars, bufferVars>>
  PROVE  AttemptTypeOK'
<1>1. /\ cancelled' \in [Cands -> BOOLEAN] /\ closed' \in [Cands -> BOOLEAN]
      /\ stop' \in [Cands -> BOOLEAN]
  BY SetFlag DEF AttemptTypeOK
<1> QED BY <1>1 DEF AttemptTypeOK, clientVars, deadlineVars, readerVars, bufferVars

-----------------------------------------------------------------------------
(* What the steps inside an attempt may change of the control state.       *)

LEMMA ReaderEffect ==
  ASSUME NEW c \in Cands, Reader(c)
  PROVE  UNCHANGED <<pc, cur, dialErr, clientGone, late, timer, expired, cancelled, closed, stop,
                     buf, bytes, failErr>>
BY DEF Reader, ReadEvent, StreamEnds, SendStep, ReaderStops, clientVars, deadlineVars,
       releaseVars, bufferVars

LEMMA DialEffect ==
  ASSUME Dial
  PROVE  /\ UNCHANGED <<cur, prod, held, chan, nread, read, stErr, closed, stop, buf, bytes, failErr>>
         /\ \/ pc' = pc
            \/ pc = "dialing" /\ pc' = "dialed"
            \/ pc = "dialed" /\ pc' = "judge"
         /\ clientGone => clientGone'
         /\ cancelled' = cancelled \/ cancelled' = [cancelled EXCEPT ![cur] = TRUE]
BY DEF Dial, Timer, ClientDisconnects, DeadlinePasses, TimerFires, TimerExpires, TimerCancels,
       DoStreamOpens, DoStreamFails, StopOutputDeadline, clientVars, deadlineVars, readerVars,
       releaseVars, bufferVars

LEMMA CollectEffect ==
  ASSUME AttemptTypeOK, cur \in Cands, Collect
  PROVE  /\ pc = "collect"
         /\ pc' \in {"collect", "failed", "commit"}
         /\ pc' = "failed" => failErr' # "none" /\ stop' = [stop EXCEPT ![cur] = TRUE]
         /\ pc' # "failed" => stop' = stop /\ CollectStep
         /\ CollectStep \/ UNCHANGED <<buf, bytes, chan>>
         /\ UNCHANGED <<cur, dialErr, clientGone, late, timer, expired, cancelled, closed, prod, held,
                        nread, read, stErr>>
<1> USE DEF clientVars, deadlineVars, readerVars, GiveUp
<1>1. CASE CollectClosed
  <2>1. stErr[cur] \in StreamErrors
    BY <1>1 DEF CollectClosed, AttemptTypeOK
  <2> QED BY <1>1, <2>1 DEF CollectClosed, NormalizeStreamError, StreamErrors
<1>2. CASE CollectStep BY <1>2 DEF CollectStep
<1>3. CASE CollectLimit \/ CollectDeadline \/ CollectIdle \/ CollectCancelled
  BY <1>3 DEF CollectLimit, CollectDeadline, CollectIdle, CollectCancelled
<1> QED BY <1>1, <1>2, <1>3 DEF Collect

-----------------------------------------------------------------------------
(* The precommit buffer.                                                   *)

Invisible == {"life", "bulk"}

(* The buffer stays within its limits; it is empty when an attempt starts, *)
(* holds nothing meaningful while it is being filled, and exactly one      *)
(* meaningful event, its last, at the commit.                              *)
BufferInv ==
  /\ Len(buf) <= MaxEvents
  /\ bytes < 2 * MaxBytes
  /\ pc \in {"dialing", "dialed", "judge"} => buf = <<>>
  /\ pc = "collect" => \A j \in DOMAIN buf : buf[j] \in Invisible
  /\ pc = "commit" => /\ buf # <<>>
                      /\ \A j \in 1 .. (Len(buf) - 1) : buf[j] \in Invisible
                      /\ buf[Len(buf)] \in {"delta", "completed", "incomplete"}

LEMMA BufferInit == AttemptInit => BufferInv
<1> SUFFICES ASSUME AttemptInit PROVE BufferInv
  OBVIOUS
<1>1. pc = "next" /\ buf = <<>> /\ bytes = 0
  BY Zenon DEF AttemptInit
<1>2. Len(buf) = 0
  BY <1>1
<1> QED BY <1>1, <1>2, AttemptAssumption DEF BufferInv

(* Between attempts, and while a committed stream is delivered. *)
LEMMA BufferKept ==
  ASSUME BufferInv, UNCHANGED <<buf, bytes>>, pc' \in {"next", "failed", "stream", "finish", "done"}
  PROVE  BufferInv'
BY DEF BufferInv

LEMMA BufferBegins ==
  ASSUME BeginAttempt
  PROVE  BufferInv'
<1>1. buf' = <<>> /\ bytes' = 0 /\ pc' = "dialing"
  BY DEF BeginAttempt
<1>2. Len(buf') = 0
  BY <1>1
<1> QED BY <1>1, <1>2, AttemptAssumption DEF BufferInv

LEMMA BufferStarts ==
  ASSUME BufferInv, pc = "judge", StartReader
  PROVE  BufferInv'
<1>1. buf = <<>> /\ UNCHANGED <<buf, bytes>> /\ pc' = "collect"
  BY DEF BufferInv, StartReader, bufferVars
<1>2. DOMAIN buf' = {}
  BY <1>1
<1> QED BY <1>1, <1>2 DEF BufferInv

(* Receiving an event: the limits were tested before the select, and       *)
(* Judgement lets only an invisible event or a commit through.             *)
LEMMA BufferStep ==
  ASSUME AttemptTypeOK, BufferInv, cur \in Cands, CollectStep
  PROVE  BufferInv'
<1> DEFINE k == Head(chan[cur])
<1>1. k \in AllKinds /\ k \in Kinds
  BY HeadOfSlot, AttemptAssumption DEF CollectStep, AttemptTypeOK
<1>2. /\ buf \in Seq(Kinds) /\ bytes \in Nat /\ MaxBytes \in Nat \ {0} /\ MaxEvents \in Nat
      /\ Len(buf) < MaxEvents /\ bytes < MaxBytes
  BY AttemptAssumption DEF CollectStep, BufferFull, AttemptTypeOK
<1>3. /\ buf' = Append(buf, k) /\ bytes' = bytes + PayloadLen(k)
      /\ pc = "collect" /\ pc' \in {"collect", "failed", "commit"}
      /\ pc' = "commit" => Judgement(k) = "commit"
      /\ pc' = "collect" => Judgement(k) = "wait"
  BY DEF CollectStep, GiveUp
<1>4. /\ Judgement(k) = "commit" => k \in {"delta", "completed", "incomplete"}
      /\ Judgement(k) = "wait" => k \in Invisible
  BY <1>1 DEF Judgement, IsMeaningfulEvent, IsEmptyCompletion, AllKinds, Invisible
<1>5. bytes' < 2 * MaxBytes
  BY <1>2, <1>3 DEF PayloadLen
<1> HIDE DEF k
<1>6. /\ DOMAIN buf = 1 .. Len(buf) /\ Len(buf) \in Nat
      /\ buf' # <<>> /\ Len(buf') = Len(buf) + 1 /\ DOMAIN buf' = 1 .. (Len(buf) + 1)
      /\ \A j \in 1 .. Len(buf) : buf'[j] = buf[j]
      /\ buf'[Len(buf')] = k
  BY <1>1, <1>2, <1>3
<1>7. Len(buf') <= MaxEvents
  BY <1>2, <1>6
<1>8. \A j \in 1 .. Len(buf) : buf'[j] \in Invisible
  BY <1>3, <1>6 DEF BufferInv
<1>9. pc' = "collect" => \A j \in DOMAIN buf' : buf'[j] \in Invisible
  BY <1>3, <1>4, <1>6, <1>8
<1>10. Len(buf') - 1 = Len(buf)
  BY <1>6
<1> QED BY <1>3, <1>4, <1>5, <1>6, <1>7, <1>8, <1>9, <1>10 DEF BufferInv

LEMMA BufferAttempting ==
  ASSUME AttemptTypeOK, BufferInv, pc = "collect" => cur \in Cands,
         Dial \/ Collect \/ \E c \in Cands : Reader(c)
  PROVE  BufferInv'
<1>1. CASE Dial BY <1>1, DialEffect DEF BufferInv
<1>2. CASE Collect
  <2>1. pc = "collect"
    BY <1>2 DEF Collect, CollectLimit, CollectDeadline, CollectIdle, CollectCancelled,
                CollectClosed, CollectStep
  <2>2. CASE CollectStep BY <2>1, <2>2, BufferStep
  <2>3. CASE ~CollectStep BY <1>2, <2>1, <2>3, CollectEffect, BufferKept
  <2> QED BY <2>2, <2>3
<1>3. CASE \E c \in Cands : Reader(c) BY <1>3, ReaderEffect DEF BufferInv
<1> QED BY <1>1, <1>2, <1>3

-----------------------------------------------------------------------------
(* The log of attempt errors, which both handlers keep.                    *)

(* Entry j is about candidate j; it was skipped if and only if j was not   *)
(* called; and a refusal (401/403) is remembered.                          *)
Logged(rows, refused, tried) ==
  \A j \in DOMAIN rows :
    /\ rows[j].cand = j
    /\ rows[j].skipped <=> j \notin tried
    /\ rows[j].class = "auth" => ProviderOf[j] \in refused

(* After a refusal, the later candidates of its provider are skipped. *)
Sticks(rows) ==
  \A j, m \in DOMAIN rows :
    /\ j < m
    /\ rows[j].class = "auth"
    /\ ProviderOf[rows[j].cand] = ProviderOf[rows[m].cand]
    => rows[m].skipped

(* The next candidate's entry may be added to the log: it is skipped, or   *)
(* its provider was not refused before.                                    *)
LEMMA LogAppend ==
  ASSUME NEW S, NEW rows \in Seq(S), NEW e \in S, NEW refused, NEW more, NEW tried,
         Logged(rows, refused, tried), Sticks(rows),
         refused \subseteq more,
         e.cand = Len(rows) + 1,
         e.skipped <=> e.cand \notin tried,
         e.class = "auth" => ProviderOf[e.cand] \in more,
         e.skipped \/ ProviderOf[e.cand] \notin refused
  PROVE  Logged(Append(rows, e), more, tried) /\ Sticks(Append(rows, e))
<1> DEFINE new == Append(rows, e)
           n == Len(rows)
<1>1. /\ n \in Nat
      /\ DOMAIN rows = 1 .. n
      /\ DOMAIN new = 1 .. (n + 1)
      /\ \A j \in 1 .. n : new[j] = rows[j]
      /\ new[n + 1] = e
  OBVIOUS
<1>2. \A j \in DOMAIN new : j \in DOMAIN rows \/ j = n + 1
  BY <1>1
<1>3. e.cand = n + 1
  OBVIOUS
<1> HIDE DEF new, n
<1>4. Logged(new, more, tried)
  BY <1>1, <1>2, <1>3 DEF Logged
<1>5. Sticks(new)
  <2> SUFFICES ASSUME NEW j \in DOMAIN new, NEW m \in DOMAIN new,
                      j < m, new[j].class = "auth",
                      ProviderOf[new[j].cand] = ProviderOf[new[m].cand]
               PROVE  new[m].skipped
    BY DEF Sticks
  <2>1. j \in DOMAIN rows /\ new[j] = rows[j]
    BY <1>1
  <2>2. CASE m \in DOMAIN rows
    BY <1>1, <2>1, <2>2 DEF Sticks
  <2>3. CASE m = n + 1
    <3>1. ProviderOf[rows[j].cand] \in refused
      BY <2>1 DEF Logged
    <3> QED BY <1>1, <2>1, <2>3, <3>1
  <2> QED BY <1>2, <2>2, <2>3
<1> QED BY <1>4, <1>5 DEF new

(* Calling the candidate after the last entry concerns no entry. *)
LEMMA LogCall ==
  ASSUME NEW S, NEW rows \in Seq(S), NEW refused, NEW tried, NEW c, c = Len(rows) + 1,
         Logged(rows, refused, tried)
  PROVE  Logged(rows, refused, tried \cup {c})
<1>1. \A j \in DOMAIN rows : j # c
  OBVIOUS
<1> QED BY <1>1 DEF Logged

(* A full log tells whether any candidate was called. *)
LEMMA LogComplete ==
  ASSUME NEW S, NEW rows \in Seq(S), NEW refused, NEW tried, tried \subseteq Cands,
         Len(rows) = N, Logged(rows, refused, tried)
  PROVE  (\A j \in DOMAIN rows : rows[j].skipped) <=> tried = {}
<1>1. DOMAIN rows = Cands
  BY DEF Cands
<1> QED BY <1>1 DEF Logged

-----------------------------------------------------------------------------
(* The reader goroutines.                                                  *)

Dialing == {"next", "dialing", "dialed", "judge"}

(* The reader of c was not started yet. *)
NotStarted(c) == c > cur \/ (c = cur /\ pc \in Dialing)

(* A reader that was not started is idle and holds nothing; a reader has   *)
(* an event in its hand only while it sends; st.Err is read off a reader   *)
(* that exited.                                                            *)
ReaderInv ==
  \A c \in Cands :
    /\ NotStarted(c) => prod[c] = "idle" /\ held[c] = <<>> /\ chan[c] = <<>>
    /\ prod[c] # "send" => held[c] = <<>>
    /\ stErr[c] # "none" => prod[c] = "exit"

(* st is not closed, nor its reader told to stop, before its stream is     *)
(* left; a read that was cancelled has a reason; and a precommit failure   *)
(* blamed on the client is the client's, or the upstream said so.          *)
BlameInv ==
  /\ \A c \in Cands :
       /\ c > cur \/ (c = cur /\ pc \in Dialing \cup {"collect", "failed", "commit", "stream"})
            => ~closed[c]
       /\ c > cur \/ (c = cur /\ pc \in Dialing \cup {"collect", "commit", "stream"})
            => ~stop[c]
       /\ stErr[c] = "canceled" => clientGone \/ cancelled[c] \/ closed[c]
  /\ pc = "failed" /\ failErr = "client" => clientGone \/ stErr[cur] = "client"

LEMMA ReaderInit == AttemptInit => ReaderInv /\ BlameInv
<1> SUFFICES ASSUME AttemptInit PROVE ReaderInv /\ BlameInv
  OBVIOUS
<1>1. /\ pc = "next"
      /\ \A c \in Cands : ~closed[c] /\ ~stop[c] /\ prod[c] = "idle" /\ stErr[c] = "none"
  BY DEF AttemptInit
<1>2. \A c \in Cands : held[c] = <<>> /\ chan[c] = <<>>
  BY Zenon DEF AttemptInit
<1>3. ReaderInv
  BY <1>1, <1>2 DEF ReaderInv
<1>4. BlameInv
  BY <1>1 DEF BlameInv
<1> QED BY <1>3, <1>4

(* The handler moves on: to the next candidate, or to a control point that *)
(* no longer belongs to the dialing of cur.                                *)
HandlerMoves ==
  \/ cur' = cur + 1 /\ pc' = "next"
  \/ cur' = cur /\ (pc' \in Dialing => pc \in Dialing)

LEMMA ReaderMoves ==
  ASSUME AttemptTypeOK, ReaderInv, HandlerMoves, UNCHANGED <<prod, held, stErr>>,
         chan' = chan \/ chan' = [chan EXCEPT ![cur] = <<>>]
  PROVE  ReaderInv'
<1> SUFFICES ASSUME NEW c \in Cands
             PROVE  /\ NotStarted(c)' => prod'[c] = "idle" /\ held'[c] = <<>> /\ chan'[c] = <<>>
                    /\ prod'[c] # "send" => held'[c] = <<>>
                    /\ stErr'[c] # "none" => prod'[c] = "exit"
  BY DEF ReaderInv
<1>1. cur \in Nat /\ c \in Nat
  BY DEF AttemptTypeOK, Cands
<1>2. NotStarted(c)' => NotStarted(c)
  BY <1>1 DEF NotStarted, HandlerMoves, Dialing
<1>3. chan'[c] = chan[c] \/ chan'[c] = <<>>
  BY DEF AttemptTypeOK
<1> QED BY <1>2, <1>3 DEF ReaderInv

LEMMA ReaderSteps ==
  ASSUME AttemptTypeOK, ReaderInv, NEW d \in Cands, Reader(d)
  PROVE  ReaderInv'
<1> SUFFICES ASSUME NEW c \in Cands
             PROVE  /\ NotStarted(c)' => prod'[c] = "idle" /\ held'[c] = <<>> /\ chan'[c] = <<>>
                    /\ prod'[c] # "send" => held'[c] = <<>>
                    /\ stErr'[c] # "none" => prod'[c] = "exit"
  BY DEF ReaderInv
<1>1. NotStarted(c)' = NotStarted(c)
  BY ReaderEffect DEF NotStarted
<1>2. prod[d] \in {"next", "send"} /\ ~NotStarted(d)
  BY DEF Reader, ReadEvent, StreamEnds, SendStep, ReaderStops, ReaderInv
<1>3. CASE c # d
  <2>1. prod'[c] = prod[c] /\ held'[c] = held[c] /\ chan'[c] = chan[c] /\ stErr'[c] = stErr[c]
    BY <1>3 DEF Reader, ReadEvent, StreamEnds, SendStep, ReaderStops, AttemptTypeOK
  <2> QED BY <1>1, <2>1 DEF ReaderInv
<1>4. CASE c = d
  <2>1. stErr[d] = "none"
    BY <1>2 DEF ReaderInv
  <2>2. ASSUME NEW k \in Kinds, ReadEvent(d, k)
        PROVE  prod'[d] = "send" /\ stErr'[d] = "none"
    BY <2>1, <2>2 DEF ReadEvent, AttemptTypeOK
  <2>3. ASSUME NEW err \in StreamErrors, StreamEnds(d, err)
        PROVE  prod'[d] = "exit" /\ held'[d] = <<>>
    BY <2>3 DEF StreamEnds, AttemptTypeOK, ReaderInv
  <2>4. ASSUME SendStep(d)
        PROVE  prod'[d] = "next" /\ held'[d] = <<>> /\ stErr'[d] = "none"
    BY <2>1, <2>4 DEF SendStep, AttemptTypeOK
  <2>5. ASSUME ReaderStops(d)
        PROVE  prod'[d] = "exit" /\ held'[d] = <<>>
    BY <2>5 DEF ReaderStops, AttemptTypeOK
  <2>6. \/ prod'[d] = "send" /\ stErr'[d] = "none"
        \/ prod'[d] = "exit" /\ held'[d] = <<>>
        \/ prod'[d] = "next" /\ held'[d] = <<>> /\ stErr'[d] = "none"
    BY <2>2, <2>3, <2>4, <2>5 DEF Reader
  <2> QED BY <1>1, <1>2, <1>4, <2>6
<1> QED BY <1>3, <1>4

LEMMA ReaderStarts ==
  ASSUME AttemptTypeOK, ReaderInv, pc = "judge", StartReader, cur \in Cands
  PROVE  ReaderInv'
<1> SUFFICES ASSUME NEW c \in Cands
             PROVE  /\ NotStarted(c)' => prod'[c] = "idle" /\ held'[c] = <<>> /\ chan'[c] = <<>>
                    /\ prod'[c] # "send" => held'[c] = <<>>
                    /\ stErr'[c] # "none" => prod'[c] = "exit"
  BY DEF ReaderInv
<1>1. UNCHANGED <<cur, held, chan, stErr>> /\ pc' = "collect"
  BY DEF StartReader
<1>2. cur \in Nat /\ c \in Nat
  BY DEF AttemptTypeOK, Cands
<1>3. NotStarted(cur) /\ (NotStarted(c)' => NotStarted(c) /\ c # cur)
  BY <1>1, <1>2 DEF NotStarted, Dialing
<1>4. prod'[cur] = "next" /\ held[cur] = <<>> /\ stErr[cur] = "none"
  BY <1>3 DEF StartReader, AttemptTypeOK, ReaderInv
<1>5. c # cur => prod'[c] = prod[c]
  BY DEF StartReader, AttemptTypeOK
<1> QED BY <1>1, <1>3, <1>4, <1>5 DEF ReaderInv

LEMMA ReaderAttempting ==
  ASSUME AttemptTypeOK, ReaderInv, pc = "collect" => cur \in Cands,
         Dial \/ Collect \/ \E c \in Cands : Reader(c)
  PROVE  ReaderInv'
<1>1. CASE Dial
  <2>1. HandlerMoves
    BY <1>1, DialEffect DEF HandlerMoves, Dialing
  <2>2. UNCHANGED <<prod, held, stErr, chan>>
    BY <1>1, DialEffect
  <2> QED BY <2>1, <2>2, ReaderMoves
<1>2. CASE Collect
  <2>1. pc = "collect"
    BY <1>2 DEF Collect, CollectLimit, CollectDeadline, CollectIdle, CollectCancelled,
                CollectClosed, CollectStep
  <2>2. HandlerMoves
    BY <1>2, <2>1, CollectEffect DEF HandlerMoves, Dialing
  <2>3. UNCHANGED <<prod, held, stErr>> /\ (chan' = chan \/ chan' = [chan EXCEPT ![cur] = <<>>])
    BY <1>2, <2>1, CollectEffect DEF CollectStep
  <2> QED BY <2>2, <2>3, ReaderMoves
<1>3. CASE \E c \in Cands : Reader(c) BY <1>3, ReaderSteps
<1> QED BY <1>1, <1>2, <1>3

(* Blame: the handler leaves cur, or ends its stream. *)
LEMMA BlameMoves ==
  ASSUME AttemptTypeOK, BlameInv, UNCHANGED stErr, clientGone => clientGone',
         \A c \in Cands : cancelled[c] => cancelled'[c],
         closed' = closed \/ closed' = [closed EXCEPT ![cur] = TRUE],
         stop' = stop \/ stop' = [stop EXCEPT ![cur] = TRUE],
         \/ cur' = cur + 1 /\ pc' = "next"
         \/ cur' = cur /\ pc' \in {"finish", "done"}
  PROVE  BlameInv'
<1>1. pc' # "failed"
  OBVIOUS
<1> SUFFICES ASSUME NEW c \in Cands
             PROVE  /\ c > cur' \/ (c = cur' /\ pc' = "next") => ~closed'[c]
                    /\ c > cur' \/ (c = cur' /\ pc' = "next") => ~stop'[c]
                    /\ stErr'[c] = "canceled" => clientGone' \/ cancelled'[c] \/ closed'[c]
  BY <1>1 DEF BlameInv, Dialing
<1>2. cur \in Nat /\ c \in Nat
  BY DEF AttemptTypeOK, Cands
<1>3. c > cur' \/ (c = cur' /\ pc' = "next") => c > cur /\ c # cur
  BY <1>2
<1>4. c # cur => closed'[c] = closed[c] /\ stop'[c] = stop[c]
  BY DEF AttemptTypeOK
<1>5. closed[c] => closed'[c]
  BY DEF AttemptTypeOK
<1> QED BY <1>3, <1>4, <1>5 DEF BlameInv

(* Blame: the handler stays with cur, whose stream is not left. *)
LEMMA BlameStays ==
  ASSUME BlameInv, UNCHANGED <<cur, stErr, closed, stop>>, clientGone => clientGone',
         \A c \in Cands : cancelled[c] => cancelled'[c],
         pc \in Dialing \cup {"collect", "commit", "stream"} \/ pc' = pc,
         pc' \in Dialing \cup {"collect", "commit", "stream"} \/ (pc' = pc /\ failErr' = failErr)
  PROVE  BlameInv'
BY DEF BlameInv, Dialing

LEMMA BlameReader ==
  ASSUME AttemptTypeOK, ReaderInv, BlameInv, pc = "failed" => cur \in Cands,
         NEW d \in Cands, Reader(d)
  PROVE  BlameInv'
<1>1. UNCHANGED <<pc, cur, clientGone, cancelled, closed, stop, failErr>>
  BY ReaderEffect
<1>2. \A c \in Cands : stErr'[c] = "canceled" => clientGone \/ cancelled[c] \/ closed[c]
  BY DEF Reader, ReadEvent, StreamEnds, SendStep, ReaderStops, CtxDone, BlameInv, AttemptTypeOK
<1>3. \A c \in Cands : stErr[c] = "client" => stErr'[c] = "client"
  BY DEF Reader, ReadEvent, StreamEnds, SendStep, ReaderStops, ReaderInv, AttemptTypeOK
<1> QED BY <1>1, <1>2, <1>3 DEF BlameInv

(* Blame: the precommit loop fails.  Its own context was not cancelled, so *)
(* a cancelled read means that the client left.                            *)
LEMMA BlameCollect ==
  ASSUME AttemptTypeOK, BlameInv, cur \in Cands, ~cancelled[cur], Collect
  PROVE  BlameInv'
<1>1. /\ pc = "collect" /\ pc' \in {"collect", "failed", "commit"}
      /\ UNCHANGED <<cur, clientGone, cancelled, closed, stErr>>
      /\ pc' = "failed" => stop' = [stop EXCEPT ![cur] = TRUE]
      /\ pc' # "failed" => stop' = stop
  BY CollectEffect
<1>2. ~closed[cur]
  BY <1>1 DEF BlameInv
<1>3. pc' = "failed" /\ failErr' = "client" => clientGone \/ stErr[cur] = "client"
  <2>1. CASE CollectClosed
    BY <1>2, <2>1 DEF CollectClosed, GiveUp, NormalizeStreamError, BlameInv
  <2>2. CASE CollectCancelled
    BY <2>2 DEF CollectCancelled, CtxDone
  <2>3. CASE CollectStep
    <3>1. pc' = "failed" => failErr' = "upstream"
      BY <1>1, <2>3 DEF CollectStep, GiveUp
    <3> QED BY <3>1
  <2>4. CASE CollectLimit \/ CollectDeadline \/ CollectIdle
    BY <2>4 DEF CollectLimit, CollectDeadline, CollectIdle, GiveUp
  <2> QED BY <2>1, <2>2, <2>3, <2>4 DEF Collect
<1>4. \A c \in Cands : c # cur => stop'[c] = stop[c]
  BY <1>1 DEF AttemptTypeOK
<1>5. \A c \in Cands : c > cur => c # cur
  BY DEF Cands
<1> QED BY <1>1, <1>3, <1>4, <1>5 DEF BlameInv, Dialing

LEMMA BlameAttempting ==
  ASSUME AttemptTypeOK, ReaderInv, BlameInv,
         pc \in {"collect", "failed"} => cur \in Cands,
         pc = "collect" => ~cancelled[cur],
         Dial \/ Collect \/ \E c \in Cands : Reader(c)
  PROVE  BlameInv'
<1>1. CASE Dial
  <2>1. \A c \in Cands : cancelled[c] => cancelled'[c]
    BY <1>1, DialEffect DEF AttemptTypeOK
  <2> QED BY <1>1, <2>1, DialEffect, BlameStays DEF Dialing
<1>2. CASE Collect
  <2>1. pc = "collect"
    BY <1>2 DEF Collect, CollectLimit, CollectDeadline, CollectIdle, CollectCancelled,
                CollectClosed, CollectStep
  <2> QED BY <1>2, <2>1, BlameCollect
<1>3. CASE \E c \in Cands : Reader(c) BY <1>3, BlameReader
<1> QED BY <1>1, <1>2, <1>3

-----------------------------------------------------------------------------
(* The way of an event: reader's hand, channel, buffer or client.          *)

(* Reading, sending and receiving keep the concatenation. *)
LEMMA ConcatRead ==
  ASSUME NEW S, NEW f \in Seq(S), NEW g \in Seq(S), NEW k \in S
  PROVE  f \o g \o <<k>> = Append(f \o g \o <<>>, k)
<1>1. f \o g \in Seq(S)
  BY ConcatProperties
<1>2. f \o g \o <<>> = f \o g
  BY <1>1, ConcatEmptySeq
<1> QED BY <1>1, <1>2, AppendIsConcat

LEMMA ConcatSend ==
  ASSUME NEW S, NEW f \in Seq(S), NEW h \in Seq(S)
  PROVE  f \o h \o <<>> = f \o <<>> \o h
<1>1. f \o h \in Seq(S)
  BY ConcatProperties
<1>2. f \o h \o <<>> = f \o h
  BY <1>1, ConcatEmptySeq
<1>3. f \o <<>> = f
  BY ConcatEmptySeq
<1> QED BY <1>2, <1>3

LEMMA ConcatReceive ==
  ASSUME NEW S, NEW f \in Seq(S), NEW k \in S, NEW h \in Seq(S)
  PROVE  Append(f, k) \o <<>> \o h = f \o <<k>> \o h
<1>1. Append(f, k) = f \o <<k>> /\ Append(f, k) \in Seq(S)
  BY AppendIsConcat, AppendProperties
<1>2. Append(f, k) \o <<>> = Append(f, k)
  BY <1>1, ConcatEmptySeq
<1> QED BY <1>1, <1>2

(* A reader step keeps front \o channel \o hand equal to what was read of  *)
(* the current stream, whatever front is, unless its reader was told to    *)
(* stop.                                                                   *)
LEMMA ReaderLosesNothing ==
  ASSUME AttemptTypeOK, ReaderInv, cur \in Cands, ~stop[cur],
         NEW S, Kinds \subseteq S, NEW f \in Seq(S),
         f \o chan[cur] \o held[cur] = read,
         NEW d \in Cands, Reader(d)
  PROVE  f \o chan'[cur] \o held'[cur] = read'
<1>1. /\ chan[cur] \in SeqUpTo1(Kinds) /\ held[cur] \in SeqUpTo1(Kinds)
  BY DEF AttemptTypeOK
<1>2. chan[cur] \in Seq(Kinds) /\ held[cur] \in Seq(Kinds)
  BY <1>1, SlotIsSeq
<1>3. chan[cur] \in Seq(S) /\ held[cur] \in Seq(S)
  BY <1>2, SeqMonotonic
<1>4. CASE d # cur
  <2>1. chan'[cur] = chan[cur] /\ held'[cur] = held[cur] /\ read' = read
    BY <1>4 DEF Reader, ReadEvent, StreamEnds, SendStep, ReaderStops, AttemptTypeOK
  <2> QED BY <2>1
<1>5. CASE d = cur
  <2>1. ASSUME NEW k \in Kinds, ReadEvent(cur, k)
        PROVE  f \o chan'[cur] \o held'[cur] = read'
    <3>1. held[cur] = <<>>
      BY <2>1 DEF ReadEvent, ReaderInv
    <3>2. chan'[cur] = chan[cur] /\ held'[cur] = <<k>> /\ read' = Append(read, k)
      BY <2>1 DEF ReadEvent, AttemptTypeOK
    <3>3. f \o chan[cur] \o <<k>> = Append(f \o chan[cur] \o <<>>, k)
      BY <1>3, ConcatRead
    <3> QED BY <3>1, <3>2, <3>3
  <2>2. ASSUME NEW err \in StreamErrors, StreamEnds(cur, err)
        PROVE  f \o chan'[cur] \o held'[cur] = read'
    BY <2>2 DEF StreamEnds
  <2>3. ASSUME SendStep(cur)
        PROVE  f \o chan'[cur] \o held'[cur] = read'
    <3>1. chan[cur] = <<>> /\ chan'[cur] = held[cur] /\ held'[cur] = <<>> /\ read' = read
      BY <2>3 DEF SendStep, AttemptTypeOK
    <3>2. f \o held[cur] \o <<>> = f \o <<>> \o held[cur]
      BY <1>3, ConcatSend
    <3> QED BY <3>1, <3>2
  <2>4. ~ReaderStops(cur)
    BY DEF ReaderStops
  <2> QED BY <1>5, <2>1, <2>2, <2>3, <2>4 DEF Reader
<1> QED BY <1>4, <1>5

(* So does receiving: the event leaves the channel for the end of front. *)
LEMMA ReceiveLosesNothing ==
  ASSUME AttemptTypeOK, cur \in Cands, chan[cur] # <<>>,
         NEW S, Kinds \subseteq S, NEW f \in Seq(S),
         f \o chan[cur] \o held[cur] = read,
         chan' = [chan EXCEPT ![cur] = <<>>], UNCHANGED <<held, read>>
  PROVE  Append(f, Head(chan[cur])) \o chan'[cur] \o held'[cur] = read'
<1> DEFINE k == Head(chan[cur])
<1>1. chan[cur] \in SeqUpTo1(Kinds) /\ held[cur] \in SeqUpTo1(Kinds)
  BY DEF AttemptTypeOK
<1>2. chan[cur] = <<k>> /\ k \in S
  BY <1>1, SlotIsSeq, HeadOfSlot
<1>3. held[cur] \in Seq(S)
  BY <1>1, SlotIsSeq, SeqMonotonic
<1>4. chan'[cur] = <<>>
  BY DEF AttemptTypeOK
<1> HIDE DEF k
<1>5. Append(f, k) \o <<>> \o held[cur] = f \o <<k>> \o held[cur]
  <2>1. k \in S
    BY <1>2
  <2>2. \A h \in Seq(S) : Append(f, k) \o <<>> \o h = f \o <<k>> \o h
    BY <2>1, ConcatReceive
  <2> QED BY <1>3, <2>2
<1>6. Append(f, k) \o chan'[cur] \o held'[cur] = read'
  BY <1>2, <1>4, <1>5
<1> QED BY <1>6 DEF k

(* Until the commit, the buffer is the front. *)
CollectPipe ==
  /\ pc \in {"dialing", "dialed", "judge"} => read = <<>>
  /\ pc \in {"collect", "commit"} => buf \o chan[cur] \o held[cur] = read

LEMMA PipeStarts ==
  ASSUME AttemptTypeOK, ReaderInv, BufferInv, CollectPipe, pc = "judge", cur \in Cands, StartReader
  PROVE  CollectPipe'
<1>1. buf = <<>> /\ read = <<>>
  BY DEF BufferInv, CollectPipe
<1>2. chan[cur] = <<>> /\ held[cur] = <<>>
  BY DEF ReaderInv, NotStarted, Dialing
<1>3. UNCHANGED <<cur, chan, held, read, buf>> /\ pc' = "collect"
  BY DEF StartReader, bufferVars
<1>4. <<>> \o <<>> \o <<>> = <<>>
  <2>1. <<>> \in Seq(Kinds)
    OBVIOUS
  <2>2. <<>> \o <<>> = <<>>
    BY <2>1, ConcatEmptySeq
  <2> QED BY <2>2
<1>5. buf' \o chan'[cur'] \o held'[cur'] = read'
  BY <1>1, <1>2, <1>3, <1>4
<1> QED BY <1>3, <1>5 DEF CollectPipe

LEMMA PipeAttempting ==
  ASSUME AttemptTypeOK, ReaderInv, BlameInv, CollectPipe,
         pc \in {"dialing", "dialed", "judge", "collect", "commit"} => cur \in Cands,
         Dial \/ Collect \/ \E c \in Cands : Reader(c)
  PROVE  CollectPipe'
<1>0. buf \in Seq(Kinds)
  BY DEF AttemptTypeOK
<1>1. CASE Dial BY <1>1, DialEffect DEF CollectPipe
<1>2. CASE Collect
  <2>1. pc = "collect" /\ cur \in Cands
    BY <1>2 DEF Collect, CollectLimit, CollectDeadline, CollectIdle, CollectCancelled,
                CollectClosed, CollectStep
  <2>2. cur' = cur /\ pc' \in {"collect", "failed", "commit"} /\ (pc' # "failed" => CollectStep)
    BY <1>2, <2>1, CollectEffect
  <2>3. ASSUME CollectStep
        PROVE  buf' \o chan'[cur] \o held'[cur] = read'
    <3>1. buf \o chan[cur] \o held[cur] = read
      BY <2>1 DEF CollectPipe
    <3>2. /\ buf' = Append(buf, Head(chan[cur])) /\ chan' = [chan EXCEPT ![cur] = <<>>]
          /\ chan[cur] # <<>> /\ UNCHANGED <<held, read>>
      BY <2>3 DEF CollectStep
    <3> QED BY <1>0, <2>1, <3>1, <3>2, ReceiveLosesNothing
  <2> QED BY <2>2, <2>3 DEF CollectPipe
<1>3. ASSUME NEW d \in Cands, Reader(d)
      PROVE  CollectPipe'
  <2>1. UNCHANGED <<pc, cur, buf>>
    BY <1>3, ReaderEffect
  <2>2. CASE pc \in {"collect", "commit"}
    <3>1. ~stop[cur] /\ buf \o chan[cur] \o held[cur] = read /\ cur \in Cands
      BY <2>2 DEF BlameInv, CollectPipe
    <3>2. buf \o chan'[cur] \o held'[cur] = read'
      BY <1>0, <1>3, <3>1, ReaderLosesNothing
    <3> QED BY <2>1, <2>2, <3>2 DEF CollectPipe
  <2>3. CASE pc \in {"dialing", "dialed", "judge"}
    <3>1. prod[cur] = "idle" /\ cur \in Cands
      BY <2>3 DEF ReaderInv, NotStarted, Dialing
    <3>2. d # cur
      BY <1>3, <3>1 DEF Reader, ReadEvent, StreamEnds, SendStep, ReaderStops
    <3>3. read' = read
      BY <1>3, <3>2 DEF Reader, ReadEvent, StreamEnds, SendStep, ReaderStops
    <3> QED BY <2>1, <2>3, <3>3 DEF CollectPipe
  <2>4. CASE pc \notin {"dialing", "dialed", "judge", "collect", "commit"}
    BY <2>1, <2>4 DEF CollectPipe
  <2> QED BY <2>2, <2>3, <2>4
<1> QED BY <1>1, <1>2, <1>3

-----------------------------------------------------------------------------
(* The errors a handler blames the client with are not overwritten.        *)
LEMMA BlameStands ==
  ASSUME AttemptTypeOK, ReaderInv, pc = "done",
         Dial \/ Collect \/ \E c \in Cands : Reader(c)
  PROVE  /\ dialErr' = dialErr
         /\ \A c \in Cands : stErr[c] = "client" => stErr'[c] = "client"
<1>1. CASE Dial
  <2>1. dialErr' = dialErr
    BY <1>1 DEF Dial, Timer, ClientDisconnects, DeadlinePasses, TimerFires, TimerExpires,
                TimerCancels, DoStreamOpens, DoStreamFails, StopOutputDeadline
  <2> QED BY <1>1, <2>1, DialEffect
<1>2. CASE Collect
  BY <1>2 DEF Collect, CollectLimit, CollectDeadline, CollectIdle, CollectCancelled,
              CollectClosed, CollectStep
<1>3. ASSUME NEW d \in Cands, Reader(d)
      PROVE  /\ dialErr' = dialErr
             /\ \A c \in Cands : stErr[c] = "client" => stErr'[c] = "client"
  <2>1. dialErr' = dialErr
    BY <1>3, ReaderEffect
  <2>2. \A c \in Cands : stErr[c] = "client" => stErr'[c] = "client"
    BY <1>3, SMTT(30) DEF Reader, ReadEvent, StreamEnds, SendStep, ReaderStops, ReaderInv, AttemptTypeOK
  <2> QED BY <2>1, <2>2
<1> QED BY <1>1, <1>2, <1>3

(* Putting an element in front of a sequence, and dropping it again. *)
LEMMA TailOfCons ==
  ASSUME NEW S, NEW x \in S, NEW s \in Seq(S)
  PROVE  Tail(<<x>> \o s) = s
<1> DEFINE t == <<x>> \o s
<1>1. <<x>> \in Seq(S) /\ Len(<<x>>) = 1
  OBVIOUS
<1>2. /\ t \in Seq(S) /\ Len(t) = 1 + Len(s) /\ Len(s) \in Nat
      /\ \A i \in 1 .. (1 + Len(s)) : t[i] = IF i <= 1 THEN <<x>>[i] ELSE s[i - 1]
  BY <1>1, ConcatProperties, LenProperties
<1> HIDE DEF t
<1>3. t # <<>>
  BY <1>2
<1>4. /\ Tail(t) \in Seq(S) /\ Len(Tail(t)) = Len(s)
      /\ \A i \in 1 .. Len(s) : Tail(t)[i] = t[i + 1]
  BY <1>2, <1>3, HeadTailProperties
<1>5. \A i \in 1 .. Len(s) : t[i + 1] = s[i]
  BY <1>2
<1>6. \A i \in 1 .. Len(s) : Tail(t)[i] = s[i]
  BY <1>4, <1>5
<1> QED BY <1>4, <1>6, SeqEqual DEF t
=============================================================================
