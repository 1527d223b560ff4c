# A TLA+ verification project for sleepyrouter

sleepyrouter is a local gateway between coding agents and LLM providers. It
accepts the OpenAI Responses API (`POST /v1/responses`) and the Anthropic
Messages API (`POST /v1/messages`), resolves the requested model or group to
an ordered list of *candidates* (a model of a provider), and tries them one by
one until one of them produces output. Everything interesting happens at the
edges of that loop: a stream may only be failed over before its first visible
output, several timers and the client's disconnect race with the upstream, and
the configuration may be replaced while requests run.

This directory holds TLA+ modules translated from the Go source, TLC
configurations that check them on small instances, and TLAPS proofs of the
main results for every value of the constants. `PROJECT.json` maps every
definition to the lines it models.

## 1. Inventory

| Part | State it keeps | Operations | Hard behaviour |
|---|---|---|---|
| Streaming attempt (`server/stream_timeout.go`, first half of `precommitAndStream*`) | attempt context, first-output timer and its `expired` flag, one-slot channel, precommit buffer | start the attempt, `DoStream`, stop the timer, read events, buffer until the first meaningful one | the timer callback races with `DoStream`'s return; the reader goroutine outlives the attempt; a `select` over six sources |
| Responses streaming handler (`server/responses_stream.go`) | attempts, providers that refused their key, SSE output, usage row, affinity entry | skip, try, fail over, commit, forward, end | no retry after a commit; exactly one status and one terminal event on every exit |
| Messages streaming handler (`server/messages_stream.go`, `protocol/anthropic/stream.go`) | the same, plus the encoder's terminal and success flags and the reasoning continuation | the same, plus pings and encoding | pings race with the last event; a continuation is stored only after a complete answer |
| Responses non-streaming handler (`protocol/openai/handler.go`, `server/responses.go`) | attempts, one request-wide timeout | skip, call, fail over, answer | the shared timeout and the client's disconnect look the same to the loop |
| Messages non-streaming handler (`server/messages.go`) | attempts, a timeout per candidate | the same, plus the mapping of the answer | an answer that cannot be mapped is failed over |
| Hot reload (`config/watch.go`, `config/snapshot.go`, `cmd/sleepyrouter/main.go`) | the two files, the debounce timer, the generation counter, the active snapshot | file event, debounce, load, parse, validate, swap; `Current()` in middleware and handlers | edits during a reload; two files read one after the other; requests that straddle a swap |
| Reasoning continuations (`server/continuation.go`) | a cache with expiry, bounded in entries and bytes | store, load, purge, evict | two limits, expiry and replacement in one critical section |
| Response affinity (`state/memory.go`, `resolveWithAffinity`) | response id to provider and model, with expiry | set, get | check and delete under two locks; entries older than the configuration they are used with |
| Usage store (`usage/store.go`) | a queue of 1024 closures, one writer goroutine, SQLite | record, insert, close | dropped, partial or unwritten records around a full queue and a shutdown |
| Routing and error classes (`routing/*.go`, `config/validate.go`) | none | validate, resolve, filter, classify | capability filters; references that only validation makes safe |
| Request translation (`protocol/anthropic/request.go`, `upstream.go`, `upstream/chatcompat.go`) | none; reads the continuation cache | validate, derive requirements, translate twice | order and adjacency of turns, calls and results; reasoning put back where it belongs; what the first step accepts the second must accept |
| Anthropic encoder, chat-completions adapter (`protocol/anthropic/stream.go`, `protocol/openai/chat_stream.go`) | open blocks and items, indices | one handler per event kind | blocks must open and close in order whatever the upstream interleaves |
| Hoard and console traces (`server/hoard.go`, `consoletrace/trace.go`) | the routing trace, the terminal's open block | record, print | deltas of concurrent requests on one terminal |
| Client pool, HTTP plumbing, CLI | none of its own | mapping and formatting | not modelled, see section 8 |

How the parts interact. `authMiddleware` and the handler each read the active
snapshot. The handler resolves candidates and calls one of the four loops. A
streaming loop runs one *attempt* per candidate: a context with a timer, the
SDK's `DoStream`, a goroutine that is the only reader of the stream, and a
one-slot channel from that goroutine to the handler. After the first meaningful
event the handler *commits*: it writes the 200 and may no longer fail over. At
its end it writes the affinity entry or the continuation and hands one record
to the usage store.

What makes it correct, in the order of importance:

1. candidates are tried in the configured order, each at most once, and never
   after a commit or an answer (`FailoverSpec`);
2. every client that is still there gets one status, and a committed stream
   one terminal event (`RoutingInv`, `AnsweredOnce`, `TerminatedOnce`);
3. the gateway's own deadlines fail over and are never blamed on the client
   or inflicted on a healthy stream (`HonestStatus`,
   `MessagesTimeoutFailsOver`, `HealthyNotCancelled` as a part of `IInv`);
4. no event is lost between the precommit and the post-commit loop
   (`NoEventLost`);
5. every request ends and leaves no upstream call or goroutine behind
   (`RequestEnds`, `RoutingInv`), whatever the usage writer does
   (`RequestsEnd`);
6. usage, affinity and continuations describe what the client got
   (`RecordsTellOutcome`, `RecordsAgree`), also across full queues, failing
   statements and restarts (`LedgerHonest`);
7. `previous_response_id` never goes to two providers, and once its affinity is
   set, only to the one that knows it (`PreviousGoesHome`);
8. only validated configurations are served, each under its own generation,
   and edits that the watcher sees take effect (`IInv`, `ReloadsConverge`);
9. what the client of a translated stream sees is balanced, complete and says
   truthfully how it ended (`BlocksWellFormed`, `FaithfulMessage`,
   `NoSpuriousError`, `StopReasonHonest`);
10. a translated conversation reaches the upstream whole, in order and in the
    shape its API demands, with the reasoning that belongs to it, on a model
    that can take it (`FaithfulHistory`, `ResultsFollowCalls`,
    `ReasoningInPlace`, `AcceptedConverts`, `RequirementsMatch`);
11. the continuation cache stays within its limits and never returns what it
    should have forgotten (`CacheInv`, `HitsAreFresh`).

## 2. Modules

| Module | Models |
|---|---|
| `Failover` | the abstract promise: candidates are considered in order, called or skipped, at most one is committed to |
| `StreamAttempt` | one streaming attempt, shared by both streaming handlers |
| `ResponsesStream` | `serveResponsesStream` and `precommitAndStreamOpenAI`; implements `Failover` |
| `MessagesStream` | `serveMessagesStream` and `precommitAndStreamAnthropic`; implements `Failover` |
| `NonStream` | `ExecuteNonStream` with its caller `handleResponses`, and `serveMessagesNonStream`; implements `Failover` |
| `Continuations` | `reasoningContinuations`: `Store`, `Load` and what they call |
| `ChatStream` | `chatCompletionEventStream`, the adapter from Chat Completions to Responses events |
| `StreamEncoder` | `StreamEncoder`, from Responses events to Anthropic events |
| `StreamPipeline` | their composition, with a Messages or a Hoard client at its end |
| `ConfigReload` | the start of the server, the watcher, the reload callback, the store and the requests that read it |
| `Routing` | `config.Validate`'s rules about references, and the resolution of a name to candidates |
| `UsageStore` | the usage queue, its writer and `Close` |
| `Gateway` | the process: requests routed by `Routing` with `resolveWithAffinity`, recorded in `UsageStore`, through reloads, expiry, shutdown, crash and restart |
| `Translation` | `anthropic.Parse`, `ToResponsesWithContinuations` and `ResponsesToChatCompletionRequest` over a conversation |
| `MC*` | the instances for TLC |
| `StreamAttemptProofs` | lemmas about one attempt, used by the proofs of both streaming handlers |
| `ResponsesStreamProofs`, `MessagesStreamProofs`, `NonStreamProofs`, `GatewayProofs` | theorems about the modules of those names |
| `StreamPipelineProofs` | theorems about `ChatStream`, `StreamEncoder` and their composition |
| `TranslationProofs` | theorems about `Translation` |
| `SharedStateProofs` | theorems about the state requests share: `Continuations` and `ConfigReload` |

**StreamAttempt.** `pc` is the handler goroutine's position and `cur` its
candidate. `late`, `timer` and `expired` are the deadline of
`candidateStreamContext`: the timer callback is three steps (`TimerFires`,
`TimerExpires`, `TimerCancels`) because the handler may observe any of them, and
`StopOutputDeadline` is the wait on `finished` in `stopTimer`. `prod`, `held` and
`chan` are the reader goroutine, the event in its hand and the channel `steps`;
there is one of each *per candidate*, since a goroutine may survive its
attempt. `cancelled`, `closed` and `stop` are the three ways to tell it to leave.
`Collect*` are the branches of the precommit loop. An upstream event is one of
seven kinds, exactly those the handlers tell apart; the HTTP status of an
upstream surfaces as the error of the first read, as with the SDK's streams.

**ResponsesStream** adds the failover loop (`SkipCandidate`, `TryCandidate`,
`DialFailed`, `DialTimedOut`, `PrecommitFailed`, `AllFailed`), the commit
(`CommitStream`) and the post-commit loop (`Stream*`), and at the end
`FinishCommitted`, which releases the attempt, pins the response id and records
usage. `hoard` chooses between a plain and a Hoard request.

**MessagesStream** does the same for the Anthropic protocol. The encoder is
represented by what its handler reads back (terminal, success, the stop reason
`max_tokens`); an upstream `response.incomplete` becomes a regular end with that
stop reason. Pings are bounded by `MaxPings`.

**NonStream** models both non-streaming loops; `api` chooses. A Responses
request has one context for all candidates: `overdue` is its timeout,
`clientGone` the disconnect, and `CtxDone` their disjunction is all
`ExecuteNonStream` can see. A Messages request has a context per call, so a call
that timed out is told from a client that left by the error alone; an answer
`ToMessage` refuses is failed over (`MappingFailed`), and the reasoning of an
accepted one is remembered before the usage record and the answer are written.

**Continuations** has goroutines that read the clock, wait for the mutex and
then work with the time they read. `LockForStore`, `EvictOldest` and
`FinishStore` are the critical section of `Store`, `Load` is one step; `last`
and `hits` are history the properties need. A continuation is its size.

**ChatStream** and **StreamEncoder** write the adapter's and the encoder's
methods as operators from a state to the next state and the events it returns
or queues; strings are represented by the number of fragments they are made
of, so that "the final arguments are those sent so far" is an equation between
numbers. **StreamPipeline** feeds them: any chunks about two tool calls in any
order, or any Responses events, a stream that breaks off anywhere, and a client
of either kind. Its `sse` and `log` are the whole output, for the properties.

**ConfigReload** has a version per file, `pending` file events, the watcher's
position inside the reload callback (`.env` and `config.toml` are read in
separate steps), the generation counter and the active snapshot; `published`
remembers every snapshot that was ever active. `server` is where `runServe` is:
`StartDotenv` and `StartConfig` are the two reads of `loadActive`, the second
of which may end the process, and `StartWatch` is the step in which the watch
begins or cannot be set up. An edit before it changes a file and causes no event,
and without a watcher none ever does.

**Gateway** composes what the handlers' modules take for granted or leave
behind. `Receive` pins the configuration; `RouteFresh`, `RouteSticky`,
`RouteUnknown` are the branches of `resolveWithAffinity`, with `FindExpired` and
`PurgeExpired` for the two critical sections of `Memory.Get`; a call is one step
that fails or is answered (`CallFails`, `CallServes`, `StreamServes`), since the
loops are detailed elsewhere. A non-streaming answer is pinned, recorded and
then written (`CallServes`, `RecordUsage`, `Answer`). A streamed one has been
flushed, terminal event and id included, before its affinity is set and its
record handed over (`StreamServes`, `PinStreamed`, `Finish`): a client may
continue it in between (`Ids`), is then taken for one with an unknown id, and
reaches the first candidate. `ask[r].sure` remembers whether the affinity
was set when a continuation arrived. `Ends` is a
shutdown or a kill: what is in flight, queued or pinned is gone, the database
stays, and `Start` begins anew on it. `origin` is history: who made which
response, when, and in which life of the process.

**UsageStore** writes a record as the code does, a request row and then one row
per attempt, each statement failing or not by itself (their errors are ignored
by the code).

**Translation** grows a conversation: the client adds turns, empty ones among
them (`validateBlocks` accepts an empty list of any role), or blocks
(`ClientWrites`, `ClientExtends`), the gateway answers what it accepts and
remembers the answer's reasoning (`UpstreamAnswers`), the cache forgets
(`Forget`). The translations are operators on that history. Each of the code's
loops is a recursive function over the prefixes of what it reads:
`BlocksToInput` with `FlushMessage` and `AddBlock` towards Responses items,
`ResponsesInputToChat` with `AddItem` towards Chat Completions messages. Texts
are tokens; JSON encoding is represented by what it does to the parts of a tool
result. `opts` holds the request options that are mapped: thinking, effort, tool
choice.

## 3. Runs

| Run | Instance | Shows |
|---|---|---|
| `responses` | 2 candidates of one provider, events of all 7 kinds, 3 of the second candidate, buffer limits 2 and 3 | the inductive invariant of the proof and the refinement of `Failover`, under the races of timer, client, both readers and handler: no timeout becomes a 400, one answer, one live upstream, no second call to a provider that refused its key; event order across the commit, one terminal event, empty completions, usage and affinity, buffer bounds; every request and goroutine ends |
| `messages` | 2 candidates of one provider, 2 events, 1 ping | the same promise for `/v1/messages`, with the Anthropic event sequence, usage, stored continuations, and the end of the request and its readers |
| `nonstream_safe` | 4 candidates, 2 providers, both endpoints | failover, statuses, agreement of answer, usage and what is kept, failover after a Messages timeout, termination |
| `nonstream_timeout` | same | finding 1 |
| `continuations` | 2 goroutines, 3 keys, 2 entries, 3 bytes, 3 ticks | the byte account, both limits, no refusal of an acceptable entry, freshness of hits |
| `pipeline` | 2 tool calls, 5 chunks or 4 events | well-formed Anthropic streams from any upstream events, faithful ones from any chat stream, bracketed items |
| `translation` | 4 messages, 4 blocks or empty turns, 2 tool ids, 1 remembered thought; all options | whole and ordered histories in both formats, adjacent tool results, reasoning in its place, exactly which accepted requests fail to convert, requirements that match what is sent |
| `translation_thinking` | 1 message of 1 block; all options | finding 4 |
| `gateway` | 2 requests, one of them streamed, 4 configurations (one invalid), 1 reload, 1 restart, a queue of 1 | stickiness, honest usage tables, and requests that end although the writer may never run |
| `gateway_sticky` | same | finding 3 |
| `reload_safe` | 2 requests, 3 edits, from the start of the server on, with or without a watcher | served snapshots are valid and identified by their generation, and a server whose watcher saw a change ends up with the contents of the files |
| `reload_single` | 1 request, 1 edit | finding 2 |

`IInv`, `RoutingInv` and `CacheInv` are conjunctions of named parts: the type
invariant and the smaller facts that belong together. `AnsweredOnce`,
and `HealthyNotCancelled`, `OnlyValidServed` and `GenerationIdentifies`, which
are parts of the `IInv`s, have no run property of their own; they are proved.

`ReloadsConverge` promises nothing to a server without a watcher, nor for an
edit made between `loadActive` and the start of the watch: the code loses such an
edit until the next one. It says that once the watcher has seen any change, all
that was missed is made up for. `PreviousGoesHome` likewise asks for the origin
only if the affinity was set when the continuation came in; the README's rule
(src/README.md:400) has no such exception, and a client that is quicker than the
handler's last steps does meet it. `AcceptedConverts` is an equivalence:
it names the three kinds of conversation that `Parse` lets through and the Chat
Completions adapter refuses (a file, no turn that says anything,
`chatcompat.go:62`, reasoning remembered before the assistant has said
anything) and says that there is no fourth. `StopReasonHonest` is about streams;
the non-streaming mapping (`response.go:106-109`), which gives the call
precedence over the refusal, is not modelled.

Deadlock is checked in the runs of the handlers, the cache, the pipeline and the
watcher: a request that is over stutters in `Quiescent` (or `Done`, `Idle`), which
is only enabled once no goroutine of it is left, so a handler or reader that
blocks forever is reported. A conversation that has reached its bounds, and a
process that was ended for the last time, really stop; there `RequestsEnd`
takes the place of the deadlock check.

### Bounds

* **Candidates.** Four of two providers in the non-streaming loops: a provider
  that failed comes back after another one, and so does the other. The
  streaming runs have two candidates of one provider, the smallest list in
  which a refused key, a late reader of an abandoned attempt and a failover
  meet; a loop looks at no more than the current candidate and the set of failed
  providers, and the order of longer lists is proved.
* **Events.** `MaxUp` = 3 against buffer limits of 2 events and 3 bytes lets a
  stream stay below, meet and pass each limit, commit early or late, and still
  have an event after the commit, with one in the channel and one in the
  reader's hand at the same time. In the `responses` run a stream of more than
  two events, or with a kind other than `FewKinds` (a lifecycle event, a
  delta, a completion), is the second candidate's, after the first could not
  be opened (`Scope`): what a reader left behind by the first candidate does to
  the second does not depend on the other kinds.
* **Chunks.** Five chunks hold an id, a name and arguments in separate chunks
  with something else in between and a finish reason, or two interleaved tool
  calls. Four Responses events, with ids that match, clash or are missing,
  hold added, delta, done and one event too many.
* **Cache.** Three keys for two entries, sizes up to 2 for 3 bytes: both limits
  force evictions on their own. A lifetime of 2 in 3 ticks lets an entry expire
  while a goroutine waits for the mutex with an older time.
* **Bytes.** A `bulk` event alone reaches `MaxBytes`, any other counts 1.
* **Gateway.** A queue of one record is full with two requests. A lifetime of 0
  and two instants make an affinity expire while its continuation is routed;
  the configurations move a model to another provider, take capabilities away,
  or are invalid. Two requests are a response and its continuation, or two
  records in the writer's way. The `gateway` run keeps two questions apart to
  stay small (`Scope`): a process that records usage has one configuration and
  one instant, since neither has to do with records, and one that does not
  (`usage.enabled = false`, when the store drops every record) has reloads and a
  clock. The theorems, and `gateway_sticky`, have no such bound.
* **Conversations.** Four blocks in up to four messages hold two parallel calls
  and their results, text on either side of a call, a call in one turn and in
  the next, reasoning of two turns; an empty turn counts as a block. Options are
  varied with a one-line history, from which their translation is independent;
  budgets are the bounds of the code's intervals and their neighbours. Tool call
  ids are only compared with each other, so the run uses their symmetry.
* **Edits.** Three edits allow one before, during and after a reload, or a bad
  edit between two good ones.
* The code's own limits (32 events, 64 KiB) are constants of the modules; the
  proofs hold for all of them.

### Fairness

`FairSpec` assumes that a goroutine that can run does, that a timer that was
started fires, and that a read whose context is cancelled or whose body is
closed returns. `Validate` rejects non-positive timeouts, so each of the timers
exists. Nothing is assumed about upstreams (they may stall forever), clients
(they may stay or leave), or users (they may edit or not): those actions have no
fairness condition. `Gateway` assumes weak fairness of each handler alone, whose
calls end by what the handlers' modules show; the usage writer may be stuck
forever, and the process may end at any time.

## 4. Proofs

**`StreamAttemptProofs`** holds what both streaming handlers need of an attempt,
as lemmas over the actions of `StreamAttempt`, which do not mention the handler
around them: what each action changes, that it keeps the types, and four facts.
`BufferInv`: the buffer is within its limits, holds nothing visible while it is
being filled and exactly one visible event, its last, at the commit.
`ReaderInv`: a reader holds an event only while it sends it, and an error is
read off a reader that has exited. `BlameInv`: a read that was cancelled has
someone who cancelled it, and a failure put down to the client is the client's.
`CollectPipe`: buffer, channel and the reader's hand are, in this order, what
was read.

**`ResponsesStreamProofs`** proves for any number of candidates, any providers,
event kinds and limits:

* `InvariantHolds`: `Spec => []IInv`. `IInv` is the conjunction of `TypeOK`;
  `LoopInv` (the loop has called no candidate after `cur`, and has called `cur`
  exactly while its attempt runs); `CommitInv` (at each control point, whether a
  status was written and a candidate committed); and `DeadlineInv` (the
  callback can only run while the handler is inside `DoStream` or waiting in
  `stopTimer`, and only candidates the loop has left are cancelled). The last
  one is needed because the properties speak of `cancelled`, which the callback
  changes concurrently; it is inductive only because `StopOutputDeadline` waits
  for a callback that has begun.
* `HealthyStreamsSurvive`, `ClientIsAnswered`: `HealthyNotCancelled` (no stream that
  opened in time is cancelled by its deadline) and
  `AnsweredOrGone` follow from `IInv`.
* `KeepsFailoverPromise`: `Spec => FailoverSpec`. Initial states map to initial
  states; `Skip`, `Call`, `Commit`, `Serve`, `Reject`, `Exhaust` and `Abandon`
  are each simulated by the one or two handler actions of that meaning, and all
  other steps (timer, readers, collecting) leave the mapped state unchanged.
* `StatusIsFinal`: `Spec => AnsweredOnce`, an action property from `IInv`.

Its second half strengthens `IInv` to `OInv`, which adds the four facts about
attempts and

* `LogInv`: one log entry per candidate before `cur`, each refusal remembered in
  `authFailed`, and no candidate of a refused provider being tried. Without the
  exact length `AuthFailureSticks`, which compares entries, is not inductive;
* `PipeInv`: `CollectPipe` continued after the commit with the output in the
  buffer's place. It survives the commit because `BufferInv` says what the buffer
  is at that moment, and a reader of an earlier attempt because it writes to
  a channel of its own (`ReaderInv`);
* `OutInv`: at each control point, what the client has been sent: no terminal
  event while the stream runs, at most the last one afterwards, and something
  visible in between;
* `LedgerInv`: nothing is recorded before the end, and the record agrees then.

From it follow `RoutingIsSound` (`RoutingInv`), `StatusIsHonest`
(`HonestStatus`; the argument is `BlameInv`: a cancelled read of an attempt that
is still open can only be the client's doing), `BufferStaysBounded`
(`BufferBounded`), `EventsAreKept` (`NoEventLost`), `StreamsEndOnce`
(`TerminatedOnce`), `SuccessDeliversOutput` (`NoEmptyAnswer`) and
`RecordsAreTrue` (`RecordsTellOutcome`). Every invariant the run of this
handler checks is thereby proved.

**`MessagesStreamProofs`** proves for `/v1/messages`, with any number of pings,
`InvariantHolds`, `RoutingIsSound`, `StreamsEndOnce`, `RecordsAreTrue` and the
refinement `KeepsFailoverPromise`. Its `IInv` has the same parts; `OutInv` relates
the output to what the handler reads back from the encoder, so that success
means `message_stop` and no `max_tokens`. `LogInv` is weaker at the end than its
sibling: a request given up because its client left does not note its last
attempt.

**`NonStreamProofs`** proves for both non-streaming loops `InvariantHolds`,
`RefusedStaysRefused` (`RoutingInv`), `RecordsTellTheOutcome` (`RecordsAgree`),
`MessagesTimeoutsFailOver` (`MessagesTimeoutFailsOver`) and
`KeepsFailoverPromise`. `LogInv` says that entry *j* of the log is about candidate
*j* and was skipped exactly if that was not called; it also ties a timeout at
the log's end to the last reply, from which the 504 and the failover after a
timeout are argued. The same theorem does not hold of the Responses loop:
finding 1.

**`SharedStateProofs`**, first part: the continuation cache, for any number of
goroutines, keys, sizes and limits.

* `LoadsAreFresh`: `Spec => []HitsAreFresh`. The strengthening says that every
  entry is as its last `Store` left it but for `touched`; dropping entries keeps
  that, which is the lemma shared by purge, replacement and eviction.
* `CacheStaysSound`: `Spec => []CacheInv`, with the byte account. The
  strengthening `AccountInv` adds the mutual exclusion and the limit on entries
  at every step (`LimitInv`), and what is known inside the critical section of
  `Store` (`StoreInv`): the size on offer is acceptable, and the entry it replaces
  is already out of the map. Hence an empty cache has room for it, and the
  eviction loop never gives up. The sum of sizes is treated by induction over
  the subsets of a finite set, with a *set* of good subsets in the place of a
  predicate.

Second part: hot reload, for any set of requests and any number of edits:
`ReloadInvariant` (`IInv`), and from it `InvalidReloadKeepsConfig`
(`OnlyValidServed`) and `GenerationsAreUnique` (`GenerationIdentifies`). The
strengthening is `StartInv` (nothing is active before `NewStore`, nothing is
reloaded before `Watch`) and `CounterInv`: the callback's counter is never
behind the active snapshot's generation and strictly ahead of it between parsing
and swapping, so a swap publishes a generation nobody has. (`ConfigReload` names
its specification `ReloadSpec`, so that this module can extend both.)

**`StreamPipelineProofs`** proves the five invariants of the pipeline's run for
chat streams of any length, any number of tool calls, and any Responses events.
There are four inductive invariants, each resting on the ones before it:

* `StreamInv`, from which `ItemsStayBracketed` (`ItemsBracketed`): what the adapter
  has told so far, its log and queue, is described by its own state. `Told` says
  that the items added are those with an output index, each added once and in
  the order of the indices, and that those done are the ones its state says are
  done; `Keeps` ties that to the adapter's record. One lemma per operator of
  `ChatStream` says how it extends what was told.
* `ShowInv`, from which `BlocksStayWellFormed` (`BlocksWellFormed`): the same for
  what the client has seen. `Running(s, n, O)` is a message with *n* blocks of
  which those in *O* are open, and `Shows` says that *n* and *O* are the encoder's
  `nextIndex` and open blocks. It makes no assumption on the events, so it also
  covers an upstream that speaks Responses badly.
* `HandInv`, from which `ErrorsHaveACause` (`NoSpuriousError`) and
  `StopReasonStaysHonest` (`StopReasonHonest`): adapter and encoder know the same.
  While chunks are read the encoder plus the queue hold what the adapter holds
  (`Agree`); after a regular end the queue closes exactly what the encoder has
  open (`Closes`); a message that is over ended in an error for a cause, or says
  the truth (`Ended`).
* `CarryInv`, from which `MessageStaysFaithful` (`FaithfulMessage`): the text and
  arguments in the client's blocks (`Carried`) and in the queue (`Pend`) add up
  to what the adapter read. The blocks of tools to come are not known yet, so
  `Carried` speaks of every set of block numbers that may turn out to be theirs.

**`TranslationProofs`** proves the five properties of the translation's run for
histories of any length, any texts, ids and thoughts, and any turns left empty.
The invariant is small (`TypeInv`: types and one thought per remembered turn);
the properties are facts about the state, and the work lies in the two loops and
in `FlattenSeq`:

* `Flattening`, `Recursion` and `NumberInduction` unfold `FlattenSeq` and the
  recursive functions, by induction over the natural numbers with a set in the
  place of the predicate. `Spell(g, s)` is what the items of *s* say in a
  language *g*; spelling distributes over `\o`.
* `HistoryStaysWhole` (`FaithfulHistory`): each loop preserves what its input
  spells, first block by block, with the text collected and not yet flushed
  counted in, then item by item, where a call that joins the last message or a
  marker that only sets `reasoning` leaves the order alone.
* `Converts(a, s, b)` says that the items *s* take the adapter from *a* to *b*;
  it composes over `\o` and `FlattenSeq`, which turns statements about the whole
  input into invariants at the boundaries of turns.
* `ReasoningStaysInPlace` (`ReasoningInPlace`): after turn *n* no message is about a
  later turn, the reasoning of each earlier turn is where it belongs (`Placed`),
  and no call of another turn can join the last message (`Edge`), unless nobody
  has spoken since the last assistant turn (`Open`). An empty turn leaves things
  as open as they were (`StaysOpen`), so it takes a turn that *speaks* to keep two
  assistant turns apart: hence `Alternates`. For native reasoning items the
  boundary invariant is `Led`.
* `AcceptedStaysConvertible` (`AcceptedConverts`): after *n* turns the conversion
  has not failed exactly if every thought so far came after an assistant's words
  (`Lands`), and then the messages tell whether anybody, and whether an
  assistant, has spoken (`Tells`). A file fails it (`FilesFail`); the rest of the
  refusals are excluded by cases on efforts and tool choices.
* `ResultsStayWithCalls` (`ResultsFollowCalls`): after turn *n* every message with
  calls is answered, except that of turn *n*, which is then the last one and
  has exactly that turn's calls (`Settled`). That the next turn's first results
  are as many as the calls, and theirs, is a counting argument over the
  positions of the ids, which `ToolRelation` makes unique.
* `RequirementsStayTrue` (`RequirementsMatch`): every image and file of the input
  comes from a block `NeedsVision` recognises; efforts and choices by cases.

**`GatewayProofs`** proves, for any set of requests, configurations, lifetime,
queue capacity and number of reloads and restarts:

* `LedgerIsHonest`: `Spec => []LedgerHonest`. The strengthening `LedgerInv` says
  of every record on its way, in the queue or in the writer's hand, what the
  property says of rows, and that the writer never counts past the attempts of
  its record. It is inductive because a request that is over never changes, and
  because `Finish`, the only source of records, is taken once per request.
* `PreviousStaysHome`: `Spec => PreviousGoesHome`. `StickyInv` has two halves.
  `AffinityInv`: each affinity names the origin of its response, and of the
  responses whose handler has set it, none within its lifetime is missing. Here
  lies the argument about `Get`'s two locks: between them the clock only
  advances, so an entry found expired may be deleted late, and no entry is ever
  replaced, for response ids are not reused. An affinity is no older than its
  response, so `Get` never forgets one too early; `PinInv` says that a stream about
  to be pinned is pinned to its origin.
  `HomeInv`: a continuation about to be sent has one candidate, untried, which
  is the origin's provider unless the origin was rightly forgotten or not yet
  pinned when the continuation came in; what was pinned stays so (`SureInv`).

The assumptions are the `ASSUME`s of the modules: at least one candidate and a
provider for each (`NonStreamAssumption`, `AttemptAssumption`), positive buffer
limits and natural bounds (`AttemptAssumption`, `PingAssumption`,
`CacheAssumption`, `PipelineAssumption`, `ReloadAssumption`), tool calls that
are numbered apart from the adapter's other items (`CallsAssumption`), response
ids that are not empty and one valid configuration (`GatewayAssumption`), and
remembered reasoning that is not the empty string (`TranslationAssumption`:
`appendChatReasoningMarker` writes no marker for an empty one). The inductive
invariants of the four loops and of the cache that are not themselves properties
of a run were also checked by TLC, on the runs' instances.

Every invariant and every action property of the passing runs, refinement
included, is stated by a theorem. Only liveness (`RequestEnds`, `RequestsEnd`,
`ReloadsConverge`) is model-checked and not proved: it rests on fairness and
`ENABLED`, which the prover does not handle. The library's induction theorems
cannot be used with these provers, since they take an operator as a parameter;
the inductions here go through the least element of a set of counterexamples
(`WFMin`), which takes a set.

## 5. Findings

1. `nonstream_timeout`: the README lists a timeout as a reason to fail over.
   A non-streaming Responses request runs all candidates under one timeout;
   when it expires inside a call, the loop takes the finished context for a
   client's disconnect, and answers 400 without trying the other candidates.
2. `reload_single`: the README says that a request takes one snapshot and uses
   it to the end. The middleware and the handler each fetch one, and a reload
   may come between.
3. `gateway_sticky`: a comment and the README say that a
   `previous_response_id` is pinned to the provider and the model that made the
   response. The stored upstream model is never read: after a reload that
   points the local model elsewhere, the continuation reaches the old provider
   under the new upstream model. (`docs/protocol-openai.md` does warn that the
   upstream state is not kept when the configuration changes.)

4. `translation_thinking`: `docs/protocol-anthropic.md` says that fixed thinking
   budgets are refused, and that adaptive thinking is only used for routing. The
   code maps both to an effort, and sends it.

One more place where a document is behind the code: the README says that no
reasoning effort is sent to Chat Completions, while `chatcompat.go` sends it.

## 6. Mutants

Each property has a mutant in `PROJECT.json`: a variant of one definition, in
the same module right before it, that breaks the property the way a plausible
slip in the code would (no wait in `stopTimer`, a forgotten `cancelAttempt`, the
attempt's context tested instead of the request's, and so on).

## 7. Plan

Theorems to add: an invariant of `UsageStore` by itself, on which `GatewayProofs`
could rest.

Still worth modelling: the final event of the chat adapter (its output list and
usage), the content of the Hoard trace, and the terminal shared by the console
traces of concurrent requests.

One behaviour to decide about: a Messages stream that ends before its commit with
a 400 from `DoStream`, or because the client left, leaves no usage record
(`messages_stream.go`), while the Responses handler records both.

A disagreement to state as a run: the comment on `closeReasoning` in
`chat_stream.go` says that output items never interleave, but reasoning that
first arrives after the answer began opens its item beside the open ones.
`ItemsBracketed` states the half that holds.

## 8. Not modelled

* TOML decoding and checks of single fields: only their verdict matters here.
* The table from HTTP statuses and error texts to error classes: the handlers'
  modules meet every class at every call instead.
* Tool schemas, output formats, sampling parameters, system prompts and token
  counts in the translations: JSON to JSON, covered by golden tests.
* `fsnotify` itself: every event of a running watcher is delivered, while an
  overflowing inotify queue may drop some.
* The non-streaming mapping of an answer to a Messages response (`ToMessage`):
  only whether it succeeds matters in `NonStream`.
* Texts that are empty: in a list of an assistant or the system they leave no
  item, as a `thinking` block does, which stands for them.
* SDK clients and the pool, HTTP plumbing, health and model listings, logging and
  the console trace, the command line, the SQL of usage reports.
