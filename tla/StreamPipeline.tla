---------------------------- MODULE StreamPipeline ----------------------------
(***************************************************************************)
(* From the upstream's wire format to the Anthropic stream: a candidate    *)
(* with wire API chat_completions is read through the ChatStream adapter,  *)
(* any other sends Responses events, which the router takes as they come.  *)
(* A Messages client gets them through the StreamEncoder; a Hoard client   *)
(* gets the Responses events themselves, reasoning included (those of a    *)
(* Responses upstream pass through unchanged, and are not modelled).  In   *)
(* between the events pass through the reader goroutine and the buffer of  *)
(* StreamAttempt, which loses and reorders none of them.                   *)
(***************************************************************************)
EXTENDS ChatStream, StreamEncoder

CONSTANTS
  MaxChunks, \* bound: chunks of a Chat Completions stream
  MaxEvents  \* bound: events of a Responses stream

ASSUME PipelineAssumption == MaxChunks \in Nat /\ MaxEvents \in Nat

VARIABLES
  client,  \* the endpoint the client uses
  wireAPI, \* the provider's wire API
  sent,    \* chunks or events the upstream has sent
  log,     \* the events the adapter has produced
  badArgs  \* the arguments of a tool call turned out to be no JSON object

vars == <<chatVars, encoderVars, client, wireAPI, sent, log, badArgs>>

Init ==
  /\ ChatInit
  /\ EncoderInit
  /\ client \in {"messages", "hoard"}
  /\ wireAPI \in {"chat_completions", "responses"}
  /\ client = "hoard" => wireAPI = "chat_completions"
  /\ chat.expose <=> client = "hoard"
  /\ sent = 0
  /\ log = <<>>
  /\ badArgs = FALSE

-----------------------------------------------------------------------------
(* One chunk of the chat stream; a tool delta with nothing in it is sent   *)
(* by no provider.                                                         *)
ChatChunk ==
  /\ wireAPI = "chat_completions"
  /\ sent < MaxChunks
  /\ \/ ReceiveText
     \/ ReceiveRefusal
     \/ ReceiveReasoning
     \/ \E i \in Calls, id, name \in BOOLEAN, n \in 0 .. 1 :
          (id \/ name \/ n = 1) /\ ReceiveToolDelta(i, id, name, n)
     \/ \E reason \in {"stop", "length"} : ReceiveFinish(reason)
  /\ sent' = sent + 1
  /\ UNCHANGED <<encoderVars, client, wireAPI, log, badArgs>>

ChatEdge ==
  /\ wireAPI = "chat_completions"
  /\ Announce \/ InnerFails \/ InnerEnds
  /\ UNCHANGED <<encoderVars, client, wireAPI, sent, log, badArgs>>

(* Any Responses event about up to two function calls, in any order. *)
Places == {<<1, 0>>, <<2, 1>>, <<2, 0>>, <<NoItem, 0>>, <<NoItem, 1>>}

ResponsesEvents ==
  {Event("output_text.delta", "", 3, 2, 1), Event("refusal.delta", "", 3, 2, 1)}
    \cup {Event("refusal.done", "", 3, 2, n) : n \in 0 .. 1}
    \cup {Event(type, "", 3, 2, 0) : type \in {"output_text.done", "content_part.done"}}
    \cup {Event("output_item.added", "function_call", p[1], p[2], n) : p \in Places, n \in 0 .. 1}
    \cup {Event("function_call_arguments.delta", "", p[1], p[2], 1) : p \in Places}
    \cup {Event("function_call_arguments.done", "", p[1], p[2], n) : p \in Places, n \in 0 .. 2}
    \cup {Event("output_item.done", "function_call", p[1], p[2], 1) : p \in Places}
    \cup {Lifecycle(type) : type \in {"created", "completed", "incomplete", "failed"}}

ResponsesEvent ==
  /\ wireAPI = "responses"
  /\ queue = <<>>
  /\ ~enc.terminal
  /\ sent < MaxEvents
  /\ \E ev \in ResponsesEvents : queue' = <<ev>>
  /\ sent' = sent + 1
  /\ UNCHANGED <<chat, encoderVars, client, wireAPI, log, badArgs>>

-----------------------------------------------------------------------------
(* The next event reaches the encoder, which looks at the arguments of the *)
(* tool calls only when the response is complete.                          *)
Deliver ==
  /\ client = "messages"
  /\ queue # <<>>
  /\ ~enc.terminal
  /\ \E bad \in BOOLEAN :
       /\ bad => Head(queue).type = "completed" /\ enc.tools # <<>>
       /\ badArgs' = bad
       /\ HandleResponsesEvent(Head(queue), bad)
  /\ queue' = Tail(queue)
  /\ log' = IF wireAPI = "chat_completions" THEN Append(log, Head(queue)) ELSE log
  /\ UNCHANGED <<chat, client, wireAPI, sent>>

(* The Responses handler takes an event; what it does with it is in        *)
(* ResponsesStream.                                                        *)
Forward ==
  /\ client = "hoard"
  /\ queue # <<>>
  /\ queue' = Tail(queue)
  /\ log' = Append(log, Head(queue))
  /\ UNCHANGED <<chat, encoderVars, client, wireAPI, sent, badArgs>>

(* The stream is over without a terminal event: the handler calls Fail. *)
Broken ==
  /\ client = "messages"
  /\ queue = <<>>
  /\ ~enc.terminal
  /\ wireAPI = "chat_completions" => chat.ended
  /\ enc' = Fail(enc).enc
  /\ sse' = sse \o Fail(enc).events
  /\ UNCHANGED <<chatVars, client, wireAPI, sent, log, badArgs>>

(* The handler stops reading once the encoder has ended the message, or,   *)
(* with a Hoard client, at the end of the stream.                          *)
Done ==
  /\ IF client = "messages" THEN enc.terminal ELSE chat.ended /\ queue = <<>>
  /\ UNCHANGED vars

Next == ChatChunk \/ ChatEdge \/ ResponsesEvent \/ Deliver \/ Forward \/ Broken \/ Done

Spec == Init /\ [][Next]_vars

-----------------------------------------------------------------------------
(* Properties of the composition.                                          *)

Chat == wireAPI = "chat_completions"

(* The adapter and the encoder agree about items, indices, refusals and    *)
(* arguments: a chat stream ends in an error only if it broke off, left a  *)
(* tool call incomplete, or sent arguments that are no JSON object.        *)
NoSpuriousError ==
  Chat /\ enc.terminal /\ sse[Len(sse)].type = "error" => chat.err \/ badArgs

(* What the events s bring for the blocks in I, over all their deltas. *)
Amount(s, I) ==
  LET sum[n \in 0 .. Len(s)] ==
        IF n = 0 THEN 0
        ELSE sum[n - 1] + (IF s[n].type = "content_block_delta" /\ s[n].index \in I
                           THEN s[n].size ELSE 0) IN
  sum[Len(s)]

Blocks == {sse[j].index : j \in {m \in DOMAIN sse : sse[m].type = "content_block_start"}}
ToolBlocks == {enc.tools[i].index : i \in DOMAIN enc.tools}

Sent(b) == Amount(sse, {b})
SentText == Amount(sse, Nat \ ToolBlocks)

(* A finished message is the model's: every fragment of text, refusal and  *)
(* arguments exactly once and in its own block, "{}" for a call without    *)
(* arguments, no block for anything else.                                  *)
FaithfulMessage ==
  Chat /\ enc.terminal /\ sse[Len(sse)].type = "message_stop" =>
    /\ SentText = chat.text + chat.refusal
    /\ DOMAIN enc.tools = DOMAIN chat.tools
    /\ \A i \in DOMAIN chat.tools :
         Sent(enc.tools[i].index) = IF chat.tools[i].args = 0 THEN 1 ELSE chat.tools[i].args
    /\ \A b \in Blocks : b \in ToolBlocks \/ Sent(b) > 0

(* The adapter's events.                                                   *)
Of(item, type) == {j \in DOMAIN log : log[j].item = item /\ log[j].type = type}
ItemsOf == {log[j].item : j \in {m \in DOMAIN log : log[m].type = "output_item.added"}}

(* The adapter brackets its output items: added once, with output indices  *)
(* in order, then their deltas, then done, all before the response ends.   *)
(* No item starts while the reasoning item is open, so a Hoard client can  *)
(* show the reasoning as finished once the answer begins.  (Reasoning that *)
(* starts late, after the answer, does open its item beside the others.)   *)
ItemsBracketed ==
  \A j \in DOMAIN log :
    LET ev == log[j]
        added == {m \in 1 .. j - 1 : log[m].type = "output_item.added"} IN
      /\ ev.type = "output_item.added" =>
           ev.output = Cardinality(added) /\ Of(ev.item, "output_item.added") = {j}
      /\ ev.type = "output_item.added" /\ (\E m \in added : log[m].item = ReasoningItem) =>
           \E m \in Of(ReasoningItem, "output_item.done") : m < j
      /\ ev.item # 0 /\ ev.type # "output_item.added" =>
           /\ \E m \in added : log[m].item = ev.item /\ log[m].output = ev.output
           /\ \A m \in Of(ev.item, "output_item.done") : m >= j
      /\ ev.type \in {"completed", "incomplete"} =>
           \A item \in ItemsOf : Of(item, "output_item.done") # {}

(* stop_reason tells how the message ended, and success is a message that  *)
(* was neither cut off nor failed.                                         *)
StopReasonHonest ==
  Chat /\ enc.terminal /\ sse[Len(sse)].type = "message_stop" =>
    /\ enc.success <=> enc.stopReason # "max_tokens"
    /\ enc.stopReason = "max_tokens" <=> chat.finish = "length"
    /\ enc.success => IF chat.refusal # 0 THEN enc.stopReason = "refusal"
                      ELSE IF chat.tools # <<>> THEN enc.stopReason = "tool_use"
                      ELSE enc.stopReason = "end_turn"
=============================================================================
