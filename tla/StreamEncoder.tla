---------------------------- MODULE StreamEncoder ----------------------------
(***************************************************************************)
(* The encoder that turns one Responses stream into one Anthropic stream:  *)
(* it numbers the content blocks, keeps at most one text block and any     *)
(* number of tool blocks open, and ends the message exactly once.          *)
(*                                                                         *)
(* Text and argument strings are represented by the number of fragments    *)
(* they are made of: 0 is the empty string, and equal strings have equal   *)
(* numbers.                                                                *)
(***************************************************************************)
EXTENDS Integers, Sequences, SequencesExt

VARIABLES
  enc, \* the StreamEncoder
  sse  \* the content and terminal events it has returned so far

encoderVars == <<enc, sse>>

(* tools maps the item ids of the function calls to their streamTool; both *)
(* maps of the code, by item and by output index, hold the same tools.     *)
NewStreamEncoder ==
  [nextIndex |-> 0, textOpen |-> FALSE, textIndex |-> 0, refusalText |-> 0,
   stopReason |-> "end_turn", terminal |-> FALSE, success |-> FALSE, tools |-> <<>>]

EncoderInit == enc = NewStreamEncoder /\ sse = <<>>

-----------------------------------------------------------------------------
(* A result of the encoder's methods: its new state and the events. *)
Emit(e, events) == [enc |-> e, events |-> events]

BlockStart(i) == [type |-> "content_block_start", index |-> i, size |-> 0]
BlockDelta(i, n) == [type |-> "content_block_delta", index |-> i, size |-> n]
BlockStop(i) == [type |-> "content_block_stop", index |-> i, size |-> 0]
Terminator(t) == [type |-> t, index |-> -1, size |-> 0]

(* Fail: an error event; the message is over. *)
Fail(e) ==
  Emit([e EXCEPT !.terminal = TRUE, !.success = FALSE], <<Terminator("error")>>)

TextDelta(e, n) ==
  IF n = 0 THEN Emit(e, <<>>)
  ELSE IF e.textOpen THEN Emit(e, <<BlockDelta(e.textIndex, n)>>)
  ELSE Emit([e EXCEPT !.textOpen = TRUE, !.textIndex = e.nextIndex, !.nextIndex = @ + 1],
            <<BlockStart(e.nextIndex), BlockDelta(e.nextIndex, n)>>)

(* A mutant: the open text block is forgotten beside the tool block. *)
CloseTextForgotten(e) == Emit([e EXCEPT !.textOpen = FALSE], <<>>)

CloseText(e) ==
  IF e.textOpen
  THEN Emit([e EXCEPT !.textOpen = FALSE], <<BlockStop(e.textIndex)>>)
  ELSE Emit(e, <<>>)

(* refusal.done: a refusal that came without deltas is shown now. *)
RefusalDone(e, n) ==
  LET r == [e EXCEPT !.stopReason = "refusal"] IN
  IF n = r.refusalText THEN CloseText(r)
  ELSE IF r.refusalText = 0 THEN TextDelta([r EXCEPT !.refusalText = n], n)
  ELSE Fail(r)

NoItem == 0   \* an event without an item id

(* findTool: by item id, or by output index if there is no id; a set with  *)
(* at most one item.                                                       *)
FindTool(e, item, out) ==
  {i \in DOMAIN e.tools : IF item # NoItem THEN i = item ELSE e.tools[i].output = out}

Duplicate(e, item, out) == \E i \in DOMAIN e.tools : i = item \/ e.tools[i].output = out

AddTool(tools, item, tool) ==
  [i \in DOMAIN tools \cup {item} |-> IF i = item THEN tool ELSE tools[i]]

(* output_item.added with a function call opens a tool block; arguments it *)
(* carries already are sent at once.                                       *)
ToolAdded(e, item, out, n) ==
  IF item = NoItem \/ Duplicate(e, item, out) THEN Fail(e)
  ELSE LET r == CloseText(e)
           tool == [output |-> out, index |-> e.nextIndex, args |-> n, closed |-> FALSE] IN
       Emit([r.enc EXCEPT !.nextIndex = @ + 1, !.stopReason = "tool_use",
                          !.tools = AddTool(@, item, tool)],
            r.events \o <<BlockStart(tool.index)>>
              \o (IF n # 0 THEN <<BlockDelta(tool.index, n)>> ELSE <<>>))

(* A delta of a tool's arguments; an empty fragment is dropped. *)
ToolDelta(e, item, n) ==
  IF e.tools[item].closed THEN Fail(e)
  ELSE IF n = 0 THEN Emit(e, <<>>)
  ELSE Emit([e EXCEPT !.tools[item].args = @ + n], <<BlockDelta(e.tools[item].index, n)>>)

(* A mutant: the final arguments are sent again. *)
FinishToolRepeats(e, item, final) ==
  LET tool == e.tools[item]
      args == IF final # 0 THEN final ELSE 1 IN
  IF tool.closed THEN Emit(e, <<>>)
  ELSE Emit([e EXCEPT !.tools[item].args = args, !.tools[item].closed = TRUE],
            <<BlockDelta(tool.index, args), BlockStop(tool.index)>>)

(* finishTool: the final arguments, if given, must be those sent so far;   *)
(* if none were sent they are sent now, "{}" if there are none at all.     *)
FinishTool(e, item, final) ==
  LET tool == e.tools[item]
      args == IF tool.args # 0 THEN tool.args ELSE IF final # 0 THEN final ELSE 1 IN
  IF final # 0 /\ final # tool.args /\ (tool.closed \/ tool.args # 0) THEN Fail(e)
  ELSE IF tool.closed THEN Emit(e, <<>>)
  ELSE Emit([e EXCEPT !.tools[item].args = args, !.tools[item].closed = TRUE],
            (IF tool.args = 0 THEN <<BlockDelta(tool.index, args)>> ELSE <<>>)
              \o <<BlockStop(tool.index)>>)

(* An event about a tool: without one it ends the message. *)
WithTool(e, ev, Handle(_, _, _)) ==
  LET found == FindTool(e, ev.item, ev.output) IN
  IF found = {} THEN Fail(e) ELSE Handle(e, CHOOSE i \in found : TRUE, ev.size)

(* Finish: close the text, then the open tools in output order, and end    *)
(* the message, unless the arguments of a tool are no JSON object.         *)
OpenTools(e) ==
  LET open == {i \in DOMAIN e.tools : ~e.tools[i].closed} IN
  CHOOSE s \in [1 .. Cardinality(open) -> open] :
    \A j, k \in DOMAIN s : j < k => e.tools[s[j]].output < e.tools[s[k]].output

FinishTools(e) ==
  LET r == CloseText(e)
      order == OpenTools(e) IN
  Emit([r.enc EXCEPT !.tools = [i \in DOMAIN @ |-> FinishTool(e, i, 0).enc.tools[i]]],
       r.events \o FlattenSeq([k \in DOMAIN order |-> FinishTool(e, order[k], 0).events]))

Finish(e, stop, badArgs) ==
  LET r == FinishTools(e) IN
  IF stop # "max_tokens" /\ badArgs THEN Fail(r.enc)
  ELSE Emit([r.enc EXCEPT !.stopReason = stop, !.terminal = TRUE, !.success = TRUE],
            r.events \o <<Terminator("message_delta"), Terminator("message_stop")>>)

(* A mutant: a truncated message counts as a completed response. *)
FinishTruncatedSucceeds(e, badArgs) == Finish(e, "max_tokens", badArgs)

(* A well-formed truncated message is not a completed response. *)
FinishTruncated(e, badArgs) ==
  LET r == Finish(e, "max_tokens", badArgs) IN
  Emit([r.enc EXCEPT !.success = FALSE], r.events)

-----------------------------------------------------------------------------
(* HandleResponsesEvent.  ev.kind is the type of the item an output_item   *)
(* event is about.  "incomplete" is a response cut off at                  *)
(* max_output_tokens; "failed" stands for response.failed, error, any      *)
(* other incomplete response and a payload that cannot be parsed.  Every   *)
(* type that is not listed is ignored.                                     *)
Encode(e, ev, badArgs) ==
  CASE ev.type = "output_text.delta" -> TextDelta(e, ev.size)
    [] ev.type = "refusal.delta" ->
         TextDelta([e EXCEPT !.stopReason = "refusal", !.refusalText = @ + ev.size], ev.size)
    [] ev.type = "refusal.done" -> RefusalDone(e, ev.size)
    [] ev.type \in {"output_text.done", "content_part.done"} -> CloseText(e)
    [] ev.type = "output_item.added" /\ ev.kind = "function_call" ->
         ToolAdded(e, ev.item, ev.output, ev.size)
    [] ev.type = "function_call_arguments.delta" -> WithTool(e, ev, ToolDelta)
    [] ev.type = "function_call_arguments.done" -> WithTool(e, ev, FinishTool)
    [] ev.type = "output_item.done" /\ ev.kind = "function_call" ->
         WithTool(e, ev, FinishTool)
    [] ev.type = "completed" -> Finish(e, e.stopReason, badArgs)
    [] ev.type = "incomplete" -> FinishTruncated(e, badArgs)
    [] ev.type = "failed" -> Fail(e)
    [] OTHER -> Emit(e, <<>>)

HandleResponsesEvent(ev, badArgs) ==
  LET r == IF enc.terminal THEN Emit(enc, <<>>) ELSE Encode(enc, ev, badArgs) IN
  /\ enc' = r.enc
  /\ sse' = sse \o r.events

-----------------------------------------------------------------------------
(* The client's view of the events.                                        *)

(* Indices of the blocks that are open after the first n events. *)
OpenBlocks(n) ==
  {i \in 0 .. Len(sse) :
     /\ \E j \in 1 .. n : sse[j] = BlockStart(i)
     /\ \A j \in 1 .. n : sse[j] # BlockStop(i)}

(* Blocks are numbered from 0 in the order they start, a delta or a stop   *)
(* belongs to an open block, message_stop finds all blocks closed, and     *)
(* nothing follows the end of the message: what StreamEncoder guarantees   *)
(* whatever the upstream sends.                                            *)
BlocksWellFormed ==
  \A j \in DOMAIN sse :
    LET ev == sse[j]
        started == {m \in 1 .. j - 1 : sse[m].type = "content_block_start"} IN
      /\ ev.type = "content_block_start" => ev.index = Cardinality(started)
      /\ ev.type \in {"content_block_delta", "content_block_stop"} =>
           ev.index \in OpenBlocks(j - 1)
      /\ ev.type = "message_stop" => OpenBlocks(j - 1) = {}
      /\ ev.type \in {"message_stop", "error"} => j = Len(sse) /\ enc.terminal
=============================================================================
