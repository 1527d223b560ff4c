------------------------------ MODULE ChatStream ------------------------------
(***************************************************************************)
(* The adapter that presents a Chat Completions stream as a Responses      *)
(* stream: it opens an output item per kind of content and per tool call,  *)
(* queues the events of each chunk, and closes every item at the end.      *)
(*                                                                         *)
(* A chunk with several fields is processed field by field, in a fixed     *)
(* order, into the same queue; it is modelled as several chunks with one   *)
(* field each.  Strings are represented by the number of fragments they    *)
(* are made of.                                                            *)
(***************************************************************************)
EXTENDS Integers, Sequences, SequencesExt

CONSTANT Calls   \* indices of the tool calls, positive integers

ASSUME CallsAssumption == Calls \subseteq Nat \ {0}

VARIABLES
  chat,  \* the chatCompletionEventStream
  queue  \* its queue of Responses events

chatVars == <<chat, queue>>

(* Item ids: tool calls have their index. *)
TextItem == -1
RefusalItem == -2
ReasoningItem == -3

(* output[i]: the output index of an item that was added. *)
NewTool == [hasID |-> FALSE, hasName |-> FALSE, args |-> 0]

ChatInit ==
  /\ \E expose \in BOOLEAN :
       chat = [started |-> FALSE, ended |-> FALSE, err |-> FALSE, finish |-> "",
               text |-> 0, refusal |-> 0, reasoning |-> 0, expose |-> expose,
               reasoningClosed |-> FALSE, output |-> <<>>, tools |-> <<>>]
  /\ queue = <<>>

-----------------------------------------------------------------------------
Started(c, item) == item \in DOMAIN c.output

Event(type, kind, item, out, size) ==
  [type |-> type, kind |-> kind, item |-> item, output |-> out, size |-> size]

ItemEvent(c, type, kind, item, size) == Event(type, kind, item, c.output[item], size)

Lifecycle(type) == Event(type, "", 0, -1, 0)

(* A new item takes the next output index. *)
AddItem(c, item) ==
  [c EXCEPT !.output = [i \in DOMAIN @ \cup {item} |->
                          IF i = item THEN Cardinality(DOMAIN c.output) ELSE @[i]]]

(* A result of the adapter's methods: its new state and the events queued. *)
Queue(c, events) == [chat |-> c, events |-> events]

(* A mutant: the reasoning item stays open until the end. *)
CloseReasoningLate(c) ==
  IF ~Started(c, ReasoningItem) \/ c.finish = "" THEN Queue(c, <<>>)
  ELSE Queue([c EXCEPT !.reasoningClosed = TRUE],
             <<ItemEvent(c, "output_item.done", "reasoning", ReasoningItem, c.reasoning)>>)

(* closeReasoning ends the reasoning item before another item starts. *)
CloseReasoning(c) ==
  IF ~Started(c, ReasoningItem) \/ c.reasoningClosed THEN Queue(c, <<>>)
  ELSE Queue([c EXCEPT !.reasoningClosed = TRUE],
             <<ItemEvent(c, "reasoning_text.done", "", ReasoningItem, c.reasoning),
               ItemEvent(c, "output_item.done", "reasoning", ReasoningItem, c.reasoning)>>)

(* Reasoning is shown on Hoard only, and not once its item is closed. *)
AddReasoning(c0) ==
  LET c == [c0 EXCEPT !.reasoning = @ + 1]
      d == AddItem(c, ReasoningItem) IN
  IF ~c.expose \/ c.reasoningClosed THEN Queue(c, <<>>)
  ELSE IF Started(c, ReasoningItem)
  THEN Queue(c, <<ItemEvent(c, "reasoning_text.delta", "", ReasoningItem, 1)>>)
  ELSE Queue(d, <<ItemEvent(d, "output_item.added", "reasoning", ReasoningItem, 0),
                  ItemEvent(d, "reasoning_text.delta", "", ReasoningItem, 1)>>)

(* addText and addRefusal: open a message item first, if there is none. *)
AddMessage(c, item, delta) ==
  IF Started(c, item) THEN Queue(c, <<ItemEvent(c, delta, "", item, 1)>>)
  ELSE LET r == CloseReasoning(c)
           d == AddItem(r.chat, item) IN
       Queue(d, r.events \o <<ItemEvent(d, "output_item.added", "message", item, 0),
                              ItemEvent(d, "content_part.added", "", item, 0),
                              ItemEvent(d, delta, "", item, 1)>>)

AddText(c) == AddMessage([c EXCEPT !.text = @ + 1], TextItem, "output_text.delta")

AddRefusal(c) == AddMessage([c EXCEPT !.refusal = @ + 1], RefusalItem, "refusal.delta")

(* A delta of tool call i may bring its id, its name, some arguments. *)
ToolCall(c, i) == IF i \in DOMAIN c.tools THEN c.tools[i] ELSE NewTool

Merge(c, i, id, name, n) ==
  LET tool == ToolCall(c, i)
      merged == [hasID |-> tool.hasID \/ id, hasName |-> tool.hasName \/ name,
                 args |-> tool.args + n] IN
  [c EXCEPT !.tools = [j \in DOMAIN @ \cup {i} |-> IF j = i THEN merged ELSE @[j]]]

ArgumentsDelta(c, i, n) ==
  IF n = 0 THEN <<>> ELSE <<ItemEvent(c, "function_call_arguments.delta", "", i, n)>>

(* A mutant: arguments that came before the item was added are not sent. *)
AddToolDeltaDrops(c0, i, id, name, n) ==
  LET c == Merge(c0, i, id, name, n)
      tool == c.tools[i] IN
  IF Started(c, i) THEN Queue(c, ArgumentsDelta(c, i, n))
  ELSE IF ~(tool.hasID /\ tool.hasName) THEN Queue(c, <<>>)
  ELSE LET r == CloseReasoning(c)
           d == AddItem(r.chat, i) IN
       Queue(d, r.events \o <<ItemEvent(d, "output_item.added", "function_call", i, 0)>>
                  \o ArgumentsDelta(d, i, n))

(* The item is added once id and name are known; arguments that came       *)
(* before are then sent in one delta.                                      *)
AddToolDelta(c0, i, id, name, n) ==
  LET c == Merge(c0, i, id, name, n)
      tool == c.tools[i] IN
  IF Started(c, i) THEN Queue(c, ArgumentsDelta(c, i, n))
  ELSE IF ~(tool.hasID /\ tool.hasName) THEN Queue(c, <<>>)
  ELSE LET r == CloseReasoning(c)
           d == AddItem(r.chat, i) IN
       Queue(d, r.events \o <<ItemEvent(d, "output_item.added", "function_call", i, 0)>>
                  \o ArgumentsDelta(d, i, tool.args))

-----------------------------------------------------------------------------
(* finishOutput: close every item, the tools in output order; a tool call  *)
(* whose id or name never came is an error.                                *)
MessageDone(c, item, done, size) ==
  IF ~Started(c, item) THEN <<>>
  ELSE <<ItemEvent(c, done, "", item, size),
         ItemEvent(c, "content_part.done", "", item, size),
         ItemEvent(c, "output_item.done", "message", item, size)>>

ToolDone(c, i) ==
  LET args == IF c.tools[i].args = 0 THEN 1 ELSE c.tools[i].args IN
  <<ItemEvent(c, "function_call_arguments.done", "", i, args),
    ItemEvent(c, "output_item.done", "function_call", i, args)>>

Complete(c) == \A i \in DOMAIN c.tools : Started(c, i)

ToolsInOrder(c) ==
  CHOOSE s \in [1 .. Cardinality(DOMAIN c.tools) -> DOMAIN c.tools] :
    \A j, k \in DOMAIN s : j < k => c.output[s[j]] < c.output[s[k]]

FinishOutput(c) ==
  LET r == CloseReasoning(c) IN
  Queue(r.chat, r.events \o MessageDone(c, TextItem, "output_text.done", c.text)
                  \o MessageDone(c, RefusalItem, "refusal.done", c.refusal)
                  \o FlattenSeq([k \in DOMAIN ToolsInOrder(c) |-> ToolDone(c, ToolsInOrder(c)[k])]))

Terminal(c) == Lifecycle(IF c.finish = "length" THEN "incomplete" ELSE "completed")

-----------------------------------------------------------------------------
(* Next, called with an empty queue. *)
Announce ==
  /\ queue = <<>>
  /\ ~chat.started
  /\ chat' = [chat EXCEPT !.started = TRUE]
  /\ queue' = <<Lifecycle("created")>>

Reading == queue = <<>> /\ chat.started /\ ~chat.ended

Receive(r) == chat' = r.chat /\ queue' = r.events

ReceiveText == Reading /\ Receive(AddText(chat))

ReceiveRefusal == Reading /\ Receive(AddRefusal(chat))

ReceiveReasoning == Reading /\ Receive(AddReasoning(chat))

ReceiveToolDelta(i, id, name, n) == Reading /\ Receive(AddToolDelta(chat, i, id, name, n))

ReceiveFinish(reason) ==
  /\ Reading
  /\ chat' = [chat EXCEPT !.finish = reason]
  /\ UNCHANGED queue

(* inner.Next returned false with an error. *)
InnerFails ==
  /\ Reading
  /\ chat' = [chat EXCEPT !.ended = TRUE, !.err = TRUE]
  /\ UNCHANGED queue

(* inner.Next returned false without one: close everything.  What          *)
(* finishOutput queued before it found an incomplete tool call is never    *)
(* read, since Next returns false.                                         *)
InnerEnds ==
  /\ Reading
  /\ \/ /\ ~Complete(chat)
        /\ chat' = [chat EXCEPT !.ended = TRUE, !.err = TRUE]
        /\ UNCHANGED queue
     \/ /\ Complete(chat)
        /\ LET c == [chat EXCEPT !.finish = IF @ = "" THEN "stop" ELSE @]
               r == FinishOutput(c) IN
             /\ chat' = [r.chat EXCEPT !.ended = TRUE]
             /\ queue' = Append(r.events, Terminal(c))
=============================================================================
